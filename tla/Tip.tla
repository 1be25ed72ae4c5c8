-------------------------------- MODULE Tip ----------------------------------
(***************************************************************************)
(* The text input processor around the text: its activation, its focus     *)
(* sinks, its candidate window and its input mode, in one application.     *)
(* CandidateUI says when there is a candidate window, CandidateDrawing how *)
(* it gets on screen, CandidateList what happens in it, Compartments how   *)
(* the input mode follows, EngineClient how the conversion engine is       *)
(* reached, which other applications use too, ModuleServer what keeps the  *)
(* module loaded, Enumeration what others may ask of it; here the calls    *)
(* that belong to several of them are put together, as SampleIME.cpp,      *)
(* ThreadMgrEventSink.cpp and CandidateListUIPresenter.cpp make them.      *)
(* Beside them, and touching none of their state, are a reply on the wire  *)
(* (Wire), the keystroke buffer (KanaTyping), the place of the window      *)
(* (WindowPlacement), the module's registration (Registration) and, in the *)
(* engine, the words it knows (Conversion) and its settings                *)
(* (SettingsReload).                                                       *)
(***************************************************************************)
EXTENDS CandidateUI, CandidateList, CandidateDrawing, Compartments, EngineClient,
        ModuleServer, Enumeration, Wire, KanaTyping, WindowPlacement, Registration,
        Conversion, SettingsReload

CONSTANTS
  Hosts,    \* the applications the processor may run in, see HostType
  Self      \* this application, as a client of the engine

VARIABLE host     \* the application, never changed

besideVars == <<arrived, kanaVars, placing, registry, conversionVars, settingsVars>>

vars == <<host, tipVars, uiVars, listVars, draw, modeVars, engineVars, moduleVars, enumVars,
          besideVars>>

\* What goes on beside the rest, in applications where nothing else does.
Aside == {"wire", "kana", "placing", "registry", "dictionary", "recent", "settings"}

Matters == {"failure", "activation", "focus", "thread", "list", "drawing", "modes", "bar",
            "engines", "module", "enumeration"} \union Aside

HostType ==
  [matters : SUBSET Matters,      \* what goes on in and around it
   limit   : Limits,              \* bounds on what EngineClient may do
   answers : SUBSET Answers,      \* how it answers a list that is started
   count   : 0..MaxCount,         \* bound: candidates in a list
   store   : BOOLEAN,             \* a store app: the window has a scroll bar
   added   : SUBSET Bits]         \* buttons its language bar accepts

ASSUME TipAssumption == Hosts \subseteq HostType /\ Self \in Clients

-----------------------------------------------------------------------------
(* A window that has ended takes its list with it; a click that waits for  *)
(* a session then finds nothing to take, or the next list.                 *)
EndList == list' = Empty(host.store, ui'.show) /\ pick' = Stirred

NoMode == UNCHANGED modeVars
NoList == UNCHANGED listVars
NoUI   == UNCHANGED <<tipVars, uiVars>>
NoCall == UNCHANGED engineVars

\* ActivateEx: the engine's last steps set the input mode up, and see to it
\* that a conversion engine runs.
TipActivate ==
  /\ \E n \in 0..Len(Steps), accepted \in BOOLEAN :
       /\ "failure" \in host.matters \/ (n = Len(Steps) /\ accepted)
       /\ Activate(n, accepted)
  /\ IF tip'.engine THEN Setup(host.added) ELSE NoMode
  /\ IF tip'.engine /\ "engines" \in host.matters /\ ~NameExists
     THEN Warmup(Self) /\ NoteGap ELSE NoCall
  /\ NoList

\* Deactivate: the engine's destructor, its callbacks, and the rest.
TipBeginDeactivate ==
  /\ "activation" \in host.matters
  /\ BeginDeactivate /\ BeginTeardown /\ NoList /\ NoCall

TipEndDeactivate ==
  /\ EndDeactivate /\ EndTeardown /\ EndList
  /\ IF client[Self] = NewClient THEN NoCall ELSE CloseClient(Self) /\ NoteGap

TipConvert == (\E e \in host.answers : Convert(e)) /\ EndList /\ NoMode /\ NoCall

TipEnd == (DeleteCandidateList \/ LayoutDestroy) /\ EndList /\ NoMode /\ NoCall

TipShow ==
  /\ "focus" \in host.matters
  /\ \E shown \in BOOLEAN : Show(shown)
  /\ NoList /\ NoMode /\ NoCall

(* OnSetFocus: the language bar hears of it in between.                    *)
TipOnSetFocus ==
  /\ "focus" \in host.matters
  /\ \E d \in Docs \union {NoDoc}, accepted \in BOOLEAN : OnSetFocus(d, accepted)
  /\ IF "threadMgr" \in tip.sinks THEN UpdateLanguageBarOnSetFocus(focus' # NoDoc)
                                  ELSE NoMode
  /\ NoList /\ NoCall

TipThreadFocus ==
  /\ "thread" \in host.matters
  /\ OnSetThreadFocus \/ OnKillThreadFocus
  /\ NoList /\ NoMode /\ NoCall

\* What happens in the window; a candidate taken ends it.
TipList ==
  /\ "list" \in host.matters
  /\ \/ ui.wnd # "none" /\ ListMove /\ list'.count <= host.count /\ NoUI
     \/ /\ ui.wnd # "none" /\ ListPick
        /\ IF list' = Empty(list.store, list.show) THEN End ELSE NoUI
     \/ ui.wnd = "none" /\ FinishClick /\ NoUI
  /\ NoMode /\ NoCall

\* The engine follows what is written to the compartments.
TipMode ==
  /\ CompartmentCallback \/ CleanUp
  /\ NoUI /\ NoList /\ NoCall

TipWrite ==
  /\ "modes" \in host.matters
  /\ \/ \E b \in Bits : OnPreservedKey(b) \/ OnClick(b)
     \/ \E b \in Bits, value \in BOOLEAN : SetMode(b, value)
     \/ \E mode \in SUBSET Bits : SetConversionMode(mode)
  /\ NoUI /\ NoList /\ NoCall

TipBar ==
  /\ "bar" \in host.matters
  /\ \E b \in Bits : FetchIcon(b) \/ AdviseSink(b) \/ UnadviseSink(b)
  /\ NoUI /\ NoList /\ NoCall

\* GetCandidateList and NotifyCommitted call the engine.
TipCall ==
  /\ tip.engine /\ \E kind \in CallKinds : BeginCall(Self, kind)
  /\ NoteGap /\ NoUI /\ NoList /\ NoMode

\* The call goes on, other applications make theirs, engines come and go.
TipEngines ==
  /\ "engines" \in host.matters
  /\ OthersStep({Self}) /\ NoteGap /\ NoUI /\ NoList /\ NoMode

-----------------------------------------------------------------------------
(* _MakeCandidateWindow creates the window, `anew` whether or not there is *)
(* one, ToShow and ToHide show and hide it, and it goes with what it       *)
(* belongs to.                                                             *)
WindowFollows(anew) ==
  IF "drawing" \notin host.matters \/ ui'.wnd # "real" THEN draw' = NoDrawing
  ELSE IF anew \/ ui.wnd # "real"
  THEN \E failing \in Failures, whole \in BOOLEAN :
         draw' = Shown(CreateDrawing(failing, whole), ui'.visible)
  ELSE draw' = IF ui'.visible = ui.visible THEN draw ELSE Shown(draw, ui'.visible)

TipDraw ==
  /\ DrawStep /\ NoUI /\ NoList /\ NoMode /\ NoCall /\ NoModule /\ NoEnum

\* Other threads of the application load and release what the module serves.
TipModule ==
  /\ "module" \in host.matters /\ ModuleStep
  /\ NoUI /\ NoList /\ NoDraw /\ NoMode /\ NoCall /\ NoEnum

\* A search needs the engine.
TipEnum ==
  /\ "enumeration" \in host.matters /\ EnumStep /\ (strings' # strings => tip.engine)
  /\ NoUI /\ NoList /\ NoDraw /\ NoMode /\ NoCall /\ NoModule

TipBeside ==
  /\ \/ /\ "wire" \in host.matters /\ WireStep
        /\ NoKana /\ NoPlacing /\ NoRegistration /\ NoConversion /\ NoSettings
     \/ /\ "kana" \in host.matters /\ KanaNext
        /\ NoWire /\ NoPlacing /\ NoRegistration /\ NoConversion /\ NoSettings
     \/ /\ "placing" \in host.matters /\ PlacingStep
        /\ NoWire /\ NoKana /\ NoRegistration /\ NoConversion /\ NoSettings
     \/ /\ "registry" \in host.matters /\ RegistrationStep
        /\ NoWire /\ NoKana /\ NoPlacing /\ NoConversion /\ NoSettings
     \/ /\ \/ "dictionary" \in host.matters /\ (EngineWords({CHOOSE r \in Converted : TRUE}) \/ OthersWords)
           \/ "recent" \in host.matters /\ EngineWords(Converted)
        /\ NoWire /\ NoKana /\ NoPlacing /\ NoRegistration /\ NoSettings
     \/ /\ "settings" \in host.matters /\ SettingsStep
        /\ NoWire /\ NoKana /\ NoPlacing /\ NoRegistration /\ NoConversion
  /\ NoUI /\ NoList /\ NoDraw /\ NoMode /\ NoCall /\ NoModule /\ NoEnum

-----------------------------------------------------------------------------
Init ==
  /\ host \in Hosts
  /\ UIInit /\ ("focus" \notin host.matters => focus = CHOOSE d \in Docs : TRUE)
  /\ ("thread" \notin host.matters => thread)
  /\ list = Empty(host.store, TRUE) /\ pick = NoPick
  /\ ModeInit
  /\ EngineInit /\ limit = host.limit
  /\ DrawInit /\ ModuleInit /\ EnumInit
  /\ WireInit /\ KanaInit /\ PlacingInit /\ RegistrationInit
  /\ ConversionInit /\ (host.matters \cap {"dictionary", "recent"} = {} => dict.date = NoDate)
  /\ SettingsInit
  /\ ("settings" \notin host.matters => hkcu.values = Defaults /\ hkcu.remembers)
  /\ ("modes" \notin host.matters =>
        conv = {} /\ flags = [b \in Bits |-> FALSE] /\ ~refuses)

(* One thread: while the engine's callbacks run, or its destructor, or a   *)
(* call to a conversion engine, nothing else does.                         *)
Free == calls = <<>> /\ stage # "closing" /\ client[Self].at = "idle"

TipStep ==
  \/ TipMode \/ TipEndDeactivate \/ TipEngines
  \/ /\ Free
     /\ \/ TipActivate \/ TipBeginDeactivate
        \/ TipEnd \/ TipShow
        \/ TipOnSetFocus \/ TipThreadFocus
        \/ TipList
        \/ TipWrite \/ TipBar
        \/ TipCall

Next ==
  /\ \/ /\ \/ /\ \/ TipStep /\ WindowFollows(FALSE)
                 \/ Free /\ TipConvert /\ WindowFollows(TRUE)
              /\ NoModule /\ NoEnum
           \/ Free /\ (TipDraw \/ TipModule \/ TipEnum)
        /\ host.matters \cap Aside = {} /\ UNCHANGED besideVars
     \/ TipBeside
  /\ UNCHANGED <<host, refuses>>

Spec == Init /\ [][Next]_vars

-----------------------------------------------------------------------------
TypeOK ==
  /\ host \in Hosts
  /\ UITypeOK /\ ListTypeOK /\ DrawTypeOK /\ ModeTypeOK /\ EngineTypeOK
  /\ ModuleTypeOK /\ EnumTypeOK
  /\ WireTypeOK /\ KanaTypeOK /\ PlacingTypeOK /\ RegistrationTypeOK
  /\ ConversionTypeOK /\ SettingsTypeOK

(* "We have to hide/unhide candidate list depending on whether they are    *)
(* associated with pDocMgrFocus" (ThreadMgrEventSink.cpp:60): a list the   *)
(* application has not shown itself is over its own document.  It need not *)
(* be: see OnKillThreadFocus.                                              *)
ListFollowsFocus == ui.visible /\ ~ui.byApp => ui.ctx = focus

(* A list is on screen only over its own document and while its thread has *)
(* the focus - but for the two ways in which one focus moves while the     *)
(* other is elsewhere: the thread loses it while another document than the *)
(* list's has it, or the list's document gets it while the thread has none.*)
VisibleWhereFocused ==
  ui.visible /\ ~ui.byApp /\ ~ui.crossed => ui.ctx = focus /\ thread

(* However the focus of documents and threads moves, the list is on screen *)
(* where it belongs, and but for those two ways nowhere else.              *)
ListIsWhereFocused == VisibleWhereFocused /\ NoSecondWindow /\ ListComesBack

(* And what TSF and the text service hold of each other is there, whoever  *)
(* took the focus and whichever step of an activation failed.              *)
ListIsSound == NothingDangles /\ ListIsWhereFocused
=============================================================================
