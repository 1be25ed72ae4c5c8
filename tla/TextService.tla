---------------------------- MODULE TextService -----------------------------
(***************************************************************************)
(* The text service in one document: the keys it takes, the edit sessions  *)
(* that handle them, the composition, the keystroke buffer and the         *)
(* candidate list (KeyHandler.cpp, Composition.cpp, StartComposition.cpp,  *)
(* EndComposition.cpp, CandidateListUIPresenter.cpp and their callers).    *)
(*                                                                         *)
(* ts is what CSampleIME, its engine and its presenter hold, with the text *)
(* of the document.  A handler is an operator from ts to ts, so that one   *)
(* step runs a whole edit session.  A null pointer used in a session sets  *)
(* fault: the SEH guard ends the session there, and what it had done stays.*)
(*                                                                         *)
(* A spelling key is numbered when it is pressed, and a character goes by  *)
(* the key that brought it about: a letter, or the kana that came of it and*)
(* of the letters before it.  A text is kana, then letters that are not    *)
(* kana yet; a candidate goes by the kana it was offered for.  The marks   *)
(* and the characters the application inserts itself are left out.         *)
(* External, of TSF: a session asked for inside a session runs at once;    *)
(* text set at the caret, which stands at the end of the composition, lies *)
(* outside it.                                                             *)
(***************************************************************************)
EXTENDS KeyRouting, Integers, Sequences, FiniteSets

CONSTANTS
  Hosts,          \* the applications the service may run in, see HostType
  PRECEDING_TEXT_MAX,   \* characters read of a composition that is committed as it is
  MaxTyped        \* bound: spelling keys pressed, in any of them

KeyIds  == 1..MaxTyped
Strings == Seq(KeyIds)

AllEvents == {"caret", "terminated", "profileOff", "layoutDestroyed", "click",
              "deactivate", "openClose"}

AllRefusals == {"start", "end", "window"}

\* What a spelling key makes of the letters before it, see BufferAfterKeystroke.
Effects == {"goesOn", "slides", "restarts", "syllable", "glides", "closes", "ends", "stray"}

HostType ==
  [keys    : SUBSET Keys,         \* the classes of keys pressed in it
   events  : SUBSET AllEvents,    \* what else happens
   refuses : SUBSET AllRefusals,  \* what may fail
   n       : SUBSET KeyIds,       \* the spelling keys that are an n
   effects : SUBSET Effects,      \* what the spelling keys do
   spelled : 0..MaxTyped,         \* bound: spelling keys pressed
   waits   : Nat,                 \* bound: edit sessions waiting
   written : Nat]                 \* bound: characters in the document, for another key

ASSUME TextServiceAssumption ==
  MaxTyped \in Nat /\ Hosts \subseteq HostType /\ PRECEDING_TEXT_MAX \in Nat \ {0}

VARIABLES
  host,           \* the application, never changed
  ts,             \* see Service
  queue,          \* edit sessions TSF has accepted and not run
  typed,          \* spelling keys pressed so far
  erased          \* history: characters the user took back, by Backspace or
                  \* Escape, or left mid-syllable by choosing a candidate

vars == <<host, ts, queue, typed, erased>>

Texts   == [kana : Strings, letters : Strings]
NoText  == [kana |-> <<>>, letters |-> <<>>]
Line(t) == t.kana \o t.letters      \* the characters of a text

CandidateText(list) == [kana |-> list, letters |-> <<>>]

Service ==
  [engine : BOOLEAN,      \* _pCompositionProcessorEngine exists
   open   : BOOLEAN,      \* the keyboard-open compartment
   comp   : BOOLEAN,      \* _pComposition exists
   ctx    : BOOLEAN,      \* _pContext is held
   text   : Texts,        \* the text of the composition
   caret  : {"end", "before", "after"},   \* where, relative to it
   buf    : Texts,        \* _keystrokeBuffer
   spent  : SUBSET KeyIds,    \* history: letters a later key has turned into
                              \* its kana, or that turned out to spell nothing
   mode   : {"none", "original"},         \* _candidateMode
   pres   : BOOLEAN,      \* _pCandidateListUIPresenter exists
   wnd    : BOOLEAN,      \* its _pCandidateWnd exists
   list   : Strings,      \* reading of the candidates in it; empty: none
   doc    : Strings,      \* what the document has received
   learned : [text : Texts, reading : Strings],  \* last Commit sent
   fault  : BOOLEAN]

Fault(s)        == [s EXCEPT !.fault = TRUE]
Unless(s, next) == IF s.fault THEN s ELSE next

May(refusal) == IF refusal \in host.refuses THEN BOOLEAN ELSE {TRUE}

Spells(session) == session.fn \in {"input", "finalizeCandidateListAndInput"}

\* The choices the environment makes in a session: whether it grants a
\* composition, ends one, shows a window, has candidates, has one at a number;
\* and what the key spells.
Choices(session) ==
  [start : May("start"), end : May("end"), window : May("window"),
   answered : IF session.fn = "convert" THEN BOOLEAN ELSE {TRUE},
   numbered : IF session.fn = "selectByNumber" THEN BOOLEAN ELSE {TRUE},
   effect   : IF Spells(session) THEN host.effects ELSE {"stray"}]

-----------------------------------------------------------------------------
(* The candidate list and the end of a composition.                        *)

EndCandidateList(s) == [s EXCEPT !.wnd = FALSE, !.list = <<>>]

\* Mutant: the buffer is not purged.
DeleteCandidateListOnly(s) ==
  IF s.pres THEN [EndCandidateList(s) EXCEPT !.mode = "none"] ELSE s

\* Mutant: the mode outlives the list.
DeleteCandidateListInMode(s) ==
  IF ~s.engine THEN Fault(s)
  ELSE IF s.pres THEN EndCandidateList([s EXCEPT !.buf = NoText])
                 ELSE [s EXCEPT !.buf = NoText]

DeleteCandidateList(s) ==
  IF ~s.engine THEN Fault(s)              \* PurgeVirtualKey
  ELSE LET purged == [s EXCEPT !.buf = NoText]
       IN IF s.pres THEN [EndCandidateList(purged) EXCEPT !.mode = "none"]
                    ELSE purged

\* Mutant: a composition TSF will not end is kept.
TerminateCompositionIfEnded(s, e) ==
  IF ~s.comp THEN s
  ELSE IF ~e.end THEN DeleteCandidateList(s)
  ELSE [s EXCEPT !.comp = FALSE, !.ctx = FALSE, !.caret = "end",
                 !.doc = @ \o Line(s.text), !.text = NoText]

(* EndComposition leaves the text to the document.                         *)
TerminateComposition(s, e) ==
  LET told == IF s.comp /\ ~e.end THEN DeleteCandidateList(s) ELSE s
  IN IF ~s.comp THEN s
     ELSE Unless(told,
            [told EXCEPT !.comp = FALSE, !.ctx = FALSE, !.caret = "end",
                         !.doc = @ \o Line(told.text), !.text = NoText])

RemoveDummyCompositionForComposing(s) == [s EXCEPT !.text = NoText]

HandleComplete(s, e) ==
  LET deleted == DeleteCandidateList(s)
  IN Unless(s, Unless(deleted, TerminateComposition(deleted, e)))

HandleCancel(s, e) ==
  Unless(s, HandleComplete(RemoveDummyCompositionForComposing(s), e))

StartComposition(s, e) ==
  IF e.start /\ s.engine       \* the client id is gone with the engine
  THEN [s EXCEPT !.comp = TRUE, !.ctx = TRUE, !.caret = "end"]
  ELSE s

-----------------------------------------------------------------------------
(* Text going into the document, and what is learned from it.              *)

(* From the start of the document to the caret, is there a composition?    *)
FindComposingRange(s) == s.comp /\ s.caret # "before"

(* The text replaces the composition's, or goes in where the caret is; then*)
(* the composition is given the language of the engine's profile.          *)
SetInputString(s, text, existComposing) ==
  LET put == IF existComposing THEN [s EXCEPT !.text = text, !.caret = "end"]
                               ELSE [s EXCEPT !.doc = @ \o Line(text)]
  IN IF s.comp /\ s.engine THEN put ELSE Fault(put)     \* _SetCompositionLanguage

AddComposingAndChar(s, text) == SetInputString(s, text, FindComposingRange(s))

AddCharAndFinalize(s, chars) == [s EXCEPT !.doc = @ \o chars]

-----------------------------------------------------------------------------
(* The keystroke buffer; RomajiKana has what spells what.                  *)

LastOf(letters) == IF letters = <<>> THEN <<>> ELSE <<letters[Len(letters)]>>

\* An n on its own is shown, and read, as if nothing followed it.
LoneN(b) == Len(b.letters) = 1 /\ b.letters[1] \in host.n

BufferDisplay(b) == IF LoneN(b) THEN [kana |-> Line(b), letters |-> <<>>] ELSE b

\* Mutant: the letters are sent as they are.
BufferReadingLetters(b) == Line(b)

\* The letters that are not kana yet are left out.
BufferReading(b) == BufferDisplay(b).kana

(* The letters with the key: more letters (ky), of which the first may turn*)
(* out to spell nothing (xt, then y), or all (kz); a kana (ka), or two     *)
(* (kya, fa); a kana and the key (nk, kk), or a key that spells nothing    *)
(* (nq); or nothing at all (kq).                                           *)
BufferAfterKeystroke(b, id, effect) ==
  LET last == LastOf(b.letters)
  IN CASE effect = "goesOn"   -> [b EXCEPT !.letters = Append(@, id)]
       [] effect = "slides"   -> [b EXCEPT !.letters = Append(last, id)]
       [] effect = "restarts" -> [kana |-> BufferReading(b), letters |-> <<id>>]
       [] effect = "syllable" -> [kana |-> Append(b.kana, id), letters |-> <<>>]
       [] effect = "glides"   -> [kana |-> Append(b.kana \o last, id), letters |-> <<>>]
       [] effect = "closes"   -> [kana |-> b.kana \o last, letters |-> <<id>>]
       [] effect = "ends"     -> [kana |-> b.kana \o last, letters |-> <<>>]
       [] effect = "stray"    -> [kana |-> BufferReading(b), letters |-> <<>>]

CharsOf(q) == {q[i] : i \in DOMAIN q}

AddVirtualKey(s, id, e) ==
  LET after == BufferAfterKeystroke(s.buf, id, e.effect)
  IN [s EXCEPT !.buf = after,
               !.spent = @ \union ((CharsOf(s.buf.letters) \union {id}) \ CharsOf(Line(after)))]

RemoveVirtualKey(s) ==
  LET Front(q) == SubSeq(q, 1, Len(q) - 1)
  IN IF s.buf.letters # <<>> THEN [s EXCEPT !.buf.letters = Front(@)]
                             ELSE [s EXCEPT !.buf.kana = Front(@)]

GetReadingStrings(s) == IF Line(s.buf) = <<>> THEN {} ELSE {BufferDisplay(s.buf)}

\* Nothing is asked for without a reading.
GetCandidateList(s, e) == IF e.answered THEN BufferReading(s.buf) ELSE <<>>

NotifyCommitted(s, text) ==
  IF Line(text) = <<>> \/ BufferReading(s.buf) = <<>> \/ ~s.engine THEN s
  ELSE [s EXCEPT !.learned = [text |-> text, reading |-> BufferReading(s.buf)]]

First(q, n) == IF Len(q) <= n THEN q ELSE SubSeq(q, 1, n)

\* What GetText answers of a composition.
Fetched(text) ==
  LET kana == First(text.kana, PRECEDING_TEXT_MAX)
  IN [kana |-> kana, letters |-> First(text.letters, PRECEDING_TEXT_MAX - Len(kana))]

(* _IsRangeCovered for the selection and the composition.                  *)
Covered(s) == s.caret = "end"

\* Mutant: the list is not cleared.
HandleCompositionInputWorkerOnly(s) ==
  IF GetReadingStrings(s) = {} THEN s ELSE AddComposingAndChar(s, BufferDisplay(s.buf))

(* The reading replaces the text; the list it no longer answers is emptied.*)
HandleCompositionInputWorker(s) ==
  LET shown == IF GetReadingStrings(s) = {} THEN s ELSE AddComposingAndChar(s, BufferDisplay(s.buf))
  IN Unless(shown, IF ~s.pres THEN shown
                   ELSE IF ~s.wnd THEN Fault(shown)     \* _ClearList
                   ELSE [shown EXCEPT !.list = <<>>])

\* Mutant: the unconverted path does not end the composition first.
HandleCompositionFinalizeCancels(s, isCandidateList, e) ==
  IF isCandidateList /\ s.pres /\ s.mode # "none"
  THEN IF ~s.wnd THEN Fault(s)
       ELSE HandleCancel(NotifyCommitted(AddCharAndFinalize(s, s.list), CandidateText(s.list)), e)
  ELSE HandleCancel(s, e)

HandleCompositionFinalize(s, isCandidateList, e) ==
  IF isCandidateList /\ s.pres /\ s.mode # "none"
  THEN IF ~s.wnd THEN Fault(s)            \* _GetSelectedCandidateString
       ELSE HandleCancel(NotifyCommitted(AddCharAndFinalize(s, s.list), CandidateText(s.list)), e)
  ELSE IF s.comp /\ Covered(s)
  THEN HandleCancel(TerminateComposition(NotifyCommitted(s, Fetched(s.text)), e), e)
  ELSE HandleCancel(s, e)

-----------------------------------------------------------------------------
(* The handlers of CKeyStateComposing.                                     *)

HandleCompositionInput(s, id, e) ==
  LET settled == IF s.pres /\ s.mode # "none"
                 THEN HandleCompositionFinalize(s, FALSE, e) ELSE s
      started == IF settled.comp THEN settled ELSE StartComposition(settled, e)
  IN Unless(settled,
       IF ~started.comp THEN Fault(started)             \* _pComposition->GetRange
       ELSE IF ~Covered(started) THEN started
       ELSE IF ~started.engine THEN Fault(started)
       ELSE HandleCompositionInputWorker(AddVirtualKey(started, id, e)))

HandleCompositionConvert(s, e) ==
  LET found == GetCandidateList(s, e)
      asked == [EndCandidateList(s) EXCEPT !.pres = TRUE, !.mode = "original"]
  IN IF ~s.engine THEN Fault(s)
     ELSE IF found = <<>> THEN s
     ELSE IF ~s.comp THEN Fault(asked)                  \* _pComposition->GetRange
     ELSE IF ~e.window THEN asked                       \* _StartCandidateList failed
     ELSE [asked EXCEPT !.wnd = TRUE, !.list = found]

HandleCompositionBackspace(s, e) ==
  IF ~s.comp \/ ~Covered(s) THEN s
  ELSE IF ~s.engine THEN Fault(s)
  ELSE LET left == RemoveVirtualKey(s)
       IN CASE Len(Line(s.buf)) = 0 -> s
            [] Len(Line(s.buf)) = 1 -> HandleCancel(left, e)
            [] OTHER                -> HandleCompositionInputWorker(left)

HandleCompositionArrowKey(s) ==
  IF ~s.comp \/ (s.pres /\ ~s.wnd) THEN Fault(s) ELSE s

HandleCompositionPunctuation(s, e) ==
  LET chosen == s.mode # "none" /\ s.pres
      placed == IF chosen /\ s.list # <<>> THEN AddComposingAndChar(s, CandidateText(s.list))
                                           ELSE s
  IN IF (chosen /\ ~s.wnd) \/ ~s.engine THEN Fault(s)
     ELSE Unless(placed, HandleCancel(AddCharAndFinalize(placed, <<>>), e))

HandleCompositionDoubleSingleByte(s, e) == HandleCancel(AddCharAndFinalize(s, <<>>), e)

-----------------------------------------------------------------------------
(* The handlers of CKeyStateCandidate.                                     *)

\* Mutant: the candidate is put beside the composition, which is kept.
HandleCandidateFinalizeBeside(s, e) ==
  IF s.pres /\ ~s.wnd THEN Fault(s)
  ELSE IF s.pres /\ s.list # <<>>
  THEN HandleComplete(NotifyCommitted(AddCharAndFinalize(s, s.list), CandidateText(s.list)), e)
  ELSE HandleComplete(s, e)

HandleCandidateFinalize(s, e) ==
  LET chosen == CandidateText(s.list)
      placed == AddComposingAndChar(s, chosen)
  IN IF s.pres /\ ~s.wnd THEN Fault(s)       \* _GetSelectedCandidateString
     ELSE IF s.pres /\ s.list # <<>>
     THEN Unless(placed, HandleComplete(NotifyCommitted(placed, chosen), e))
     ELSE HandleComplete(s, e)

HandleCandidateArrowKey(s) == IF s.pres /\ ~s.wnd THEN Fault(s) ELSE s

(* With no phrase to make, the chosen candidate is settled.                *)
HandleCandidateWorker(s, e) ==
  CASE ~s.pres               -> s
    [] s.pres /\ ~s.wnd      -> Fault(s)
    [] s.wnd /\ s.list = <<>> -> s
    [] OTHER -> IF s.comp /\ s.engine THEN HandleCandidateFinalize(s, e) ELSE Fault(s)

HandleCandidateSelectByNumber(s, e) ==
  IF ~s.engine \/ (s.pres /\ ~s.wnd) THEN Fault(s)
  ELSE IF s.pres /\ s.list # <<>> /\ e.numbered THEN HandleCandidateWorker(s, e)
  ELSE s

(* CKeyHandlerEditSession::DoEditSession: the category makes the handler,  *)
(* the function picks its method.  CEndCompositionEditSession's has no key.*)
DoEditSession(s, session, e) ==
  LET fn == session.fn
  IN IF session.class = "endComposition" THEN TerminateComposition(s, e)
     ELSE IF session.cat = "composing"
     THEN CASE fn = "input" -> HandleCompositionInput(s, session.id, e)
            [] fn = "finalizeTextStore" -> HandleCompositionFinalize(s, FALSE, e)
            [] fn = "finalizeCandidateList" -> HandleCompositionFinalize(s, TRUE, e)
            [] fn = "convert" -> HandleCompositionConvert(s, e)
            [] fn = "cancel" -> HandleCancel(s, e)
            [] fn = "backspace" -> HandleCompositionBackspace(s, e)
            [] fn = "punctuation" -> HandleCompositionPunctuation(s, e)
            [] fn = "doubleSingleByte" -> HandleCompositionDoubleSingleByte(s, e)
            [] fn \in MoveFns -> HandleCompositionArrowKey(s)
            [] OTHER -> s
     ELSE IF session.cat = "candidate"
     THEN CASE fn = "finalizeCandidateList" -> HandleCandidateFinalize(s, e)
            [] fn = "finalizeCandidateListAndInput" ->
                 LET chosen == HandleCandidateFinalize(s, e)
                 IN Unless(chosen, HandleCompositionInput(chosen, session.id, e))
            [] fn = "cancel" -> HandleCancel(s, e)
            [] fn = "selectByNumber" -> HandleCandidateSelectByNumber(s, e)
            [] fn \in MoveFns \union {"convert"} -> HandleCandidateArrowKey(s)
            [] OTHER -> s
     ELSE s

-----------------------------------------------------------------------------
(* The sinks.                                                              *)

Enabled(event) == event \in host.events
KeySession(cat, fn, id) == [class |-> "keyHandler", cat |-> cat, fn |-> fn, id |-> id]
EndSession     == [class |-> "endComposition", cat |-> "none", fn |-> "none", id |-> 0]
Request(session) ==
  /\ Len(queue) < host.waits
  /\ queue' = Append(queue, session)

Now == [open |-> ts.open, disabled |-> FALSE, wide |-> FALSE,
        composing |-> ts.comp, mode |-> ts.mode, buffered |-> Line(ts.buf) # <<>>]

(* OnTestKeyDown, and OnKeyDown for a key that is eaten: what the key means*)
(* is settled now, from the state now; the session runs later.             *)
KeyDown(k) ==
  LET decision == IsKeyEaten(k, Now)
      session  == IF decision.eaten THEN DownSession(k, decision)
                                    ELSE TestSession(decision)
  IN /\ ts.engine /\ Len(ts.doc) <= host.written
     /\ IF session = NoSession
        THEN UNCHANGED <<queue, typed>>
        ELSE /\ typed' = typed + (IF Spells(session) THEN 1 ELSE 0)
             /\ typed' <= host.spelled
             /\ Request(KeySession(session.cat, session.fn, typed'))
     /\ UNCHANGED <<ts, erased>>

\* What the user asks to have removed.
TakesBack(session) == session.fn \in {"cancel", "backspace"}

\* What goes from the composition with a session: all of it, or the letters a
\* candidate was not offered for.
Leaves(session) ==
  IF TakesBack(session) THEN CharsOf(Line(ts.text))
  ELSE IF ts.list # <<>> THEN CharsOf(ts.text.letters) ELSE {}

Present(s) == CharsOf(Line(s.text)) \union CharsOf(s.doc)

Ran(s) == ts' = [s EXCEPT !.fault = FALSE]

(* TSF runs the sessions in the order in which they were accepted.         *)
RunSession ==
  /\ queue # <<>>
  /\ queue' = Tail(queue)
  /\ \E e \in Choices(Head(queue)) : Ran(DoEditSession(ts, Head(queue), e))
  /\ erased' = erased \union (Leaves(Head(queue)) \ Present(ts'))
  /\ UNCHANGED typed

(* The user puts the caret elsewhere, or back; OnEndEdit hears of it.      *)
MoveCaret(c) ==
  /\ Enabled("caret")
  /\ ts.comp /\ c # ts.caret
  /\ ts' = [ts EXCEPT !.caret = c]
  /\ IF Covered(ts') THEN UNCHANGED queue ELSE Request(EndSession)
  /\ UNCHANGED <<typed, erased>>

(* The application ends the composition.  The session asked for inside     *)
(* would end it a second time.                                             *)
OnCompositionTerminated ==
  /\ Enabled("terminated")
  /\ ts.comp
  /\ \E e \in Choices(EndSession) :
       LET ended == TerminateComposition(RemoveDummyCompositionForComposing(ts), e)
       IN Ran(IF ~ts.ctx THEN Fault(ts)
              ELSE Unless(ended, DeleteCandidateList(ended)))
  /\ UNCHANGED <<queue, typed, erased>>

(* The user picks another input method; no session is asked for.           *)
OnActivatedOff ==
  /\ Enabled("profileOff")
  /\ ts.engine
  /\ Ran(DeleteCandidateList(ts))
  /\ UNCHANGED <<queue, typed, erased>>

(* _LayoutDestroyNotification                                              *)
LayoutDestroyed ==
  /\ Enabled("layoutDestroyed")
  /\ ts.wnd
  /\ ts' = EndCandidateList(ts)
  /\ UNCHANGED <<queue, typed, erased>>

(* _CandidateChangeNotification: a candidate is clicked.  The session is   *)
(* asked for synchronously, and if that is denied a second time.           *)
Click ==
  LET session == KeySession("candidate", "finalizeCandidateList", 0)
  IN /\ Enabled("click")
     /\ ts.wnd /\ ts.list # <<>> /\ Len(ts.doc) <= host.written
     /\ \/ /\ \E e \in Choices(session) : Ran(DoEditSession(ts, session, e))
           /\ erased' = erased \union (Leaves(session) \ Present(ts'))
           /\ UNCHANGED queue
        \/ Request(session) /\ UNCHANGED <<ts, erased>>
     /\ UNCHANGED typed

(* The open compartment changes under a composition, which stays.          *)
OpenClose ==
  /\ Enabled("openClose")
  /\ ts.engine
  /\ ts' = [ts EXCEPT !.open = ~@]
  /\ UNCHANGED <<queue, typed, erased>>

(* Deactivate.  No key arrives afterwards; a session may.                  *)
Deactivate ==
  LET off == [ts EXCEPT !.engine = FALSE]
  IN /\ Enabled("deactivate")
     /\ ts.engine
     /\ IF ts.ctx THEN Request(EndSession) ELSE UNCHANGED queue
     /\ ts' = IF ts.pres THEN [EndCandidateList(off) EXCEPT !.pres = FALSE, !.mode = "none"]
                         ELSE off
     /\ UNCHANGED <<typed, erased>>

-----------------------------------------------------------------------------
Init ==
  /\ host \in Hosts
  /\ ts = [engine |-> TRUE, open |-> TRUE, comp |-> FALSE, ctx |-> FALSE,
           text |-> NoText, caret |-> "end", buf |-> NoText, spent |-> {}, mode |-> "none",
           pres |-> FALSE, wnd |-> FALSE, list |-> <<>>, doc |-> <<>>,
           learned |-> [text |-> NoText, reading |-> <<>>], fault |-> FALSE]
  /\ queue = <<>>
  /\ typed = 0 /\ erased = {}

UserStep == \/ \E k \in host.keys : KeyDown(k)
            \/ \E c \in {"end", "before", "after"} : MoveCaret(c)
            \/ Click

HostStep == OnCompositionTerminated \/ OnActivatedOff \/ LayoutDestroyed
              \/ OpenClose \/ Deactivate

Next == (RunSession \/ UserStep \/ HostStep) /\ UNCHANGED host

Spec == Init /\ [][Next]_vars

\* Only RunSession does that, and it can whenever a session waits.
SessionLeaves == queue # <<>> /\ queue' = Tail(queue)

\* TSF runs the sessions it has accepted; nothing else must happen.
FairSpec == Spec /\ WF_queue(SessionLeaves)

-----------------------------------------------------------------------------
\* Hosts in which only the user acts on a composition, and nothing is refused.
Calm == host.events \subseteq {"click", "openClose"} /\ host.refuses = {}

\* Hosts that run a session before the next key arrives, and take no marks.
Prompt == /\ host.waits = 1 /\ host.events \subseteq {"openClose"}
          /\ host.refuses \subseteq {"end"} /\ host.keys \cap Marks = {}

(* Every variable keeps its type.                                          *)
TypeOK ==
  /\ host \in Hosts
  /\ ts \in Service
  /\ queue \in Seq([class : {"keyHandler", "endComposition"},
                    cat : {"composing", "candidate", "invoke", "none"},
                    fn : {"none"} \union UNION {Implemented[c] : c \in DOMAIN Implemented},
                    id : 0..MaxTyped])
  /\ typed \in 0..MaxTyped
  /\ erased \subseteq KeyIds

\* Letters that turned out to spell nothing, when nothing else is left of the
\* word: no reading replaces them, and Backspace has nothing to remove.
StrayOnScreen ==
  ts.buf = NoText /\ ts.text.kana = <<>> /\ CharsOf(ts.text.letters) \subseteq ts.spent

(* In a calm host the composition shows between sessions what the buffer   *)
(* holds, so nothing without one, also when keys are understood before     *)
(* earlier sessions have run; but for letters that spell nothing.          *)
BufferIsOnScreen == Calm => ts.text = BufferDisplay(ts.buf) \/ StrayOnScreen

(* A visible candidate list answers the reading in the composition, in     *)
(* every order in which keys were understood and sessions run.             *)
ListAnswersReading == Calm /\ ts.list # <<>> => ts.wnd /\ ts.list = ts.text.kana

(* Wherever keys, sessions and the application have brought the service,   *)
(* with half-width and full-width characters and with the keyboard         *)
(* disabled or not: every key it takes it handles, it leaves the others to *)
(* the application key-down and key-up alike, and kana can be typed on.    *)
RoutingIsSound ==
  \A disabled, wide \in BOOLEAN :
    [Now EXCEPT !.disabled = disabled, !.wide = wide] \in SoundSituations

(* The buffer, the composition and the list are about the same reading.    *)
ScreenIsTrue == BufferIsOnScreen /\ ListAnswersReading

(* What the engine is told was chosen for a reading was chosen, or left as *)
(* it was, for that reading, whatever host and refusals do: the reading is *)
(* the kana of the text, which may have letters after them; or the text is *)
(* as long as GetText was asked for, and its kana begin the reading.       *)
LearnedIsRead ==
  LET text == ts.learned.text
      read == ts.learned.reading
  IN \/ text.kana = read
     \/ /\ Len(Line(text)) = PRECEDING_TEXT_MAX /\ Len(text.kana) <= Len(read)
        /\ text.kana = SubSeq(read, 1, Len(text.kana))

(* In a prompt host a key that spells is not lost: it waits in a session,  *)
(* or is in the composition or in the document, by itself or in a kana,    *)
(* unless the user took it back or it was a letter that spells nothing, or *)
(* one that was not kana yet when a candidate was chosen.                  *)
KeysSurvive ==
  Prompt => 1..typed \subseteq
    Present(ts) \union ts.spent \union erased
      \union {queue[i].id : i \in {j \in DOMAIN queue : Spells(queue[j])}}

(* "A null dereference inside Notepad is what decision 0017 exists to      *)
(* prevent" (CandidateListUIPresenter.cpp:229): while a list is chosen     *)
(* from in a prompt host, its window exists.                               *)
ChoosingHasWindow == Prompt /\ ts.mode = "original" => ts.pres /\ ts.wnd

(* "If the selection is moved to out side of the current composition, we   *)
(* terminate the composition" (TextEditSink.cpp:37): where the service is  *)
(* not deactivated, also when EndComposition is refused, and with other    *)
(* sessions waiting.                                                       *)
OutsideEnds ==
  (ts.comp /\ ts.caret # "end" /\ "deactivate" \notin host.events)
     ~> (~ts.comp \/ ts.caret = "end")

(* In a calm host, however keys and sessions interleave, the person sees a *)
(* Preedit: what is spelled enters the document whole, in order and once,  *)
(* and candidates are offered for the kana in the composition.             *)
Abstract == INSTANCE Preedit WITH
  preedit  <- IF Calm THEN ts.text ELSE NoText,
  choosing <- Calm /\ ts.list # <<>>,
  settled  <- IF Calm THEN ts.doc ELSE <<>>

PreeditSpec == Abstract!Spec
=============================================================================
