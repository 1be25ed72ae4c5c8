----------------------------- MODULE Tip_proofs ------------------------------
(***************************************************************************)
(* Theorems about Tip: in every application, whatever else goes on in it,  *)
(* the conversion engine is called as EngineClient says, the module stays  *)
(* loaded as long as a thread uses it, an engine's settings settle and its *)
(* words are current, and what holds of the input modes, of the candidate  *)
(* window, of registration and of the enumerators by themselves holds of   *)
(* them here, and so does what holds of the answers that arrive and of the *)
(* keystroke buffer.  A step of Tip is a step of each of its parts, or     *)
(* none of it (EnginePart ... KanaIsPart).                                 *)
(***************************************************************************)
EXTENDS Tip, Shared_proofs, Candidates_proofs, Wire_proofs

-----------------------------------------------------------------------------
(* The parts of Tip: a step of it is a step of the part, or none.          *)

LEMMA EnginePart == ASSUME Next PROVE [EngineNext]_engineVars
<1>1. CASE NoCall
  BY <1>1 DEF NoCall
<1>2. ASSUME NEW c \in Clients, NoteGap,
             Warmup(c) \/ CloseClient(c) \/ \E kind \in CallKinds : BeginCall(c, kind)
      PROVE  EngineNext
  BY <1>2 DEF EngineNext, OthersStep
<1>3. Self \in Clients
  BY TipAssumption
<1>4. CASE TipActivate
  BY <1>1, <1>2, <1>3, <1>4 DEF TipActivate
<1>5. CASE TipEndDeactivate
  BY <1>1, <1>2, <1>3, <1>5 DEF TipEndDeactivate
<1>6. CASE TipCall
  BY <1>2, <1>3, <1>6 DEF TipCall
<1>7. CASE TipEngines
  BY <1>7 DEF TipEngines, EngineNext, OthersStep
<1>8. CASE \/ TipMode \/ TipBeginDeactivate \/ TipEnd \/ TipShow \/ TipOnSetFocus
           \/ TipThreadFocus \/ TipList \/ TipWrite \/ TipBar \/ TipConvert
           \/ TipDraw \/ TipModule \/ TipEnum \/ TipBeside
  BY <1>1, <1>8 DEF TipMode, TipBeginDeactivate, TipEnd, TipShow, TipOnSetFocus,
     TipThreadFocus, TipList, TipWrite, TipBar, TipConvert, TipDraw, TipModule, TipEnum, TipBeside
<1> QED BY <1>4, <1>5, <1>6, <1>7, <1>8 DEF Next, TipStep

LEMMA ModulePart == ASSUME Next PROVE ModuleStep \/ NoModule
BY DEF Next, TipDraw, TipModule, TipEnum, TipBeside

(* However the processor is activated, deactivated and used, the engines   *)
(* and their clients behave as if there were nothing else.                 *)
THEOREM EngineIsPart == Spec => EngineSpec
<1>1. Init => EngineInit
  BY DEF Init
<1>2. [Next]_vars => [EngineNext]_engineVars
  BY EnginePart DEF vars, engineVars
<1> QED BY <1>1, <1>2, PTL DEF Spec, EngineSpec

(* The threads that load and release the module behave as if the text      *)
(* service did nothing else.                                               *)
THEOREM ModuleIsPart == Spec => ModuleSpec
<1>1. Init => ModuleInit
  BY DEF Init
<1>2. [Next]_vars => [ModuleStep]_moduleVars
  BY ModulePart DEF vars, moduleVars, NoModule
<1> QED BY <1>1, <1>2, PTL DEF Spec, ModuleSpec

(* A call of the text service to the conversion engine gets its own answer *)
(* or fails, once, and a connection that broke costs one call.             *)
THEOREM TipCallsAreAnswered == Spec => []CallsAreAnswered
BY EngineIsPart, CallsAreAnsweredHolds, PTL

(* To the applications, everything that happens around an engine is one    *)
(* call at a time that is done at most once.                               *)
THEOREM TipRequestReply == Spec => RequestReplySpec
BY EngineIsPart, ImplementsRequestReply, PTL

(* One engine serves all applications.                                     *)
THEOREM TipHasOneServer == Spec => []OneServer
BY EngineIsPart, OneServerHolds, PTL

(* The module and its class factory stay as long as a thread of the        *)
(* application uses them, whatever the text service does meanwhile.        *)
THEOREM TipModuleIsHeld == Spec => []ModuleIsHeld
BY ModuleIsPart, ModuleIsHeldHolds, PTL

-----------------------------------------------------------------------------
(* The settings (SettingsReload): why they settle.                         *)

(* What was read is what is in the registry, unless a change has come      *)
(* since that is remembered or lost.                                       *)
ReadIsTrue ==
  watcher.at \in {"load", "read"} /\ ~unseen /\ ~watcher.pending =>
    \A n \in SettingNames \ watcher.left : watcher.got[n] = hkcu.values[n]

(* So is what was handed over, when the thread registers, and then as long *)
(* as the registration is not signalled.                                   *)
AppliedIsTrue ==
  /\ watcher.at = "arm" /\ ~unseen /\ ~watcher.pending => watcher.applied = hkcu.values
  /\ watcher.at = "wait" /\ ~unseen /\ ~watcher.event =>
       watcher.armed /\ watcher.applied = hkcu.values

(* The main actor has it, or gets it last.                                 *)
QueueEndsApplied ==
  /\ watcher.at \in {"down", "load"} => queue = <<>>
  /\ watcher.at \in {"arm", "wait", "read"} =>
       IF queue = <<>> THEN inForce = watcher.applied ELSE queue[Len(queue)] = watcher.applied

SettingsInv ==
  /\ SettingsTypeOK /\ ReadIsTrue /\ AppliedIsTrue /\ QueueEndsApplied
  /\ watcher.at \notin {"load", "read"} => watcher.left = {}
  /\ watcher.armed => watcher.at = "wait" /\ ~watcher.event

LEMMA DownIsTyped == Defaults \in SettingValues /\ NoWatcher \in WatcherType
<1>1. Defaults \in SettingValues
  BY DEF Defaults, SettingValues
<1> QED BY <1>1 DEF NoWatcher, WatcherType

LEMMA SettingsBegin == ASSUME SettingsInit PROVE SettingsInv
<1>1. Len(Settings) \in Nat /\ MaxSaves \in Nat
  BY SettingsAssumption
<1>2. hkcu \in KeyType
  BY <1>1 DEF SettingsInit, KeyType
<1>3. SettingsTypeOK
  <2>1. queue \in Seq(SettingValues)
    BY DEF SettingsInit
  <2>2. watcher \in WatcherType /\ inForce \in SettingValues /\ unseen \in BOOLEAN
    BY DownIsTyped DEF SettingsInit
  <2> QED BY <1>2, <2>1, <2>2 DEF SettingsTypeOK
<1>4. watcher.at = "down" /\ watcher.left = {} /\ ~watcher.armed
  BY DEF SettingsInit, NoWatcher
<1> QED BY <1>3, <1>4 DEF SettingsInit, SettingsInv, ReadIsTrue, AppliedIsTrue, QueueEndsApplied

LEMMA SetValueKeeps == ASSUME SettingsInv, SetValue PROVE SettingsInv'
<1> DEFINE n == Settings[Len(Settings) + 1 - hkcu.left]
<1> USE DEF SettingsInv, SettingsTypeOK
<1>1. n \in SettingNames
  BY SettingsAssumption DEF SetValue, SettingNames, KeyType
<1>2. /\ hkcu' = [hkcu EXCEPT !.values[n] = hkcu.saving[n], !.left = @ - 1]
      /\ watcher' = Notified /\ UNCHANGED <<queue, inForce>>
      /\ unseen' = \/ unseen
                   \/ /\ watcher.at \in {"load", "arm", "read"} /\ n \notin watcher.left
                      /\ ~(watcher.watched /\ hkcu.remembers)
  BY DEF SetValue
<1> HIDE DEF n
<1>3. hkcu' \in KeyType
  <2> DEFINE written == [hkcu.values EXCEPT ![n] = hkcu.saving[n]]
  <2>1. written \in SettingValues
    BY <1>1 DEF KeyType, SettingValues
  <2>2. hkcu' = [hkcu EXCEPT !.values = written, !.left = @ - 1]
    BY <1>2
  <2>3. hkcu.left - 1 \in 0..Len(Settings)
    BY SettingsAssumption DEF SetValue, KeyType
  <2> HIDE DEF written
  <2> QED BY <2>1, <2>2, <2>3 DEF KeyType
<1>4. \A o \in SettingNames : o # n => hkcu'.values[o] = hkcu.values[o]
  BY <1>1, <1>2 DEF KeyType, SettingValues
<1>5. /\ watcher' \in WatcherType /\ watcher'.at = watcher.at /\ watcher'.left = watcher.left
      /\ watcher'.got = watcher.got /\ watcher'.applied = watcher.applied
      /\ watcher.armed => watcher'.event /\ ~watcher'.armed
      /\ ~watcher.armed =>
           /\ watcher'.event = watcher.event /\ ~watcher'.armed
           /\ watcher'.pending = (watcher.pending \/ (watcher.watched /\ hkcu.remembers))
  BY <1>2 DEF Notified, WatcherType, KeyType
<1>6. SettingsTypeOK'
  BY <1>2, <1>3, <1>5
<1>7. ReadIsTrue'
  BY <1>1, <1>2, <1>4, <1>5 DEF ReadIsTrue
<1>8. AppliedIsTrue'
  BY <1>2, <1>5 DEF AppliedIsTrue
<1>9. QueueEndsApplied'
  BY <1>2, <1>5 DEF QueueEndsApplied
<1> QED BY <1>5, <1>6, <1>7, <1>8, <1>9

LEMMA HandOverKeeps == ASSUME SettingsInv, HandOver PROVE SettingsInv'
<1> USE DEF SettingsInv, SettingsTypeOK
<1>1. /\ watcher' \in WatcherType /\ watcher'.at = "arm" /\ watcher'.left = {}
      /\ watcher'.applied = watcher.got /\ watcher'.pending = watcher.pending
      /\ ~watcher'.armed
  BY DEF HandOver, WatcherType
<1>2. watcher.got \in SettingValues /\ watcher.applied \in SettingValues /\ hkcu.values \in SettingValues
  BY DEF WatcherType, KeyType
<1>3. queue' \in Seq(SettingValues)
  BY <1>2 DEF HandOver
<1>4. SettingsTypeOK'
  BY <1>1, <1>3 DEF HandOver
<1>5. ASSUME ~unseen, ~watcher.pending PROVE watcher.got = hkcu.values
  <2>1. \A n \in SettingNames : watcher.got[n] = hkcu.values[n]
    BY <1>5 DEF HandOver, ReadIsTrue
  <2> QED BY <1>2, <2>1 DEF SettingValues
<1>6. AppliedIsTrue'
  BY <1>1, <1>5 DEF AppliedIsTrue, HandOver
<1>7. QueueEndsApplied'
  <2>1. CASE watcher.got # watcher.applied
    <3>1. queue' = Append(queue, watcher.got)
      BY <2>1 DEF HandOver
    <3>2. queue' # <<>> /\ queue'[Len(queue')] = watcher.got
      BY <3>1, <1>2
    <3> QED BY <1>1, <3>2 DEF QueueEndsApplied
  <2>2. CASE watcher.got = watcher.applied
    BY <1>1, <2>2 DEF QueueEndsApplied, HandOver
  <2> QED BY <2>1, <2>2
<1> QED BY <1>1, <1>4, <1>6, <1>7 DEF ReadIsTrue

LEMMA UpdateKeeps == ASSUME SettingsInv, UpdateSettings PROVE SettingsInv'
<1> USE DEF SettingsInv, SettingsTypeOK
<1>1. queue \in Seq(SettingValues) /\ queue # <<>>
  BY DEF UpdateSettings
<1>2. queue' \in Seq(SettingValues) /\ inForce' \in SettingValues
  BY <1>1 DEF UpdateSettings
<1>3. IF queue' = <<>> THEN inForce' = queue[Len(queue)] ELSE queue'[Len(queue')] = queue[Len(queue)]
  <2>1. /\ Len(queue) \in Nat \ {0} /\ Len(queue') = Len(queue) - 1
        /\ \A i \in 1..Len(queue') : queue'[i] = queue[i + 1]
        /\ inForce' = queue[1]
    BY <1>1 DEF UpdateSettings
  <2>2. CASE queue' = <<>>
    <3>1. Len(queue) = 1
      BY <2>1, <2>2
    <3> QED BY <2>1, <2>2, <3>1
  <2>3. CASE queue' # <<>>
    <3>1. Len(queue') # 0
      BY <1>2, <2>3
    <3>2. Len(queue') \in 1..Len(queue') /\ Len(queue') + 1 = Len(queue)
      BY <2>1, <3>1
    <3> QED BY <2>1, <2>3, <3>2
  <2> QED BY <2>2, <2>3
<1>4. QueueEndsApplied'
  BY <1>1, <1>3 DEF QueueEndsApplied, UpdateSettings
<1> QED BY <1>2, <1>4 DEF UpdateSettings, ReadIsTrue, AppliedIsTrue

LEMMA WatcherKeeps ==
  ASSUME SettingsInv,
         \/ StartWatching \/ Arm \/ StopWatching \/ Wake \/ Launch \/ EndEngine
         \/ \E n \in SettingNames : ReadSetting(n)
  PROVE  SettingsInv'
<1> USE DEF SettingsInv, SettingsTypeOK, WatcherType
<1>1. CASE StartWatching
  <2>1. watcher.got \in SettingValues /\ hkcu.values \in SettingValues
    BY DEF KeyType
  <2>2. ASSUME ~unseen, ~watcher.pending PROVE watcher.got = hkcu.values
    <3>1. \A n \in SettingNames : watcher.got[n] = hkcu.values[n]
      BY <1>1, <2>2 DEF StartWatching, ReadIsTrue
    <3> QED BY <2>1, <3>1 DEF SettingValues
  <2> QED BY <1>1, <2>1, <2>2 DEF StartWatching, ReadIsTrue, AppliedIsTrue, QueueEndsApplied
<1>2. CASE Arm
  BY <1>2 DEF Arm, ReadIsTrue, AppliedIsTrue, QueueEndsApplied
<1>3. CASE StopWatching
  BY <1>3 DEF StopWatching, ReadIsTrue, AppliedIsTrue, QueueEndsApplied
<1>4. CASE Wake
  BY <1>4 DEF Wake, ReadIsTrue, AppliedIsTrue, QueueEndsApplied
<1>5. CASE EndEngine
  <2>1. watcher'.at = "down" /\ watcher'.left = {} /\ ~watcher'.armed
    BY <1>5 DEF EndEngine, NoWatcher
  <2>2. watcher' \in WatcherType /\ inForce' \in SettingValues /\ unseen' \in BOOLEAN
    <3> HIDE DEF WatcherType
    <3> QED BY <1>5, DownIsTyped DEF EndEngine
  <2>3. queue' \in Seq(SettingValues) /\ hkcu' \in KeyType
    BY <1>5 DEF EndEngine
  <2> QED BY <1>5, <2>1, <2>2, <2>3 DEF EndEngine, ReadIsTrue, AppliedIsTrue, QueueEndsApplied
<1>6. CASE Launch
  <2>1. watcher'.at = "load" /\ watcher'.left = SettingNames /\ ~watcher'.armed
    BY <1>6 DEF Launch, NoWatcher
  <2>2. watcher' \in WatcherType
    BY <1>6, DownIsTyped DEF Launch
  <2> QED BY <1>6, <2>1, <2>2 DEF Launch, ReadIsTrue, AppliedIsTrue, QueueEndsApplied
<1>7. CASE \E n \in SettingNames : ReadSetting(n)
  <2>1. PICK n \in SettingNames : ReadSetting(n)
    BY <1>7
  <2>2. hkcu.values[n] \in BOOLEAN /\ watcher.got \in SettingValues
    BY DEF KeyType, SettingValues
  <2> DEFINE got == [watcher.got EXCEPT ![n] = hkcu.values[n]]
  <2>3. /\ watcher' = [watcher EXCEPT !.got = got, !.left = @ \ {n}]
        /\ got \in SettingValues
    BY <2>1, <2>2 DEF ReadSetting, SettingValues
  <2>4. \A o \in SettingNames : watcher'.got[o] = IF o = n THEN hkcu.values[n] ELSE watcher.got[o]
    BY <2>2, <2>3 DEF SettingValues
  <2> HIDE DEF got
  <2>5. SettingsTypeOK'
    BY ZenonT(40), <2>1, <2>3 DEF ReadSetting
  <2>6. ReadIsTrue'
    BY ZenonT(40), <2>1, <2>3, <2>4 DEF ReadSetting, ReadIsTrue
  <2> QED BY <2>1, <2>3, <2>5, <2>6 DEF ReadSetting, AppliedIsTrue, QueueEndsApplied
<1> QED BY <1>1, <1>2, <1>3, <1>4, <1>5, <1>6, <1>7

LEMMA SaveKeeps ==
  ASSUME SettingsInv, NEW n \in SettingNames, NEW value \in BOOLEAN, Save(n, value)
  PROVE  SettingsInv'
<1> DEFINE saving == [hkcu.values EXCEPT ![n] = value]
<1>1. hkcu' \in KeyType /\ hkcu'.values = hkcu.values
  <2>1. saving \in SettingValues
    BY DEF SettingsInv, SettingsTypeOK, KeyType, SettingValues
  <2>2. hkcu' = [hkcu EXCEPT !.saving = saving, !.left = Len(Settings), !.saves = @ + 1]
    BY DEF Save
  <2>3. Len(Settings) \in 0..Len(Settings) /\ hkcu.saves + 1 \in 0..MaxSaves
    BY SettingsAssumption DEF Save, SettingsInv, SettingsTypeOK, KeyType
  <2> HIDE DEF saving
  <2> QED BY <2>1, <2>2, <2>3 DEF SettingsInv, SettingsTypeOK, KeyType
<1> QED BY <1>1 DEF SettingsInv, SettingsTypeOK, Save, ReadIsTrue, AppliedIsTrue, QueueEndsApplied

LEMMA SettingsKeep == ASSUME SettingsInv, [SettingsStep]_settingsVars PROVE SettingsInv'
<1>1. CASE UNCHANGED settingsVars
  BY <1>1 DEF settingsVars, SettingsInv, SettingsTypeOK, ReadIsTrue, AppliedIsTrue, QueueEndsApplied
<1>2. CASE SettingsStep
  BY <1>2, SetValueKeeps, HandOverKeeps, UpdateKeeps, WatcherKeeps, SaveKeeps DEF SettingsStep
<1> QED BY <1>1, <1>2

(* Whatever a settings app writes and an engine's thread reads and hears,  *)
(* for any number of settings, saves and engines one after the other, the  *)
(* settings in force become those of the registry.                         *)
THEOREM SettingsSettleHolds == SettingsSpec => []SettingsSettle
<1>1. SettingsInv => SettingsSettle
  BY DEF SettingsInv, SettingsSettle, AppliedIsTrue, QueueEndsApplied
<1>2. SettingsInv /\ [SettingsStep]_settingsVars => SettingsInv'
  BY SettingsKeep
<1>3. SettingsInit => SettingsInv
  BY SettingsBegin
<1> QED BY <1>1, <1>2, <1>3, PTL DEF SettingsSpec

LEMMA SettingsPart == ASSUME Next PROVE SettingsStep \/ UNCHANGED settingsVars
BY DEF Next, TipBeside, besideVars, NoSettings

(* The composition leaves the settings to their own steps, so they settle  *)
(* in it too.                                                              *)
THEOREM TipSettingsSettle == Spec => []SettingsSettle
<1>1. Init => SettingsInit
  BY DEF Init
<1>2. [Next]_vars => [SettingsStep]_settingsVars
  BY SettingsPart DEF vars, besideVars
<1>3. Spec => SettingsSpec
  BY <1>1, <1>2, PTL DEF Spec, SettingsSpec
<1> QED BY <1>3, SettingsSettleHolds, PTL

LEMMA ConversionPart ==
  ASSUME Next PROVE EngineWords(Converted) \/ OthersWords \/ UNCHANGED conversionVars
<1>1. (CHOOSE r \in Converted : TRUE) \in Converted
  BY ConversionAssumption
<1>2. ASSUME NEW r \in Converted, EngineWords({r}) PROVE EngineWords(Converted)
  BY <1>2 DEF EngineWords
<1> QED BY <1>1, <1>2 DEF Next, TipBeside, besideVars, NoConversion

(* The composition leaves the words and the cache to their own steps.      *)
THEOREM TipConversionIsCurrent == Spec => []ConversionIsCurrent
<1>1. Init => ConversionInit
  BY DEF Init
<1>2. [Next]_vars => [EngineWords(Converted) \/ OthersWords]_conversionVars
  BY ConversionPart DEF vars, besideVars
<1>3. Spec => ConversionSpec
  BY <1>1, <1>2, PTL DEF Spec, ConversionSpec
<1> QED BY <1>3, ConversionIsCurrentHolds, PTL

-----------------------------------------------------------------------------
(* The input mode.                                                         *)

\* The application never changes.
LEMMA HostStays == Spec => [](host \in Hosts)
<1>1. Init => host \in Hosts
  BY DEF Init
<1>2. host \in Hosts /\ [Next]_vars => (host \in Hosts)'
  BY DEF Next, vars
<1> QED BY <1>1, <1>2, PTL DEF Spec

LEMMA ModePart == ASSUME host \in Hosts, Next PROVE [ModeNext]_modeVars
<1>1. UNCHANGED refuses
  BY DEF Next
<1>2. host.added \in SUBSET Bits
  BY TipAssumption DEF HostType
<1>3. CASE NoMode
  BY <1>3 DEF NoMode
<1>4. CASE TipActivate
  BY <1>1, <1>2, <1>4 DEF TipActivate, NoMode, ModeNext, ModeStep
<1>5. CASE TipMode \/ TipWrite \/ TipBar
  BY <1>1, <1>5 DEF TipMode, TipWrite, TipBar, ModeNext, ModeStep, BarNext
<1>6. CASE TipBeginDeactivate \/ TipEndDeactivate
  BY <1>1, <1>6 DEF TipBeginDeactivate, TipEndDeactivate, ModeNext, ModeStep
<1>7. CASE TipOnSetFocus
  <2>1. (focus' # NoDoc) \in BOOLEAN
    OBVIOUS
  <2> QED BY <1>1, <1>7, <2>1 DEF TipOnSetFocus, NoMode, ModeNext, ModeStep, BarNext
<1>8. CASE TipEngines \/ TipEnd \/ TipShow \/ TipThreadFocus \/ TipList \/ TipCall \/ TipConvert
           \/ TipDraw \/ TipModule \/ TipEnum \/ TipBeside
  BY <1>3, <1>8 DEF TipEngines, TipEnd, TipShow, TipThreadFocus, TipList, TipCall, TipConvert,
     TipDraw, TipModule, TipEnum, TipBeside
<1> QED BY <1>4, <1>5, <1>6, <1>7, <1>8 DEF Next, TipStep

(* However the processor is activated, deactivated and moved from document *)
(* to document, the input mode takes the steps Compartments allows it.     *)
THEOREM ModeIsPart == Spec => ModeSpec
<1>1. Init => ModeInit
  BY DEF Init
<1>2. host \in Hosts /\ [Next]_vars => [ModeNext]_modeVars
  BY ModePart DEF vars, modeVars
<1> QED BY <1>1, <1>2, HostStays, PTL DEF Spec, ModeSpec

(* In every application the callbacks of the input mode end, and then the  *)
(* compartments and the icons agree.                                       *)
THEOREM TipModesSettle == Spec => []ModesSettle
BY ModeIsPart, ModesSettleHolds, PTL

(* And what was asked for last has stayed.                                 *)
THEOREM TipLastWishStays == Spec => LastWishStays
BY ModeIsPart, LastWishStaysHolds, PTL

-----------------------------------------------------------------------------
(* The candidate list.                                                     *)

(* The candidate list takes the steps CandidateUI allows it, and ends when *)
(* a candidate is taken.                                                   *)
LEMMA UIPart == ASSUME host \in Hosts, Next PROVE [UIStep]_<<tipVars, uiVars>>
<1>1. host.answers \subseteq Answers
  BY TipAssumption DEF HostType
<1>2. CASE NoUI
  BY <1>2 DEF NoUI
<1>3. CASE TipActivate \/ TipBeginDeactivate \/ TipEndDeactivate
  BY <1>3 DEF TipActivate, TipBeginDeactivate, TipEndDeactivate, UIStep, UINext
<1>4. CASE TipConvert
  BY <1>1, <1>4 DEF TipConvert, UIStep, UINext
<1>5. CASE TipEnd \/ TipShow \/ TipOnSetFocus \/ TipThreadFocus
  BY <1>5 DEF TipEnd, TipShow, TipOnSetFocus, TipThreadFocus, UIStep, UINext
<1>6. CASE TipList
  BY <1>2, <1>6 DEF TipList, UIStep
<1>7. CASE TipMode \/ TipEngines \/ TipWrite \/ TipBar \/ TipCall \/ TipDraw \/ TipModule
           \/ TipEnum \/ TipBeside
  BY <1>2, <1>7 DEF TipMode, TipEngines, TipWrite, TipBar, TipCall, TipDraw, TipModule,
     TipEnum, TipBeside
<1> QED BY <1>3, <1>4, <1>5, <1>6, <1>7 DEF Next, TipStep

\* A list nobody but the service has shown is over its own document, which has
\* the focus, and what the thread will find when it comes back is that document.
InPlace ==
  /\ ui.visible /\ ~ui.byApp /\ ~ui.crossed => ui.ctx = focus /\ thread
  /\ ~thread /\ ~ui.crossed /\ ui.ctx # NoDoc /\ ui.ctx = tip.last => ui.ctx = focus

\* A step after which nothing is on screen, and no document's, or which shows
\* nothing and leaves the two focuses.
LEMMA InPlaceAfter ==
  ASSUME InPlace,
         \/ ~ ui'.visible /\ ui'.ctx = NoDoc
         \/ UNCHANGED <<ui, focus, thread>> /\ (tip'.last = tip.last \/ ui.ctx = NoDoc)
  PROVE  InPlace'
BY DEF InPlace

LEMMA ConvertInPlace ==
  ASSUME UIInv, NEW e \in Answers, Convert(e) PROVE InPlace'
<1>1. thread /\ UNCHANGED <<focus, thread>> /\ focus \in Docs
  BY DEF Convert, UIInv, UITyped, Pointers
<1>2. ui' = StartCandidateList(NewPresenter, focus, e)
  BY DEF Convert, NewPresenter
<1>3. ui'.visible => ui'.ctx = focus
  BY <1>1, <1>2, PresenterStarted
<1> QED BY <1>1, <1>3 DEF InPlace

LEMMA ShowInPlace ==
  ASSUME UIInv, InPlace, NEW shown \in BOOLEAN, Show(shown) PROVE InPlace'
<1> DEFINE v == IF shown THEN ToShow(ui) ELSE ToHide(ui)
<1>1. v \in CCandidateListUIPresenter /\ v.ctx = ui.ctx
  BY ShownIs, HiddenIs DEF UIInv, UITyped, SameList
<1>2. v.crossed <=> ui.crossed
  BY DEF UIInv, UITyped, CCandidateListUIPresenter, ToShow, ToHide
<1>3. ui' = [v EXCEPT !.byApp = TRUE] /\ UNCHANGED <<tip, focus, thread>>
  BY DEF Show
<1> HIDE DEF v
<1>4. ui'.byApp /\ ui'.ctx = v.ctx /\ (ui'.crossed <=> v.crossed)
  BY <1>1, <1>3 DEF CCandidateListUIPresenter
<1> QED BY <1>1, <1>2, <1>3, <1>4 DEF InPlace

LEMMA FocusInPlace ==
  ASSUME UIInv, InPlace, NEW d \in Docs \union {NoDoc}, NEW accepted \in BOOLEAN,
         OnSetFocus(d, accepted)
  PROVE  InPlace'
<1>1. CASE tip.sinks = Sinks
  <2>1. tip'.last = d /\ ui' = FocusMoved(d) /\ thread' = thread /\ focus' = d
    BY <1>1, FocusIsOwned
  <2>2. /\ SameList(ui, ui') /\ ui'.byApp = ui.byApp /\ (ui'.visible => ui.wnd = "real")
        /\ ui.ctx # NoDoc /\ ui.show => (ui'.visible <=> ui.ctx = d /\ ui.wnd = "real")
        /\ ~ ui.show => ui'.visible = ui.visible
        /\ ui.ctx # NoDoc => (ui'.crossed <=> ui.ctx = d /\ ~thread)
    BY <2>1, FocusMovedIs
  <2>3. ui.wnd = "real" => ui.ctx # NoDoc
    BY DEF UIInv, Windowed
  <2>4. ~ ui.show /\ ui.visible => ui.byApp
    BY DEF UIInv, NoSecondWindow
  <2>5. ui'.ctx = ui.ctx /\ thread \in BOOLEAN
    BY <2>2 DEF SameList, UIInv, UITyped
  <2>6. ui'.visible /\ ~ui'.byApp /\ ~ui'.crossed => ui'.ctx = focus' /\ thread'
    BY <2>1, <2>2, <2>3, <2>4, <2>5
  <2>7. ~thread' /\ ~ui'.crossed /\ ui'.ctx # NoDoc /\ ui'.ctx = tip'.last => ui'.ctx = focus'
    BY <2>1, <2>5
  <2> QED BY <2>6, <2>7 DEF InPlace
<1>2. CASE tip.sinks = {}
  <2>1. ui = NoPresenter /\ ui' = ui
    BY <1>2 DEF UIInv, Activated, Sinks, OnSetFocus
  <2> QED BY <2>1, InPlaceAfter, NoPresenterIs
<1> QED BY <1>1, <1>2 DEF UIInv, Activated

LEMMA ThreadFocusInPlace ==
  ASSUME UIInv, InPlace, OnSetThreadFocus \/ OnKillThreadFocus PROVE InPlace'
<1>1. ui.exists \/ ui = NoPresenter
  BY DEF UIInv, Activated
<1>2. ~ ui.show /\ ui.visible => ui.byApp
  BY DEF UIInv, NoSecondWindow
<1>3. ASSUME ui.exists, OnSetThreadFocus PROVE InPlace'
  <2>1. /\ focus' = focus /\ tip' = tip /\ ~ thread /\ thread' = TRUE /\ ui'.ctx = ui.ctx /\ ui'.byApp = ui.byApp
        /\ IF ui.ctx # NoDoc /\ ui.ctx = tip.last /\ ui.show
           THEN ui'.visible <=> ui.wnd = "real" ELSE ui'.visible = ui.visible
        /\ ui'.crossed <=> ui.crossed /\ ui.ctx # focus
    BY <1>3, ThreadBackIs DEF SameList
  <2>2. CASE ui.ctx # NoDoc /\ ui.ctx = tip.last /\ ui.show
    BY <2>1, <2>2 DEF InPlace
  <2>3. CASE ~(ui.ctx # NoDoc /\ ui.ctx = tip.last /\ ui.show)
    BY <2>1, <2>3 DEF InPlace
  <2> QED BY <2>2, <2>3
<1>4. ASSUME ui.exists, OnKillThreadFocus PROVE InPlace'
  <2>1. /\ focus' = focus /\ ui'.ctx = ui.ctx /\ ui'.byApp = ui.byApp
        /\ ui.show => ~ ui'.visible
        /\ ui'.visible => ui.visible
        /\ ui'.crossed <=> ui.ctx \notin {NoDoc, focus}
    BY <1>4, ThreadGoneIs DEF SameList
  <2> QED BY <1>2, <2>1 DEF InPlace
<1>5. ASSUME ui = NoPresenter PROVE InPlace'
  <2>1. ui' = ui
    BY <1>5, ThreadBackIs, ThreadGoneIs, NoPresenterIs
  <2> QED BY <1>5, <2>1, InPlaceAfter, NoPresenterIs
<1> QED BY <1>1, <1>3, <1>4, <1>5

LEMMA InPlaceStays ==
  ASSUME UIInv, InPlace, [UIStep]_<<tipVars, uiVars>> PROVE InPlace'
<1>1. CASE UNCHANGED <<tipVars, uiVars>>
  BY <1>1, InPlaceAfter DEF tipVars, uiVars
<1>2. ASSUME End PROVE InPlace'
  <2>1. ~ ui'.visible /\ ui'.ctx = NoDoc
    BY <1>2, PresenterEnded DEF End, UIInv, UITyped
  <2> QED BY <2>1, InPlaceAfter
<1>3. ASSUME EndDeactivate PROVE InPlace'
  BY <1>3, NoPresenterIs, InPlaceAfter DEF EndDeactivate
<1>4. ASSUME NEW n \in 0..Len(Steps), NEW accepted \in BOOLEAN, Activate(n, accepted)
      PROVE  InPlace'
  <2>1. ui = NoPresenter /\ UNCHANGED <<ui, focus, thread>>
    BY <1>4 DEF Activate, ActivateEx, UIInv, Activated, uiVars
  <2> QED BY <2>1, NoPresenterIs, InPlaceAfter
<1>5. ASSUME BeginDeactivate PROVE InPlace'
  <2>1. tip'.last = tip.last /\ UNCHANGED <<ui, focus, thread>>
    BY <1>5 DEF BeginDeactivate, DeleteEngine, uiVars, UIInv, UITyped, CSampleIME
  <2> QED BY <2>1, InPlaceAfter
<1> QED BY <1>1, <1>2, <1>3, <1>4, <1>5, ConvertInPlace, ShowInPlace, FocusInPlace,
        ThreadFocusInPlace DEF UIStep, UINext, DeleteCandidateList, LayoutDestroy

LEMMA UIStays == Spec => [](UIInv /\ InPlace)
<1>1. Init => UIInv /\ InPlace
  <2>1. Init => UIInv
    BY UIBegins DEF Init
  <2>2. Init => InPlace
    BY NoPresenterIs DEF Init, UIInit, InPlace
  <2> QED BY <2>1, <2>2
<1>2. host \in Hosts /\ UIInv /\ InPlace /\ [Next]_vars => (UIInv /\ InPlace)'
  <2>1. host \in Hosts /\ [Next]_vars => [UIStep]_<<tipVars, uiVars>>
    BY UIPart DEF vars
  <2> QED BY <2>1, UIKeeps, InPlaceStays
<1> QED BY <1>1, <1>2, HostStays, PTL DEF Spec

(* In every application, with callbacks, calls and searches in between,    *)
(* the text service and TSF hold of each other only what is there.         *)
THEOREM TipNothingDangles == Spec => []NothingDangles
BY UIStays, UIIsSafe, PTL

(* However the focuses of documents and threads move, in every             *)
(* application: the list is on screen over its own document, while the     *)
(* thread has the focus, comes back with the two, and - but for the two    *)
(* ways one focus moves while the other is elsewhere (crossed), and for an *)
(* application that shows it - is on screen nowhere else                   *)
(* (ThreadMgrEventSink.cpp, ThreadFocusSink.cpp).                          *)
THEOREM TipListIsWhereFocused == Spec => []ListIsWhereFocused
<1>1. InPlace => VisibleWhereFocused
  BY DEF InPlace, VisibleWhereFocused
<1> QED BY <1>1, UIStays, UIIsSafe, PTL DEF ListIsWhereFocused

(* Both together, of every application.                                    *)
THEOREM TipListIsSound == Spec => []ListIsSound
BY TipNothingDangles, TipListIsWhereFocused, PTL DEF ListIsSound

-----------------------------------------------------------------------------
(* What happens in the candidate window.                                   *)

LEMMA ListStaysTrue ==
  ASSUME host \in Hosts, UIInv', ListInv, [Next]_vars PROVE ListInv'
<1>1. host.store \in BOOLEAN /\ ui'.show \in BOOLEAN
  BY TipAssumption DEF HostType, UIInv, UITyped, CCandidateListUIPresenter
<1>2. CASE NoList \/ UNCHANGED vars
  BY <1>2, ListRests DEF NoList, vars, listVars
<1>3. CASE EndList
  BY <1>1, <1>3, ListEndKeeps DEF EndList
<1>4. CASE TipList
  BY <1>4, ListPickKeeps, ListMoveKeeps, FinishKeeps DEF TipList
<1>5. CASE TipActivate \/ TipBeginDeactivate \/ TipShow \/ TipOnSetFocus \/ TipThreadFocus
           \/ TipMode \/ TipEngines \/ TipWrite \/ TipBar \/ TipCall
  BY <1>2, <1>5 DEF TipActivate, TipBeginDeactivate, TipShow, TipOnSetFocus, TipThreadFocus,
     TipMode, TipEngines, TipWrite, TipBar, TipCall
<1>6. CASE TipDraw \/ TipModule \/ TipEnum \/ TipBeside
  BY <1>2, <1>6 DEF TipDraw, TipModule, TipEnum, TipBeside
<1>7. CASE TipEndDeactivate \/ TipConvert \/ TipEnd
  BY <1>3, <1>7 DEF TipEndDeactivate, TipConvert, TipEnd
<1> QED BY <1>2, <1>4, <1>5, <1>6, <1>7 DEF Next, TipStep

(* However lists come and go while a person types, scrolls and clicks, the *)
(* selection is among what is shown, and what a digit, a click or Enter    *)
(* takes, at once or when the session that waited for it runs, was seen    *)
(* there - unless a click waited and the selection was moved before it ran *)
(* (CandidateWindow.cpp, CandidateListUIPresenter.cpp).                    *)
THEOREM TipListIsTrue == Spec => []ListIsTrue
<1>1. Init => ListInv
  <2> SUFFICES ASSUME Init PROVE ListInv
    OBVIOUS
  <2>1. host.store \in BOOLEAN
    BY TipAssumption DEF Init, HostType
  <2>2. WellPaged(list) /\ list.count = 0 /\ list.timer = "none"
    BY <2>1, EmptyIsPaged DEF Init
  <2>3. pick = NoPick
    BY DEF Init
  <2> QED BY <2>2, <2>3, NoPickIs DEF ListInv, PaintedIsCurrent, HostSeesSelection
<1>2. host \in Hosts /\ UIInv' /\ ListInv /\ [Next]_vars => ListInv'
  BY ListStaysTrue
<1> QED BY <1>1, <1>2, HostStays, UIStays, ListInvIsTrue, PTL DEF Spec

-----------------------------------------------------------------------------
(* The candidate window as it is drawn.                                    *)

LEMMA FollowedIsWhole ==
  ASSUME WholeDrawing(draw), ui'.visible \in BOOLEAN, NEW anew \in BOOLEAN, WindowFollows(anew)
  PROVE  WholeDrawing(draw')
<1>1. CASE draw' = NoDrawing \/ draw' = draw
  BY <1>1, NoDrawingIsWhole
<1>2. CASE draw' = Shown(draw, ui'.visible)
  BY <1>2, ShownIsWhole
<1>3. CASE \E failing \in Failures, whole \in BOOLEAN :
             draw' = Shown(CreateDrawing(failing, whole), ui'.visible)
  BY <1>3, CreatedIsWhole, ShownIsWhole
<1> QED BY <1>1, <1>2, <1>3 DEF WindowFollows

LEMMA DrawingStaysWhole ==
  ASSUME UIInv', WholeDrawing(draw), [Next]_vars PROVE WholeDrawing(draw')
<1>1. ui'.visible \in BOOLEAN
  BY DEF UIInv, UITyped, CCandidateListUIPresenter
<1>2. CASE NoDraw \/ UNCHANGED vars
  BY <1>2 DEF NoDraw, vars
<1>3. CASE TipDraw
  BY <1>3, DrawStepIsWhole DEF TipDraw
<1>4. CASE TipModule \/ TipEnum \/ TipBeside
  BY <1>2, <1>4 DEF TipModule, TipEnum, TipBeside
<1>5. CASE WindowFollows(TRUE) \/ WindowFollows(FALSE)
  BY <1>1, <1>5, FollowedIsWhole
<1> QED BY <1>2, <1>3, <1>4, <1>5 DEF Next

(* However windows come and go with the candidate list and whatever fails  *)
(* as they are made and painted, what a paint is said to have drawn is on  *)
(* screen, in its size, with its shadow, and a failure costs no more than  *)
(* the paint it happens in.                                                *)
THEOREM TipDrawnIsTrue == Spec => []DrawnIsTrue
<1>1. Init => WholeDrawing(draw)
  BY NoDrawingIsWhole DEF Init, DrawInit
<1>2. WholeDrawing(draw) /\ UIInv' /\ [Next]_vars => WholeDrawing(draw)'
  BY DrawingStaysWhole
<1>3. WholeDrawing(draw) => DrawnIsTrue
  BY WholeIsTrue
<1> QED BY <1>1, <1>2, <1>3, UIStays, PTL DEF Spec

-----------------------------------------------------------------------------
(* Where the candidate window goes.                                        *)

(* Wherever the text goes and whichever monitor it is on, the window is    *)
(* beside it and inside the work area wherever that can be, up to the      *)
(* width of its borders (CalcFitPointAroundTextExtent).                    *)
THEOREM TipPlacedBesideText == Spec => []PlacedBesideText
<1>1. Init => PlacingTypeOK
  BY LayoutBegins DEF Init
<1>2. Next => PlacingStep \/ UNCHANGED placing
  BY DEF Next, TipBeside, besideVars, NoPlacing
<1>3. PlacingTypeOK /\ [Next]_vars => PlacingTypeOK'
  BY <1>2, LayoutKeeps DEF PlacingTypeOK, vars, besideVars
<1> QED BY <1>1, <1>3, LayoutIsPlaced, PTL DEF Spec

-----------------------------------------------------------------------------
(* What the module is to others.                                           *)

(* Whatever calls to the system fail together - Refusals is any set of     *)
(* sets of them -, a registration has entered everything but categories    *)
(* before the last, or leaves behind only what it could not remove, and    *)
(* each call returns, unless there is a subkey that cannot be opened       *)
(* (DllRegisterServer, DllUnregisterServer, RecurseDeleteKey).             *)
THEOREM TipRegistrationIsWhole == Spec => []RegistrationIsWhole
<1> DEFINE I == RegistrationTypeOK /\ RegistrationIsWhole
<1>1. Init => I
  BY RegistrationBegins DEF Init
<1>2. Next => RegistrationStep \/ UNCHANGED registry
  BY DEF Next, TipBeside, besideVars, NoRegistration
<1>3. I /\ [Next]_vars => I'
  <2>1. I /\ RegistrationStep => I'
    BY RegistrationStaysWhole
  <2>2. I /\ UNCHANGED registry => I'
    BY DEF RegistrationTypeOK, RegistrationIsWhole
  <2>3. UNCHANGED vars => UNCHANGED registry
    BY DEF vars, besideVars
  <2> HIDE DEF I
  <2> QED BY <1>2, <2>1, <2>2, <2>3
<1>4. I => RegistrationIsWhole
  OBVIOUS
<1> HIDE DEF I
<1> QED BY <1>1, <1>3, <1>4, PTL DEF Spec

(* Whoever fetches, skips, starts over and clones, each candidate and each *)
(* attribute is given out in turn, once, and found by its index            *)
(* (CEnumTfCandidates, CTipCandidateList, CEnumDisplayAttributeInfo).      *)
THEOREM TipItemsAreFound == Spec => []ItemsAreFound
<1>1. Init => EnumInv
  BY EnumBegins DEF Init
<1>2. Next => EnumStep \/ NoEnum
  BY DEF Next, TipDraw, TipModule, TipEnum, TipBeside
<1>3. EnumInv /\ [Next]_vars => EnumInv'
  <2>1. EnumInv /\ NoEnum => EnumInv'
    BY DEF EnumInv, NoEnum, enumVars
  <2>2. UNCHANGED vars => NoEnum
    BY DEF vars, NoEnum
  <2> QED BY <1>2, <2>1, <2>2, EnumKeeps
<1> QED BY <1>1, <1>3, EnumInvIsFound, PTL DEF Spec
-----------------------------------------------------------------------------
(* What the engine writes and the client reads.                            *)

LEMMA WireStaysInv == WireInv /\ [Next]_vars => WireInv'
<1>1. Next => WireStep \/ UNCHANGED arrived
  BY DEF Next, TipBeside, besideVars, NoWire
<1>2. UNCHANGED vars => UNCHANGED arrived
  BY DEF vars, besideVars
<1> QED BY <1>1, <1>2, WireSteps

(* An engine's answer is read as it was meant under the id of its request, *)
(* with fields of a later engine or without; one that was cut short, that  *)
(* has no id or that has another's is read as a bad one                    *)
(* (OhageyWire.cpp, Exchange, ReadResponse).                               *)
THEOREM TipWireIsRead == Spec => []WireIsRead
<1>1. Init => WireInv
  BY WireStarts DEF Init
<1> QED BY <1>1, WireStaysInv, WireReads, PTL DEF Spec

-----------------------------------------------------------------------------
(* The keystroke buffer (KanaTyping).                                     *)

LEMMA KanaIsPart == Spec => KanaSpec
<1>1. Init => KanaInit
  BY DEF Init
<1>2. [Next]_vars => [KanaNext]_kanaVars
  <2>1. Next => KanaNext \/ NoKana
    BY DEF Next, TipBeside, besideVars, NoKana, kanaVars
  <2>2. UNCHANGED vars => NoKana
    BY DEF vars, besideVars, NoKana, kanaVars
  <2> QED BY <2>1, <2>2 DEF NoKana
<1> QED BY <1>1, <1>2, PTL DEF Spec, KanaSpec

(* And so it is in the text service, whatever else goes on between two     *)
(* keystrokes.                                                             *)
THEOREM TipBufferSpells == Spec => []BufferSpells
BY KanaIsPart, BufferSpellsHolds, PTL

-----------------------------------------------------------------------------
(* The types of everything at once.                                        *)

LEMMA ListStaysSized ==
  ASSUME host \in Hosts, UIInv', ListInv, SizedInv, [Next]_vars PROVE SizedInv'
<1>1. host.store \in BOOLEAN /\ ui'.show \in BOOLEAN
  BY TipAssumption DEF HostType, UIInv, UITyped, CCandidateListUIPresenter
<1>2. CASE NoList \/ UNCHANGED vars
  BY <1>2, SizedRests DEF NoList, vars, listVars
<1>3. CASE EndList
  <2>1. 0 \in Indices
    BY IndicesAre
  <2>2. pick' \in Picks
    BY <1>3, <2>1, PicksAre DEF EndList, SizedInv
  <2> QED BY <1>1, <1>3, <2>2, SizedEnd DEF EndList
<1>4. CASE TipList
  BY <1>4, ListPickSizes, ListMoveSizes, FinishSizes DEF TipList
<1>5. CASE TipActivate \/ TipBeginDeactivate \/ TipShow \/ TipOnSetFocus \/ TipThreadFocus
           \/ TipMode \/ TipEngines \/ TipWrite \/ TipBar \/ TipCall
  BY <1>2, <1>5 DEF TipActivate, TipBeginDeactivate, TipShow, TipOnSetFocus, TipThreadFocus,
     TipMode, TipEngines, TipWrite, TipBar, TipCall
<1>6. CASE TipDraw \/ TipModule \/ TipEnum \/ TipBeside
  BY <1>2, <1>6 DEF TipDraw, TipModule, TipEnum, TipBeside
<1>7. CASE TipEndDeactivate \/ TipConvert \/ TipEnd
  BY <1>3, <1>7 DEF TipEndDeactivate, TipConvert, TipEnd
<1> QED BY <1>2, <1>4, <1>5, <1>6, <1>7 DEF Next, TipStep

LEMMA ListStays == Spec => [](ListInv /\ SizedInv)
<1>1. Init => ListInv /\ SizedInv
  <2> SUFFICES ASSUME Init PROVE ListInv /\ SizedInv
    OBVIOUS
  <2>1. host.store \in BOOLEAN
    BY TipAssumption DEF Init, HostType
  <2>2. pick = NoPick
    BY DEF Init
  <2>3. WellPaged(list) /\ list.count = 0 /\ list.timer = "none"
    BY <2>1, EmptyIsPaged DEF Init
  <2>4. ListInv
    BY <2>2, <2>3, NoPickIs DEF ListInv, PaintedIsCurrent, HostSeesSelection
  <2>5. SizedInv
    BY <2>1, <2>2, SizedStarts DEF Init
  <2> QED BY <2>4, <2>5
<1>2. host \in Hosts /\ UIInv' /\ ListInv /\ SizedInv /\ [Next]_vars => (ListInv /\ SizedInv)'
  BY ListStaysTrue, ListStaysSized
<1> QED BY <1>1, <1>2, HostStays, UIStays, PTL DEF Spec

\* Every pointer that is counted is one, so no count is negative.
LEMMA UIInvIsTyped == ASSUME UIInv PROVE UITypeOK
<1>1. Owned(tip, ui, refs)
  BY OwnedIsHeld DEF UIInv
<1>2. refs \in Counts
  BY DEF UIInv, UITyped
<1>3. ASSUME NEW d \in Docs PROVE refs.mgr[d] \in Nat /\ refs.ctx[d] \in Nat
  <2>1. \A p : Holds(p, d) \in {0, 1}
    BY DEF Holds
  <2>2. refs.mgr[d] \in Int /\ refs.ctx[d] \in Int
    BY <1>2 DEF Counts
  <2>3. refs.mgr[d] >= Holds(tip.last, d) /\ refs.ctx[d] = Holds(tip.edit, d) + Holds(ui.ctx, d)
    BY <1>1 DEF Owned
  <2> HIDE DEF Holds
  <2> QED BY <2>1, <2>2, <2>3
<1>4. refs \in References
  BY <1>2, <1>3 DEF Counts, References
<1> QED BY <1>4 DEF UIInv, UITyped, Pointers, UITypeOK

LEMMA WholeIsTyped == WholeDrawing(draw) => DrawTypeOK
BY DEF WholeDrawing, DrawTypeOK

LEMMA ConversionInvIsTyped == ConversionInv => ConversionTypeOK
BY DEF ConversionInv, WordsInv, RecentInv, ConversionTypeOK

LEMMA SettingsInvIsTyped == SettingsInv => SettingsTypeOK
BY DEF SettingsInv

LEMMA TipUITyped == Spec => []UITypeOK
BY UIStays, UIInvIsTyped, PTL

LEMMA TipListTyped == Spec => []ListTypeOK
BY ListStays, SizedInvIsTyped, PTL

LEMMA TipDrawTyped == Spec => []DrawTypeOK
<1>1. Init => WholeDrawing(draw)
  BY NoDrawingIsWhole DEF Init, DrawInit
<1>2. WholeDrawing(draw) /\ UIInv' /\ [Next]_vars => WholeDrawing(draw)'
  BY DrawingStaysWhole
<1> QED BY <1>1, <1>2, WholeIsTyped, UIStays, PTL DEF Spec

LEMMA TipConversionTyped == Spec => []ConversionTypeOK
<1>1. Init => ConversionInv
  BY ConversionBegin DEF Init
<1>2. ConversionInv /\ [Next]_vars => ConversionInv'
  <2>1. [Next]_vars => [EngineWords(Converted) \/ OthersWords]_conversionVars
    BY ConversionPart DEF vars, besideVars
  <2> QED BY <2>1, ConversionKeep
<1> QED BY <1>1, <1>2, ConversionInvIsTyped, PTL DEF Spec

LEMMA TipSettingsTyped == Spec => []SettingsTypeOK
<1>1. Init => SettingsInv
  BY SettingsBegin DEF Init
<1>2. SettingsInv /\ [Next]_vars => SettingsInv'
  <2>1. [Next]_vars => [SettingsStep]_settingsVars
    BY SettingsPart DEF vars, besideVars
  <2> QED BY <2>1, SettingsKeep
<1> QED BY <1>1, <1>2, SettingsInvIsTyped, PTL DEF Spec

\* What touches nothing of the rest (besideVars), and what others ask of it.
LEMMA TipBesideTyped ==
  Spec => [](EnumTypeOK /\ WireTypeOK /\ KanaTypeOK /\ PlacingTypeOK /\ RegistrationTypeOK)
<1> DEFINE R == RegistrationTypeOK /\ RegistrationIsWhole
           I == EnumInv /\ WireInv /\ KanaInv /\ PlacingTypeOK /\ R
<1>1. Init => I
  BY EnumBegins, WireStarts, KanaStarts, LayoutBegins, RegistrationBegins DEF Init
<1>2. EnumInv /\ [Next]_vars => EnumInv'
  <2>1. Next => EnumStep \/ NoEnum
    BY DEF Next, TipDraw, TipModule, TipEnum, TipBeside
  <2>2. EnumInv /\ NoEnum => EnumInv'
    BY DEF EnumInv, NoEnum, enumVars
  <2>3. UNCHANGED vars => NoEnum
    BY DEF vars, NoEnum
  <2> QED BY <2>1, <2>2, <2>3, EnumKeeps
<1>3. KanaInv /\ [Next]_vars => KanaInv'
  <2>1. Next => KanaNext \/ NoKana
    BY DEF Next, TipBeside, besideVars, NoKana, kanaVars
  <2>2. UNCHANGED vars => NoKana
    BY DEF vars, besideVars, NoKana, kanaVars
  <2> QED BY <2>1, <2>2, KanaStays
<1>4. PlacingTypeOK /\ [Next]_vars => PlacingTypeOK'
  <2>1. Next => PlacingStep \/ UNCHANGED placing
    BY DEF Next, TipBeside, besideVars, NoPlacing
  <2> QED BY <2>1, LayoutKeeps DEF PlacingTypeOK, vars, besideVars
<1>5. R /\ [Next]_vars => R'
  <2>1. R /\ RegistrationStep => R'
    BY RegistrationStaysWhole
  <2>2. R /\ UNCHANGED registry => R'
    BY DEF RegistrationTypeOK, RegistrationIsWhole
  <2>3. UNCHANGED vars => UNCHANGED registry
    BY DEF vars, besideVars
  <2>4. Next => RegistrationStep \/ UNCHANGED registry
    BY DEF Next, TipBeside, besideVars, NoRegistration
  <2> HIDE DEF R
  <2> QED BY <2>1, <2>2, <2>3, <2>4
<1>6. I => EnumTypeOK /\ WireTypeOK /\ KanaTypeOK /\ PlacingTypeOK /\ RegistrationTypeOK
  BY EnumInvIsFound, WireReads, KanaIsTyped
<1> HIDE DEF R
<1>7. I /\ [Next]_vars => I'
  BY <1>2, <1>3, <1>4, <1>5, WireStaysInv
<1> HIDE DEF I
<1> QED BY <1>1, <1>6, <1>7, PTL DEF Spec

(* All the state that the text service has in an application, and that of  *)
(* the engines around it, is of its type in every state: no count of       *)
(* references is negative, no pointer is to a factory or a document that   *)
(* never was, no page or selection is further than a page after the list,  *)
(* no request id passes its bound, and the keystroke buffer is never       *)
(* longer than what was typed.                                             *)
THEOREM TipIsTyped == Spec => []TypeOK
<1>1. Spec => []EngineTypeOK
  BY EngineIsPart, EnginesAreTyped, PTL
<1>2. Spec => []ModuleTypeOK
  BY ModuleIsPart, ModuleIsTyped, PTL
<1>3. Spec => []ModeTypeOK
  BY ModeIsPart, ModesAreTyped, PTL
<1> QED BY <1>1, <1>2, <1>3, HostStays, TipUITyped, TipListTyped, TipDrawTyped,
           TipConversionTyped, TipSettingsTyped, TipBesideTyped, PTL DEF TypeOK
=============================================================================
