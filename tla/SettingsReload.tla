--------------------------- MODULE SettingsReload ----------------------------
(***************************************************************************)
(* How settings reach a running engine (SettingsWatcher.swift, main.swift, *)
(* RegistrySettings.swift): the settings app writes them to the registry   *)
(* one by one, and a thread of the engine that is told of a change reads   *)
(* all of them, one by one, and hands them to the main actor.              *)
(*                                                                         *)
(* Windows tells of one change for each registration. Whether it remembers *)
(* a change that came between two registrations is not documented: both    *)
(* are modelled (`remembers`).                                             *)
(***************************************************************************)
EXTENDS Naturals, Sequences

CONSTANTS
  Settings,     \* the values Write sets, in its order
  MaxSaves      \* bound: times the person changes one

SettingNames == {Settings[i] : i \in DOMAIN Settings}

ASSUME SettingsAssumption ==
  Settings \in Seq(SettingNames) /\ Settings # <<>> /\ MaxSaves \in Nat

VARIABLES
  hkcu,         \* the registry key, see KeyType
  watcher,      \* the engine's thread, see WatcherType
  queue,        \* settings handed to the main actor, not yet in force
  inForce,      \* ConversionService's settings
  unseen        \* history: the registry has changed and the thread will not hear of it

settingsVars == <<hkcu, watcher, queue, inForce, unseen>>

SettingValues == [SettingNames -> BOOLEAN]
Defaults == [n \in SettingNames |-> TRUE]

KeyType ==
  [values    : SettingValues,
   saving    : SettingValues,                      \* what the settings app writes,
   left      : 0..Len(Settings),            \*   and how many of them are left
   saves     : 0..MaxSaves,
   remembers : BOOLEAN]                     \* Windows does, never changed

WatcherType ==
  [at      : {"down", "load", "arm", "wait", "read", "stopped"},
   left    : SUBSET SettingNames,                  \* values not yet read
   got     : SettingValues,                        \* those that were
   applied : SettingValues,
   event   : BOOLEAN,                       \* the event is signalled
   armed   : BOOLEAN,                       \* a registration waits for a change
   watched : BOOLEAN,                       \* there has been one for this key
   pending : BOOLEAN]                       \* a change remembered for the next

NoWatcher ==
  [at |-> "down", left |-> {}, got |-> Defaults, applied |-> Defaults, event |-> FALSE,
   armed |-> FALSE, watched |-> FALSE, pending |-> FALSE]

-----------------------------------------------------------------------------
(* The settings app.                                                       *)

\* A page reads all settings and writes them back with one changed.
Save(n, value) ==
  /\ hkcu.left = 0 /\ hkcu.saves < MaxSaves
  /\ hkcu' = [hkcu EXCEPT !.saving = [hkcu.values EXCEPT ![n] = value],
                          !.left = Len(Settings), !.saves = @ + 1]
  /\ UNCHANGED <<watcher, queue, inForce, unseen>>

\* Windows signals the registration that waits, or remembers.
Notified ==
  IF watcher.armed THEN [watcher EXCEPT !.event = TRUE, !.armed = FALSE]
  ELSE [watcher EXCEPT !.pending = @ \/ (watcher.watched /\ hkcu.remembers)]

\* RegistrySettingsStore.Write: the next of its calls of SetValue.
SetValue ==
  LET n == Settings[Len(Settings) + 1 - hkcu.left]
  IN /\ hkcu.left > 0
     /\ hkcu' = [hkcu EXCEPT !.values[n] = hkcu.saving[n], !.left = @ - 1]
     /\ watcher' = Notified
     /\ unseen' = \/ unseen
                  \/ /\ watcher.at \in {"load", "arm", "read"} /\ n \notin watcher.left
                     /\ ~(watcher.watched /\ hkcu.remembers)
     /\ UNCHANGED <<queue, inForce>>

-----------------------------------------------------------------------------
(* The engine.                                                             *)

Launch ==
  /\ watcher.at = "down"
  /\ watcher' = [NoWatcher EXCEPT !.at = "load", !.left = SettingNames]
  /\ unseen' = FALSE /\ UNCHANGED <<hkcu, queue, inForce>>

\* RegistrySettings.read: RegEnumValueW gives the values in any order.
ReadSetting(n) ==
  /\ n \in watcher.left
  /\ watcher' = [watcher EXCEPT !.got[n] = hkcu.values[n], !.left = @ \ {n}]
  /\ UNCHANGED <<hkcu, queue, inForce, unseen>>

\* main: the service begins with what was loaded, and the thread is started.
StartWatching ==
  /\ watcher.at = "load" /\ watcher.left = {}
  /\ watcher' = [watcher EXCEPT !.at = "arm", !.applied = watcher.got]
  /\ inForce' = watcher.got /\ UNCHANGED <<hkcu, queue, unseen>>

\* Mutant: the event is reset after the registration.
ArmThenReset ==
  /\ watcher.at = "arm"
  /\ watcher' = [watcher EXCEPT !.at = "wait", !.event = FALSE, !.pending = FALSE,
                                !.armed = ~watcher.pending, !.watched = TRUE]
  /\ UNCHANGED <<hkcu, queue, inForce, unseen>>

\* ResetEvent, RegNotifyChangeKeyValue: a change that is remembered signals
\* at once.
Arm ==
  /\ watcher.at = "arm"
  /\ watcher' = [watcher EXCEPT !.at = "wait", !.event = watcher.pending, !.pending = FALSE,
                                !.armed = ~watcher.pending, !.watched = TRUE]
  /\ UNCHANGED <<hkcu, queue, inForce, unseen>>

\* The key, the event or the registration cannot be had, or the wait fails:
\* the thread ends.
StopWatching ==
  /\ watcher.at \in {"arm", "wait"}
  /\ watcher' = [watcher EXCEPT !.at = "stopped", !.armed = FALSE]
  /\ UNCHANGED <<hkcu, queue, inForce, unseen>>

\* WaitForSingleObject returns: all values are read anew.
Wake ==
  /\ watcher.at = "wait" /\ watcher.event
  /\ watcher' = [watcher EXCEPT !.at = "read", !.left = SettingNames]
  /\ unseen' = FALSE /\ UNCHANGED <<hkcu, queue, inForce>>

HandOver ==
  /\ watcher.at = "read" /\ watcher.left = {}
  /\ watcher' = [watcher EXCEPT !.at = "arm", !.applied = watcher.got]
  /\ queue' = IF watcher.got # watcher.applied THEN Append(queue, watcher.got) ELSE queue
  /\ UNCHANGED <<hkcu, inForce, unseen>>

\* updateSettings, on the main actor, in the order they were handed over.
UpdateSettings ==
  /\ queue # <<>> /\ inForce' = Head(queue) /\ queue' = Tail(queue)
  /\ UNCHANGED <<hkcu, watcher, unseen>>

EndEngine ==
  /\ watcher.at # "down"
  /\ watcher' = NoWatcher /\ queue' = <<>> /\ inForce' = Defaults /\ unseen' = FALSE
  /\ UNCHANGED hkcu

SettingsInit ==
  /\ \E values \in SettingValues, remembers \in BOOLEAN :
       hkcu = [values |-> values, saving |-> values, left |-> 0, saves |-> 0,
               remembers |-> remembers]
  /\ watcher = NoWatcher /\ queue = <<>> /\ inForce = Defaults /\ unseen = FALSE

SettingsStep ==
  \/ SetValue \/ \E n \in SettingNames, value \in BOOLEAN : Save(n, value)
  \/ Launch \/ StartWatching \/ Arm \/ StopWatching \/ Wake \/ HandOver \/ UpdateSettings
  \/ EndEngine \/ \E n \in SettingNames : ReadSetting(n)

NoSettings == UNCHANGED settingsVars

SettingsSpec == SettingsInit /\ [][SettingsStep]_settingsVars

-----------------------------------------------------------------------------
SettingsTypeOK ==
  /\ hkcu \in KeyType /\ watcher \in WatcherType
  /\ queue \in Seq(SettingValues) /\ inForce \in SettingValues /\ unseen \in BOOLEAN

(* Whenever the watcher waits and has nothing to do, and nothing is on its *)
(* way to the main actor, the settings in force are those in the registry, *)
(* however saves, notifications and reads have crossed; except for a       *)
(* change that Windows told nobody of.                                     *)
SettingsSettle ==
  watcher.at = "wait" /\ ~watcher.event /\ queue = <<>> /\ ~unseen => inForce = hkcu.values
=============================================================================
