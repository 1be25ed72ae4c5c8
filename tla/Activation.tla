----------------------------- MODULE Activation ------------------------------
(***************************************************************************)
(* What CSampleIME holds and is registered for between ActivateEx and      *)
(* Deactivate (SampleIME.cpp, ThreadMgrEventSink.cpp, TextEditSink.cpp,    *)
(* KeyEventSink.cpp, ActiveLanguageProfileNotifySink.cpp,                  *)
(* ThreadFocusSink.cpp, FunctionProviderSink.cpp).                         *)
(*                                                                         *)
(* A document manager has one context here, so that a document stands for  *)
(* both.  refs counts the references the service has taken and not given   *)
(* back: TSF may free what nobody holds.                                   *)
(***************************************************************************)
EXTENDS Integers, Sequences, FiniteSets

CONSTANTS
  Docs,           \* documents of the thread
  NoDoc,          \* the null pointer
  MaxLeaked       \* bound: references to a document manager never given back

ASSUME ActivationAssumption == NoDoc \notin Docs /\ MaxLeaked \in Nat

VARIABLES
  tip,            \* see CSampleIME
  refs            \* see References

tipVars == <<tip, refs>>

Sinks == {"threadMgr", "key", "profile", "threadFocus", "function"}

CSampleIME ==
  [on     : BOOLEAN,              \* activated
   engine : BOOLEAN,              \* _pCompositionProcessorEngine
   sinks  : SUBSET Sinks,         \* what TSF will call
   edit   : Docs \union {NoDoc},  \* _pTextEditSinkContext, advised
   last   : Docs \union {NoDoc}]  \* _pDocMgrLastFocused

References == [mgr : [Docs -> Nat], ctx : [Docs -> Nat]]

AddRef(r, kind, d)  == IF d = NoDoc THEN r ELSE [r EXCEPT ![kind][d] = @ + 1]
Release(r, kind, d) == IF d = NoDoc THEN r ELSE [r EXCEPT ![kind][d] = @ - 1]

\* A pointer changes from one document to another.
Exchange(r, kind, old, new) == AddRef(Release(r, kind, old), kind, new)

(* _InitTextEditSink: the previous sink always goes; the new one is held   *)
(* if TSF accepts it.                                                      *)
InitTextEditSink(t, d, accepted) == [t EXCEPT !.edit = IF accepted THEN d ELSE NoDoc]

\* The steps of ActivateEx, each of which may be the one that fails.
Steps == <<"threadMgr", "key", "profile", "threadFocus", "attribute", "function", "engine">>

Done(n) == {Steps[i] : i \in 1..n}

-----------------------------------------------------------------------------
(* The Uninit... calls of Deactivate.  The text edit sink is not among     *)
(* them.                                                                   *)
UninitSinks(t) == [t EXCEPT !.sinks = {}]

(* DeactivateImpl after the engine and the presenter are gone.             *)
Deactivated(t) == [UninitSinks(t) EXCEPT !.on = FALSE, !.last = NoDoc]

(* ActivateEx up to the first step that fails; the function provider may   *)
(* fail after its sink was advised.  On failure it deactivates, and what   *)
(* the text edit sink listens to stays.                                    *)
ActivateEx(n, focus, accepted) ==
  LET begun == IF n = 0 \/ focus = NoDoc THEN tip
               ELSE InitTextEditSink(tip, focus, accepted)
      last  == IF n = 5 THEN {{}, {"function"}} ELSE {{}}
  IN /\ ~tip.on
     /\ \E advised \in last :
          LET reached == [begun EXCEPT !.on = TRUE, !.engine = n = Len(Steps),
                                       !.sinks = (Done(n) \intersect Sinks) \union advised]
          IN tip' = IF reached.engine THEN reached ELSE Deactivated(reached)
     /\ refs' = Exchange(refs, "ctx", tip.edit, tip'.edit)

(* Deactivate begins by deleting the engine.                               *)
DeleteEngine ==
  /\ tip.on /\ tip.engine
  /\ tip' = [tip EXCEPT !.engine = FALSE] /\ UNCHANGED refs

-----------------------------------------------------------------------------
TipInit ==
  /\ tip = [on |-> FALSE, engine |-> FALSE, sinks |-> {}, edit |-> NoDoc, last |-> NoDoc]
  /\ refs = [kind \in {"mgr", "ctx"} |-> [d \in Docs |-> 0]]
=============================================================================
