---------------------------- MODULE ModuleServer -----------------------------
(***************************************************************************)
(* The module as COM loads it (Server.cpp): its reference count, and the   *)
(* class factory that is built with the first reference and freed with the *)
(* last, by whatever threads of the application ask for it.                *)
(*                                                                         *)
(* DllGetClassObject looks at the factory without the lock that building   *)
(* and freeing take: a thread does one step of it at a time here.          *)
(***************************************************************************)
EXTENDS Integers, FiniteSets

CONSTANTS
  Threads,         \* threads of the application that use the text service
  MaxFactories     \* bound: factories that are built, one after the other

ASSUME ModuleAssumption == MaxFactories \in Nat \ {0}

VARIABLES
  dll,             \* the module, see DllType
  user,            \* what each thread does and holds, see Users
  raced            \* history: a last release has met a DllGetClassObject

moduleVars == <<dll, user, raced>>

Factories == 1..MaxFactories
NoFactory == 0

DllType ==
  [count   : Int,                            \* dllRefCount
   factory : Factories \union {NoFactory},   \* classFactoryObjects[0]
   made    : SUBSET Factories,               \* history: built so far
   freed   : SUBSET Factories]               \* history: deleted of them

Users ==
  [at       : {"idle", "build", "take", "addref", "free"},
   got      : Factories \union {NoFactory},  \* the pointer that was read
   factory  : Factories \union {NoFactory},  \* a factory it holds
   instance : BOOLEAN,                       \* a text service it holds
   lock     : BOOLEAN]                       \* LockServer(TRUE)

NewUser ==
  [at |-> "idle", got |-> NoFactory, factory |-> NoFactory, instance |-> FALSE, lock |-> FALSE]

-----------------------------------------------------------------------------
(* The factory.                                                            *)

DllAddRef == dll' = [dll EXCEPT !.count = @ + 1]

\* Mutant: the last reference but one frees.
DllReleaseEarly(t, left) ==
  /\ dll' = [dll EXCEPT !.count = @ - 1]
  /\ user' = [user EXCEPT ![t] = [left EXCEPT !.at = IF dll.count <= 1 THEN "free" ELSE "idle"]]

(* InterlockedDecrement; whoever takes the count below 0 goes on to free,  *)
(* as soon as it has the lock.                                             *)
DllRelease(t, left) ==
  /\ dll' = [dll EXCEPT !.count = @ - 1]
  /\ user' = [user EXCEPT ![t] = [left EXCEPT !.at = IF dll.count - 1 < 0 THEN "free" ELSE "idle"]]

\* FreeGlobalObjects, under the lock.
FreeGlobalObjects(t) ==
  /\ user[t].at = "free"
  /\ dll' = [dll EXCEPT !.factory = NoFactory,
                        !.freed = IF dll.factory = NoFactory THEN @ ELSE @ \union {dll.factory}]
  /\ user' = [user EXCEPT ![t].at = "idle"]

\* DllGetClassObject: without the lock.
DllGetClassObject(t) ==
  /\ user[t].at = "idle" /\ user[t].factory = NoFactory
  /\ user' = [user EXCEPT ![t].at = IF dll.factory = NoFactory THEN "build" ELSE "take"]
  /\ UNCHANGED dll

\* Mutant: the factory is not looked at again.
BuildAnyway(t) ==
  LET next == Cardinality(dll.made) + 1
  IN /\ user[t].at = "build" /\ next \in Factories
     /\ dll' = [dll EXCEPT !.factory = next, !.made = @ \union {next}]
     /\ user' = [user EXCEPT ![t].at = "take"]

\* BuildGlobalObjects, under the lock: whoever comes second finds it done.
BuildGlobalObjects(t) ==
  LET next == Cardinality(dll.made) + 1
  IN /\ user[t].at = "build" /\ (dll.factory = NoFactory => next \in Factories)
     /\ dll' = IF dll.factory # NoFactory THEN dll
               ELSE [dll EXCEPT !.factory = next, !.made = @ \union {next}]
     /\ user' = [user EXCEPT ![t].at = "take"]

\* The pointer is read; a factory that is gone is no class.
TakeFactory(t) ==
  /\ user[t].at = "take"
  /\ user' = [user EXCEPT ![t].at = IF dll.factory = NoFactory THEN "idle" ELSE "addref",
                          ![t].got = dll.factory]
  /\ UNCHANGED dll

HoldFactory(t) ==
  /\ user[t].at = "addref"
  /\ DllAddRef
  /\ user' = [user EXCEPT ![t].at = "idle", ![t].got = NoFactory, ![t].factory = user[t].got]

-----------------------------------------------------------------------------
(* What is done with it.                                                   *)

\* Mutant: an instance holds the module only as long as its factory does.
CreateUncounted(t) ==
  /\ user[t].at = "idle" /\ user[t].factory # NoFactory /\ ~user[t].instance
  /\ user' = [user EXCEPT ![t].instance = TRUE]
  /\ UNCHANGED dll

CreateInstance(t) ==
  /\ user[t].at = "idle" /\ user[t].factory # NoFactory /\ ~user[t].instance
  /\ DllAddRef
  /\ user' = [user EXCEPT ![t].instance = TRUE]

LockServer(t) ==
  /\ user[t].at = "idle" /\ user[t].factory # NoFactory
  /\ IF user[t].lock
     THEN DllRelease(t, [user[t] EXCEPT !.lock = FALSE])
     ELSE DllAddRef /\ user' = [user EXCEPT ![t].lock = TRUE]

ReleaseFactory(t) ==
  /\ user[t].at = "idle" /\ user[t].factory # NoFactory /\ ~user[t].lock
  /\ DllRelease(t, [user[t] EXCEPT !.factory = NoFactory])

ReleaseInstance(t) ==
  /\ user[t].at = "idle" /\ user[t].instance
  /\ DllRelease(t, [user[t] EXCEPT !.instance = FALSE])

DllCanUnloadNow == dll.count < 0

(* Between the decrement that goes below 0 and the lock, a factory that is *)
(* about to be freed is still there for DllGetClassObject to take.         *)
Overlap ==
  \E t, u \in Threads : user[t].at = "free" /\ user[u].at \in {"take", "addref"}

NoModule == UNCHANGED moduleVars

ModuleInit ==
  /\ dll = [count |-> -1, factory |-> NoFactory, made |-> {}, freed |-> {}]
  /\ user = [t \in Threads |-> NewUser]
  /\ raced = FALSE

ModuleStep ==
  /\ \E t \in Threads :
       \/ DllGetClassObject(t) \/ BuildGlobalObjects(t) \/ TakeFactory(t) \/ HoldFactory(t)
       \/ FreeGlobalObjects(t)
       \/ CreateInstance(t) \/ LockServer(t) \/ ReleaseFactory(t) \/ ReleaseInstance(t)
  /\ raced' = (raced \/ Overlap')

ModuleSpec == ModuleInit /\ [][ModuleStep]_moduleVars

-----------------------------------------------------------------------------
ModuleTypeOK ==
  /\ dll \in DllType /\ dll.count >= -1
  /\ user \in [Threads -> Users] /\ raced \in BOOLEAN

(* However many threads ask for the class at once, one factory exists at   *)
(* a time: none is built over another, which nobody would free.            *)
OneFactory == Cardinality(dll.made \ dll.freed) <= 1

(* What a thread holds is alive: the factory is freed with the last        *)
(* reference, unless a DllGetClassObject took it just before.              *)
HeldIsAlive ==
  ~raced => \A t \in Threads : user[t].factory \notin dll.freed

(* The module may be unloaded only when no thread holds anything of it, a   *)
(* lock on the server included.                                            *)
UnloadWaits ==
  DllCanUnloadNow =>
    \A t \in Threads :
      user[t].factory = NoFactory /\ ~user[t].instance /\ ~user[t].lock

(* The module and its factory stay as long as any thread uses them.        *)
ModuleIsHeld == OneFactory /\ HeldIsAlive /\ UnloadWaits
=============================================================================
