----------------------------- MODULE Registration ----------------------------
(***************************************************************************)
(* How the module enters itself into the registry and takes itself out     *)
(* again (Register.cpp, called by DllRegisterServer and DllUnregisterServer *)
(* of Server.cpp). Calls to the system fail in any combination: `failing`  *)
(* is the set of those that fail, for as long as the registration or the   *)
(* removal lasts. The registry is the set of entries that concern the text *)
(* service.                                                                *)
(***************************************************************************)
EXTENDS Naturals, Sequences

CONSTANTS
  Categories,    \* SupportCategories, in their order
  Refusals       \* the sets of calls that may fail together

ServerSteps == <<"key", "description", "inproc", "file", "model">>

CategorySet == {Categories[i] : i \in DOMAIN Categories}

ServerEntries == {ServerSteps[i] : i \in DOMAIN ServerSteps}

AllEntries == ServerEntries \union {"profile"} \union CategorySet

\* The calls: entering and removing, reaching the managers (whose instances
\* COM may refuse to make), opening a key and listing its subkeys.
SystemCalls ==
  ({"add"} \X AllEntries)
    \union ({"remove"} \X ({"key", "inproc", "profile"} \union CategorySet))
    \union ({"add", "remove"} \X {"profiles", "categories"})
    \union {<<"open", "key">>, <<"list", "key">>, <<"open", "inproc">>}

\* Categories go by identifiers of their own.
ASSUME RegistrationAssumption ==
  /\ Categories # <<>> /\ Categories \in Seq(CategorySet)
  /\ CategorySet \cap (ServerEntries \union {"profile", "profiles", "categories"}) = {}
  /\ Refusals \subseteq SUBSET SystemCalls

Outcome(done, entries) == [done |-> done, entries |-> entries]

-----------------------------------------------------------------------------
\* Each step needs the one before; what has been entered stays.
RegisterServer(entries, failing) ==
  LET bad  == {i \in DOMAIN ServerSteps : <<"add", ServerSteps[i]>> \in failing}
      past == {i \in DOMAIN ServerSteps : \A b \in bad : i < b}
  IN Outcome(bad = {}, entries \union {ServerSteps[i] : i \in past})

RegisterProfiles(entries, failing) ==
  IF {<<"add", "profiles">>, <<"add", "profile">>} \cap failing # {}
  THEN Outcome(FALSE, entries)
  ELSE Outcome(TRUE, entries \union {"profile"})

LastCategory == Categories[Len(Categories)]

\* All are tried; the answer is that of the last.
RegisterCategories(entries, failing) ==
  IF <<"add", "categories">> \in failing THEN Outcome(FALSE, entries)
  ELSE Outcome(<<"add", LastCategory>> \notin failing,
              entries \union {c \in CategorySet : <<"add", c>> \notin failing})

-----------------------------------------------------------------------------
UnregisterProfiles(entries, failing) ==
  IF {<<"remove", "profiles">>, <<"remove", "profile">>} \cap failing # {}
  THEN entries ELSE entries \ {"profile"}

UnregisterCategories(entries, failing) ==
  IF <<"remove", "categories">> \in failing THEN entries
  ELSE {e \in entries : e \in CategorySet => <<"remove", e>> \in failing}

\* What keeps the subkey: a key that cannot be opened counts as gone.
SubkeyHolds == {<<"open", "key">>, <<"list", "key">>, <<"open", "inproc">>, <<"remove", "inproc">>}

\* The subkey goes first, with its values; the key only when it is gone.
RecurseDeleteKey(entries, failing) ==
  LET subkey == {"inproc", "file", "model"}
  IN IF <<"open", "key">> \in failing \/ ("inproc" \in entries /\ SubkeyHolds \cap failing # {})
     THEN entries
     ELSE IF <<"remove", "key">> \in failing THEN entries \ subkey
     ELSE entries \ (subkey \union {"key", "description"})

\* The subkey is listed first again and again, and again counts as gone.
GoesRound(entries, failing) ==
  /\ "inproc" \in entries /\ <<"open", "inproc">> \in failing
  /\ {<<"open", "key">>, <<"list", "key">>} \cap failing = {}

DllUnregisterServer(entries, failing) ==
  RecurseDeleteKey(
    UnregisterCategories(UnregisterProfiles(entries, failing), failing), failing)

\* Mutant: a failure is answered, and what was entered is left.
RegisterHalf(entries, failing) ==
  LET server   == RegisterServer(entries, failing)
      profiles == RegisterProfiles(server.entries, failing)
      all      == RegisterCategories(profiles.entries, failing)
  IN IF ~server.done THEN server ELSE IF ~profiles.done THEN profiles ELSE all

\* The first part that fails ends it, and everything is taken out again.
DllRegisterServer(entries, failing) ==
  LET server   == RegisterServer(entries, failing)
      profiles == RegisterProfiles(server.entries, failing)
      all      == RegisterCategories(profiles.entries, failing)
      Undo(part) == Outcome(FALSE, DllUnregisterServer(part.entries, failing))
  IN IF ~server.done THEN Undo(server)
     ELSE IF ~profiles.done THEN Undo(profiles)
     ELSE IF ~all.done THEN Undo(all)
     ELSE all

-----------------------------------------------------------------------------
VARIABLE registry    \* the entries, and how the last call of the two went

RegistrationInit ==
  registry = [entries |-> {}, op |-> "none", done |-> TRUE, returned |-> TRUE, failing |-> {}]

Unregister(failing) ==
  registry' = [entries  |-> DllUnregisterServer(registry.entries, failing), op |-> "remove",
               done     |-> TRUE,
               returned |-> ~ GoesRound(registry.entries, failing), failing |-> failing]

\* Also over what an earlier registration or removal has left: a repair. A
\* removal leaves what it goes round on.
Register(failing) ==
  LET r == DllRegisterServer(registry.entries, failing)
  IN registry' = [entries  |-> r.entries, op |-> "add", done |-> r.done,
                  returned |-> r.done \/ ~ GoesRound(r.entries, failing), failing |-> failing]

\* One that does not return is ended from outside, and another may follow.
RegistrationStep == \E failing \in Refusals : Register(failing) \/ Unregister(failing)

NoRegistration == UNCHANGED registry

RegistrationTypeOK ==
  registry.entries \subseteq AllEntries /\ registry.failing \subseteq SystemCalls

-----------------------------------------------------------------------------
\* What a call of a removal leaves in the registry when it fails.
Left(call) ==
  IF call[1] = "add" THEN {}
  ELSE IF call \in SubkeyHolds THEN ServerEntries
  ELSE IF call = <<"remove", "key">> THEN {"key", "description"}
  ELSE IF call[2] \in {"profile", "profiles"} THEN {"profile"}
  ELSE IF call[2] = "categories" THEN CategorySet
  ELSE {call[2]}

(* Whichever calls fail, a registration that fails leaves nothing behind   *)
(* but what could not be removed, and neither does a removal, also of what *)
(* earlier calls that failed in other places have left; a registration     *)
(* that succeeds has entered everything, except categories before the      *)
(* last; and each returns, unless there is a subkey that cannot be opened. *)
RegistrationIsWhole ==
  /\ IF registry.op = "add" /\ registry.done
     THEN AllEntries \ registry.entries \subseteq CategorySet \ {LastCategory}
     ELSE registry.entries \subseteq UNION {Left(call) : call \in registry.failing}
  /\ \/ registry.returned
     \/ "inproc" \in registry.entries /\ <<"open", "inproc">> \in registry.failing
=============================================================================
