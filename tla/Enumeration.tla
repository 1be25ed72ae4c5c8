----------------------------- MODULE Enumeration -----------------------------
(***************************************************************************)
(* What the text service lets others go through: the candidates it answers *)
(* a search with (SearchCandidateProvider.cpp, TipCandidateList.cpp,       *)
(* EnumTfCandidates.cpp) and the attributes it displays text with          *)
(* (DisplayAttributeProvider.cpp, EnumDisplayAttributeInfo.cpp). Whoever   *)
(* asks gets an enumerator; it may fetch, skip, start over and clone.      *)
(*                                                                         *)
(* A candidate stands for its text, and is known by the place it has in    *)
(* the engine's answer, from 0.                                            *)
(***************************************************************************)
EXTENDS Integers, Sequences

CONSTANTS
  FakeCandidateNumber,   \* FAKECANDIDATENUMBER: the longest list answered
  MaxAnswer,             \* bound: candidates of the conversion engine
  MaxEnums,              \* bound: enumerators at a time
  MaxULong               \* the largest ULONG

ASSUME EnumerationAssumption ==
  FakeCandidateNumber \in Nat /\ MaxAnswer \in Nat /\ MaxEnums \in Nat /\ MaxULong \in Nat \ 0..2

VARIABLES
  strings,    \* the last list that was answered: [index, text] of each candidate
  enums       \* the enumerators, see EnumType

enumVars == <<strings, enums>>

MaxDisplayAttributeInfo == 2

Items == 0..(MaxAnswer + MaxDisplayAttributeInfo)

EnumType ==
  [of     : {"candidates", "attributes"},
   size   : Items,                          \* what there is: it has its own copy
   at     : Nat,                            \* _currentCandidateStrIndex, _index
   given  : SUBSET Items,                   \* history: handed to the caller,
   passed : SUBSET Items,                   \*   skipped,
   lost   : SUBSET Items]                   \*   or fetched and not handed over

Start(of, size) ==
  [of |-> of, size |-> size, at |-> 0, given |-> {}, passed |-> {}, lost |-> {}]

\* The items on the way from where an enumerator is.
Way(e, to) == e.at..(to - 1)

-----------------------------------------------------------------------------
(* The list.                                                               *)

Lesser(a, b) == IF a <= b THEN a ELSE b

\* Mutant: every candidate keeps the index it is created with.
AnswerUnnumbered(count) ==
  strings' = [i \in 1..Lesser(count, FakeCandidateNumber) |-> [index |-> 0, text |-> i - 1]]

\* GetSearchCandidates: the query is not looked at.
GetSearchCandidates(count) ==
  strings' = [i \in 1..Lesser(count, FakeCandidateNumber) |-> [index |-> i - 1, text |-> i - 1]]

\* The texts GetCandidate may answer with; the first that has the index is it.
GetCandidate(n) ==
  LET found == {i \in DOMAIN strings : strings[i].index = n}
      first == CHOOSE i \in found : \A j \in found : i <= j
  IN IF n < Len(strings) /\ found # {} THEN {strings[first].text} ELSE {}

-----------------------------------------------------------------------------
(* The enumerators: each operator is the enumerator after the call.        *)

(* CEnumTfCandidates has one place for all it fetches: of several the last *)
(* is handed over.                                                         *)
FetchCandidates(e, n) ==
  LET to == Lesser(e.at + n, e.size)
      handed == IF to > e.at THEN {to - 1} ELSE {}
  IN [e EXCEPT !.at = to, !.given = @ \union handed, !.lost = @ \union (Way(e, to) \ handed)]

FetchAttributes(e, n) ==
  LET to == Lesser(e.at + n, e.size)
  IN [e EXCEPT !.at = to, !.given = @ \union Way(e, to)]

SkipCandidates(e, n) ==
  LET to == Lesser(e.at + n, e.size) IN [e EXCEPT !.at = to, !.passed = @ \union Way(e, to)]

\* Mutant: a sum that does not fit is taken as it comes.
SkipUnchecked(e, n) ==
  LET sum == (n + e.at) % (MaxULong + 1)
      to == IF sum > MaxDisplayAttributeInfo THEN MaxDisplayAttributeInfo ELSE sum
  IN [e EXCEPT !.at = to, !.passed = @ \union Way(e, to)]

\* The sum is a ULONG, and may be less than what is added.
SkipAttributes(e, n) ==
  LET sum == (n + e.at) % (MaxULong + 1)
      to == IF sum > MaxDisplayAttributeInfo \/ sum < n THEN MaxDisplayAttributeInfo ELSE sum
  IN [e EXCEPT !.at = to, !.passed = @ \union Way(e, to)]

Fetch(e, n) == IF e.of = "candidates" THEN FetchCandidates(e, n) ELSE FetchAttributes(e, n)
SkipOver(e, n) == IF e.of = "candidates" THEN SkipCandidates(e, n) ELSE SkipAttributes(e, n)
Reset(e) == Start(e.of, e.size)

Add(e) == Len(enums) < MaxEnums /\ enums' = Append(enums, e)

EnumCandidates == Add(Start("candidates", Len(strings)))
EnumDisplayAttributeInfo == Add(Start("attributes", MaxDisplayAttributeInfo))

\* A clone goes on where the enumerator is.
Clone(i) == Add(enums[i])

Use(i) ==
  \/ \E n \in 0..MaxDisplayAttributeInfo : enums' = [enums EXCEPT ![i] = Fetch(@, n)]
  \/ \E n \in 0..MaxDisplayAttributeInfo \union {MaxULong} :
       enums' = [enums EXCEPT ![i] = SkipOver(@, n)]
  \/ enums' = [enums EXCEPT ![i] = Reset(@)]

Forget(i) == enums' = [j \in 1..(Len(enums) - 1) |-> IF j < i THEN enums[j] ELSE enums[j + 1]]

NoEnum == UNCHANGED enumVars

EnumInit == strings = <<>> /\ enums = <<>>

EnumStep ==
  \/ \E count \in 0..MaxAnswer : GetSearchCandidates(count) /\ UNCHANGED enums
  \/ /\ \/ EnumCandidates \/ EnumDisplayAttributeInfo
        \/ \E i \in DOMAIN enums : Clone(i) \/ Use(i) \/ Forget(i)
     /\ UNCHANGED strings

-----------------------------------------------------------------------------
EnumTypeOK ==
  /\ strings \in Seq([index : Items, text : Items])
  /\ enums \in Seq(EnumType)

(* Whatever an enumerator and those it was cloned from were asked, each     *)
(* item up to where it is was handed over or skipped, once, and only        *)
(* candidates fetched several at a time are lost on the way.               *)
EachInTurn ==
  \A i \in DOMAIN enums :
    LET e == enums[i]
    IN /\ e.given \union e.passed \union e.lost = 0..(e.at - 1) /\ e.at <= e.size
       /\ e.given \cap e.passed = {} /\ e.lost \cap (e.given \union e.passed) = {}
       /\ e.lost # {} => e.of = "candidates"

(* GetCandidate, which goes by the index a candidate was given, and an     *)
(* enumerator, which goes by its place, find the same candidate.           *)
FoundByIndex == \A n \in 0..(Len(strings) - 1) : GetCandidate(n) = {strings[n + 1].text}

(* Candidates and attributes are given out in their order, each once, and  *)
(* found again.                                                            *)
ItemsAreFound == EachInTurn /\ FoundByIndex
=============================================================================
