------------------------------ MODULE Preedit -------------------------------
(***************************************************************************)
(* What a text service promises the person typing, without edit sessions,  *)
(* buffers or windows: a text under the caret, kana and then the letters   *)
(* that are not kana yet, that grows by what is typed and shrinks by what  *)
(* is taken back, candidates offered for its kana, and a document that     *)
(* receives it.  TextService implements it.                                *)
(***************************************************************************)
EXTENDS Integers, Sequences

CONSTANT KeyIds   \* what is typed: later keys are greater

VARIABLES
  preedit,     \* the characters in the composition, by the keys that made them
  choosing,    \* candidates are offered for its kana
  settled      \* the characters the document has received

vars == <<preedit, choosing, settled>>

Increasing(s) == \A i, j \in DOMAIN s : i < j => s[i] < s[j]

Shown(text) == text.kana \o text.letters

Nothing == [kana |-> <<>>, letters |-> <<>>]

Init == preedit = Nothing /\ choosing = FALSE /\ settled = <<>>

\* The rest of a text that keeps its kana: without letters, all but the last,
\* which may be an n that goes on.
Kept(text) == IF text.letters = <<>> THEN Len(text.kana) - 1 ELSE Len(text.kana)

\* What a key makes of the end of a text, of whose characters some may go.
Respelled(text, more, n) ==
  /\ Kept(text) <= Len(more.kana)
  /\ \A i \in 1..Kept(text) : more.kana[i] = text.kana[i]
  /\ \A i \in DOMAIN Shown(more) :
       Shown(more)[i] = n \/ \E j \in DOMAIN Shown(text) : Shown(more)[i] = Shown(text)[j]

\* What the document receives of the composition: all of it, or the choice.
Taken == {Shown(preedit)} \union (IF choosing THEN {preedit.kana} ELSE {})

\* A key spells on: it comes after everything typed before it.
Type(n) ==
  /\ Respelled(preedit, preedit', n)
  /\ Increasing(settled \o Shown(preedit'))
  /\ choosing' = FALSE
  /\ UNCHANGED settled

\* A key typed over the candidates takes the choice and starts anew.
TypeOver(n) ==
  /\ \E taken \in Taken : settled' = settled \o taken
  /\ Respelled(Nothing, preedit', n)
  /\ Increasing(settled' \o Shown(preedit'))
  /\ choosing' = FALSE

TakeBack ==
  /\ Shown(preedit) # <<>>
  /\ Shown(preedit') = SubSeq(Shown(preedit), 1, Len(Shown(preedit)) - 1)
  /\ choosing' = FALSE
  /\ UNCHANGED settled

Cancel == preedit' = Nothing /\ choosing' = FALSE /\ UNCHANGED settled

Offer ==
  /\ preedit.kana # <<>>
  /\ choosing' = TRUE
  /\ UNCHANGED <<preedit, settled>>

Settle ==
  /\ \E taken \in Taken : settled' = settled \o taken
  /\ preedit' = Nothing
  /\ choosing' = FALSE

Next == \/ \E n \in KeyIds : Type(n) \/ TypeOver(n)
        \/ TakeBack \/ Cancel \/ Offer \/ Settle

Spec == Init /\ [][Next]_vars
=============================================================================
