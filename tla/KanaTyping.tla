------------------------------ MODULE KanaTyping -----------------------------
(***************************************************************************)
(* The keystroke buffer of the composition as the user fills it and takes  *)
(* from it (CompositionProcessorEngine.cpp), against the converter given   *)
(* the whole word at once (RomajiKana).                                    *)
(***************************************************************************)
EXTENDS RomajiKana

CONSTANTS
  Strokes,      \* keystrokes that are tried
  MaxStrokes    \* bound: keystrokes from an empty buffer on

\* The keys that are taken are those of the keystroke table: A to Z and -.
ASSUME KanaAssumption == MaxStrokes \in Nat /\ \A ch \in Strokes : IsAccepted(ch)

VARIABLES
  buffer,       \* _keystrokeBuffer
  typed,        \* history: the keystrokes since it was empty
  straight      \* history: nothing of it was taken back

kanaVars == <<buffer, typed, straight>>

KanaInit == buffer = Buffer(<<>>, <<>>) /\ typed = <<>> /\ straight = TRUE

AddVirtualKey(ch) ==
  /\ Len(typed) < MaxStrokes
  /\ buffer' = BufferAfterKeystroke(buffer, ch)
  /\ typed' = Append(typed, ch)
  /\ UNCHANGED straight

(* Backspace; the last of it ends the composition.                         *)
RemoveVirtualKey ==
  /\ BufferLength(buffer) > 1
  /\ buffer' = BufferAfterBackspace(buffer)
  /\ straight' = FALSE
  /\ UNCHANGED typed

PurgeVirtualKey == buffer' = Buffer(<<>>, <<>>) /\ typed' = <<>> /\ straight' = TRUE

KanaNext == RemoveVirtualKey \/ PurgeVirtualKey \/ \E ch \in Strokes : AddVirtualKey(ch)

NoKana == UNCHANGED kanaVars

KanaSpec == KanaInit /\ [][KanaNext]_kanaVars

-----------------------------------------------------------------------------
KanaTypeOK ==
  /\ buffer.tail \in Seq(Strokes) /\ typed \in Seq(Strokes)
  /\ BufferLength(buffer) <= Len(typed)
  /\ straight \in BOOLEAN

(* The user sees what the converter makes of what was typed: "someone      *)
(* typing `sannin` means ..., and consuming both here would give ..."      *)
(* (RomajiKana.cpp:191).                                                   *)
TypedAsWhole == straight => BufferDisplay(buffer) = RomajiToDisplay(typed)

Within(part, whole) ==
  \E i \in DOMAIN whole : Strings!IsPrefix(part, SubSeq(whole, i, Len(whole)))

(* Typing a word, where each keystroke is settled before the next is seen, *)
(* shows what converting the word whole shows, but for two cases: nn       *)
(* before a vowel or y, and a letter of no rule, doubled.                  *)
TypedAsWholeOtherwise ==
  \/ \E ch \in Vowels \union {"y"} : Within(<<"n", "n", ch>>, typed)
  \/ Within(<<"q", "q">>, typed)
  \/ TypedAsWhole

(* Backspace takes one character off what is shown, whatever keystrokes    *)
(* made it (RomajiKana.h:100: "one character of the buffer *is* one        *)
(* character on screen").                                                  *)
BackspaceIsOneCharacter ==
  BufferLength(buffer) > 0 =>
    BufferLength(BufferDisplay(BufferAfterBackspace(buffer)))
      = BufferLength(BufferDisplay(buffer)) - 1

(* The reading that is converted is what is shown, without the letters     *)
(* that are still in the middle of a syllable.                             *)
ReadingIsShown == BufferReading(buffer) = BufferDisplay(buffer).kana

(* The buffer, which keeps kana and forgets the keystrokes, spells what    *)
(* was typed, is taken back as it is seen, and is read as it is shown.     *)
BufferSpells == TypedAsWholeOtherwise /\ BackspaceIsOneCharacter /\ ReadingIsShown
=============================================================================
