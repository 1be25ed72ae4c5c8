------------------------------ MODULE RomajiKana -----------------------------
(***************************************************************************)
(* Romaji to kana (RomajiKana.cpp): the table, the conversion of a whole   *)
(* word, and the buffer that is converted a keystroke at a time.           *)
(*                                                                         *)
(* A keystroke is a letter or a mark; upper case, which is folded, is left *)
(* out.  A kana is a tuple: <<"k", "a">> is ka, <<"xy", "a">> the small    *)
(* ya, <<"x", "a">> the small a.  A buffer is kana, then the keystrokes    *)
(* that are not kana yet.                                                  *)
(***************************************************************************)
EXTENDS Naturals, Sequences
Strings == INSTANCE SequencesExt

Vowels == {"a", "i", "u", "e", "o"}
KanaMarks  == {"-", ",", ".", "/", "[", "]"}
Plain  == {"k", "g", "s", "z", "t", "d", "n", "h", "b", "p", "m", "r"}

N      == <<"n", "n">>
Sokuon == <<"x", "tu">>

\* The second half of a syllable like kya, or kyi.
Small(v) == IF v \in {"a", "u", "o"} THEN <<"xy", v>> ELSE <<"x", v>>

\* What the letters before the vowel say: the first kana, and what follows.
Family(onset, row, vowels) ==
  {<<onset \o <<v>>, <<<<row, "i">>, Small(v)>>>> : v \in vowels}

OneKana(onset, row, vowels) == {<<onset \o <<v>>, <<<<row, v>>>>>> : v \in vowels}

\* A kana that ends in u, with a small vowel.
Foreign(onset, first, vowels) ==
  {<<onset \o <<v>>, <<first, <<"x", v>>>>>> : v \in vowels}

Rules ==
  (UNION {OneKana(<<c>>, c, Vowels) \union Family(<<c, "y">>, c, Vowels) : c \in Plain})
  \union Family(<<"s", "h">>, "s", Vowels \ {"i"}) \union OneKana(<<"s", "h">>, "s", {"i"})
  \union Family(<<"c", "h">>, "t", Vowels \ {"i"}) \union OneKana(<<"c", "h">>, "t", {"i"})
  \union Family(<<"j">>, "z", Vowels \ {"i"}) \union OneKana(<<"j">>, "z", {"i"})
  \union Family(<<"j", "y">>, "z", Vowels) \union Family(<<"c", "y">>, "t", Vowels)
  \union OneKana(<<"t", "s">>, "t", {"u"})
  \union Foreign(<<"f">>, <<"h", "u">>, Vowels \ {"u"}) \union OneKana(<<"f">>, "h", {"u"})
  \union Foreign(<<"v">>, <<"v", "u">>, Vowels \ {"u"}) \union OneKana(<<"v">>, "v", {"u"})
  \union {<<<<"f", "y", v>>, <<<<"h", "u">>, <<"xy", v>>>>>> : v \in {"a", "u", "o"}}
  \union {<<<<"v", "y", v>>, <<<<"v", "u">>, <<"xy", v>>>>>> : v \in {"a", "u", "o"}}
  \union OneKana(<<"y">>, "y", {"a", "u", "o"}) \union Foreign(<<"y">>, <<"", "i">>, {"e"})
  \union OneKana(<<"w">>, "w", {"a", "o"}) \union Foreign(<<"w">>, <<"", "u">>, {"i", "e"})
  \union {<<<<"y", "i">>, <<<<"", "i">>>>>>, <<<<"w", "u">>, <<<<"", "u">>>>>>}
  \union OneKana(<<>>, "", Vowels)
  \union (UNION {OneKana(<<c>>, "x", Vowels) \union OneKana(<<c, "y">>, "xy", {"a", "u", "o"})
                 \union {<<<<c, "t", "s", "u">>, <<Sokuon>>>>, <<<<c, "t", "u">>, <<Sokuon>>>>,
                         <<<<c, "w", "a">>, <<<<"x", "wa">>>>>>} : c \in {"x", "l"}})
  \union {<<<<m>>, <<<<m>>>>>> : m \in KanaMarks}

Romaji == {rule[1] : rule \in Rules}
Lookup == [romaji \in Romaji |-> (CHOOSE rule \in Rules : rule[1] = romaji)[2]]

kMaxRuleLength == 4

RuleLetters == {"q"} \union UNION {{romaji[i] : i \in DOMAIN romaji} : romaji \in Romaji}

IsAccepted(ch) == ch \in RuleLetters \/ ch = "'"

DoublesToSokuon(ch) == ch \in RuleLetters \ (Vowels \union KanaMarks \union {"n"})

\* What could still grow into a rule.
IsPrefixOfRule(romaji) ==
  \E rule \in Romaji : Len(rule) > Len(romaji) /\ Strings!IsPrefix(romaji, rule)

-----------------------------------------------------------------------------
(* The kana at the head of the romaji, and the letters it uses up.         *)
Syllable(kana, used) == [kana |-> kana, used |-> used]

\* An n followed by this may still be na, or nya.
Continues(w, i) == i <= Len(w) /\ w[i] \in Vowels \union {"y"}

(* One turn of Rebuild's loop: n, a doubled consonant, the longest rule,   *)
(* and else nothing, which is kept if it may become a rule.                *)
FirstSyllable(w) ==
  LET matches == {n \in 1..kMaxRuleLength : n <= Len(w) /\ SubSeq(w, 1, n) \in Romaji}
  IN IF Len(w) > 1 /\ w[1] = "n" /\ ~Continues(w, 2)
     THEN Syllable(<<N>>, IF w[2] = "'" \/ (w[2] = "n" /\ ~Continues(w, 3)) THEN 2 ELSE 1)
     ELSE IF Len(w) > 1 /\ w[1] = w[2] /\ DoublesToSokuon(w[1]) THEN Syllable(<<Sokuon>>, 1)
     ELSE IF matches # {}
     THEN LET n == CHOOSE n \in matches : \A m \in matches : m <= n
          IN Syllable(Lookup[SubSeq(w, 1, n)], n)
     ELSE Syllable(<<>>, IF IsPrefixOfRule(w) THEN 0 ELSE 1)

Buffer(kana, tail) == [kana |-> kana, tail |-> tail]

(* Rebuild: from the left; what is pending ends it.                        *)
Rebuild(romaji) ==
  LET size    == Len(romaji)
      from(n) == SubSeq(romaji, size - n + 1, size)
      last[n \in 0..size] ==    \* of the last n letters
        IF n = 0 THEN Buffer(<<>>, <<>>)
        ELSE LET head == FirstSyllable(from(n))
             IN IF head.used = 0 THEN Buffer(<<>>, from(n))
                ELSE [last[n - head.used] EXCEPT !.kana = head.kana \o @]
  IN last[size]

\* What is not accepted is passed over.
Accepted(romaji) ==
  LET of[n \in 0..Len(romaji)] ==    \* of the first n letters
        IF n = 0 THEN <<>>
        ELSE IF IsAccepted(romaji[n]) THEN Append(of[n - 1], romaji[n]) ELSE of[n - 1]
  IN of[Len(romaji)]

Feed(romaji) == Rebuild(Accepted(romaji))

WithLastN(b) == IF b.tail = <<"n">> THEN Buffer(b.kana \o <<N>>, <<>>) ELSE b

RomajiToDisplay(romaji) == WithLastN(Feed(romaji))
RomajiToKana(romaji)    == WithLastN(Feed(romaji)).kana

-----------------------------------------------------------------------------
(* The buffer of the composition.                                          *)

\* Mutant: the keystroke is converted alone.
BufferAfterKeystrokeAlone(b, ch) ==
  LET r == Rebuild(<<ch>>) IN Buffer(b.kana \o r.kana, b.tail \o r.tail)

\* Mutant: the buffer holds what was typed.
BufferAfterKeystrokeRaw(b, ch) == Buffer(<<>>, Append(b.tail, ch))

(* The unresolved tail is converted again with the keystroke; one that is  *)
(* not accepted, or an earlier one in the tail, leaves it all as it came.  *)
BufferAfterKeystroke(b, ch) ==
  LET tail == Append(b.tail, ch)
      r    == Rebuild(tail)
  IN IF \A i \in DOMAIN tail : IsAccepted(tail[i])
     THEN Buffer(b.kana \o r.kana, r.tail)
     ELSE Buffer(b.kana, tail)

\* RemoveVirtualKey of the last, which is what Backspace does.
BufferAfterBackspace(b) ==
  IF b.tail # <<>> THEN Buffer(b.kana, Strings!Front(b.tail)) ELSE Buffer(Strings!Front(b.kana), <<>>)

BufferDisplay(b) ==
  LET tail == RomajiToDisplay(b.tail) IN Buffer(b.kana \o tail.kana, tail.tail)

\* Mutant: a last n is left out.
BufferReadingKana(b) == b.kana \o Feed(b.tail).kana

BufferReading(b) == b.kana \o RomajiToKana(b.tail)

BufferLength(b) == Len(b.kana) + Len(b.tail)
=============================================================================
