---------------------------- MODULE Kana_proofs -----------------------------
(***************************************************************************)
(* Theorems about KanaTyping, for any number of keystrokes: the keystroke  *)
(* buffer spells what was typed.                                           *)
(*                                                                         *)
(* Proofs about words of any length are by induction on a number that is   *)
(* taken from them (Induction), and what a recursive function is is known  *)
(* once there is a function that does what its definition says             *)
(* (Recursion); Wire_proofs rests on both as well.  No romaji of the table *)
(* goes on after another (NoneGoesOn): what the first letters of a word    *)
(* make, they make of the letters that follow them too (SyllableStays),    *)
(* and a word that is typed on is converted as the first part of it and    *)
(* then the rest (RebuildJoins).                                           *)
(***************************************************************************)
EXTENDS KanaTyping, FiniteSetTheorems, SequenceTheorems, TLAPS

-----------------------------------------------------------------------------
(* Recursion.                                                              *)

(* A set of numbers that is not empty has a least. *)
LEMMA Least ==
  ASSUME NEW S \in SUBSET Nat, S # {}
  PROVE  \E i \in S : \A j \in S : i <= j
<1>1. PICK top \in S : TRUE
  OBVIOUS
<1> DEFINE whole == 0..top
           R == StrictSubsetOrdering(whole)
           below(i) == {j \in 0..top : j < i}
           T == {below(i) : i \in {k \in S : k <= top}}
<1>2. IsFiniteSet(whole)
  BY FS_Interval
<1> HIDE DEF whole
<1>3. IsWellFoundedOn(R, SUBSET whole)
  <2>1. IsWellFoundedOn(R, FiniteSubsetsOf(whole))
    BY FS_StrictSubsetOrderingWellFounded
  <2>2. FiniteSubsetsOf(whole) = SUBSET whole
    BY <1>2, FS_FiniteSubsetsOfFinite
  <2> QED BY <2>1, <2>2
<1>4. T \subseteq SUBSET whole /\ T # {}
  <2>1. \A i \in S : below(i) \in SUBSET (0..top)
    OBVIOUS
  <2>2. below(top) \in T
    BY <1>1
  <2> QED BY <2>1, <2>2 DEF whole
<1> HIDE DEF R, T
<1>5. PICK x \in T : \A y \in T : <<y, x>> \notin R
  BY <1>3, <1>4, WFMin
<1>6. PICK i \in S : i <= top /\ x = below(i)
  BY <1>5 DEF T
<1>7. ASSUME NEW j \in S, j < i PROVE FALSE
  <2>1. below(j) \in T
    BY <1>6, <1>7, <1>1 DEF T
  <2>2. below(j) \subseteq below(i) /\ j \in below(i) /\ j \notin below(j)
    BY <1>6, <1>7, <1>1
  <2>3. <<below(j), x>> \in R
    BY <2>2, <1>6 DEF R, StrictSubsetOrdering, whole
  <2> QED BY <2>1, <2>3, <1>5
<1> QED BY <1>7, <1>1

(* What holds of an element when it holds of all that are smaller holds of *)
(* all.                                                                    *)
LEMMA Induction ==
  ASSUME NEW D, NEW size \in [D -> Nat], NEW T,
         \A d \in D : (\A e \in D : size[e] < size[d] => e \in T) => d \in T
  PROVE  D \subseteq T
<1> DEFINE Bad == {n \in Nat : \E d \in D : size[d] = n /\ d \notin T}
<1>1. CASE Bad = {}
  BY <1>1
<1>2. CASE Bad # {}
  <2>1. PICK n \in Bad : \A m \in Bad : n <= m
    BY <1>2, Least
  <2>2. PICK d \in D : size[d] = n /\ d \notin T
    BY <2>1
  <2>3. \A e \in D : size[e] < size[d] => e \in T
    BY <2>1, <2>2
  <2> QED BY <2>2, <2>3
<1> QED BY <1>1, <1>2

(* Of a function that, off the elements where it is given, makes a step    *)
(* from what it gives of a smaller one.                                    *)
At(f, d, stop, base, prev, step) == IF d \in stop THEN base[d] ELSE step[d][f[prev[d]]]

Descends(D, V, size, stop, base, prev, step) ==
  /\ V # {} /\ size \in [D -> Nat] /\ stop \in SUBSET D /\ base \in [D -> V]
  /\ prev \in [D -> D] /\ step \in [D -> [V -> V]]
  /\ \A d \in D \ stop : size[prev[d]] < size[d]

(* There is such a function. *)
LEMMA Recursion ==
  ASSUME NEW D, NEW V, NEW size, NEW stop, NEW base, NEW prev, NEW step,
         Descends(D, V, size, stop, base, prev, step)
  PROVE  \E f \in [D -> V] : \A d \in D : f[d] = At(f, d, stop, base, prev, step)
<1> USE DEF Descends
<1> DEFINE Of(f, d) == IF d \in stop THEN base[d] ELSE step[d][f[prev[d]]]
           Good(f, n) == \A d \in D : size[d] < n => f[d] = Of(f, d)
           Bound == {n \in Nat : \E f \in [D -> V] : Good(f, n)}
<1>1. \A f \in [D -> V] : [d \in D |-> Of(f, d)] \in [D -> V]
  OBVIOUS
<1>2. ASSUME NEW f \in [D -> V], NEW g \in [D -> V], NEW n \in Nat, NEW m \in Nat, m <= n,
             Good(f, n), Good(g, m)
      PROVE  \A d \in D : size[d] < m => f[d] = g[d]
  <2> DEFINE T == {d \in D : size[d] < m => f[d] = g[d]}
  <2>1. ASSUME NEW d \in D, \A e \in D : size[e] < size[d] => e \in T PROVE d \in T
    <3>1. CASE size[d] < m
      <4>1. f[d] = Of(f, d) /\ g[d] = Of(g, d)
        BY <3>1, <1>2
      <4>2. CASE d \in stop
        BY <4>1, <4>2
      <4>3. CASE d \notin stop
        <5>1. prev[d] \in D /\ size[prev[d]] < size[d]
          BY <4>3
        <5>2. f[prev[d]] = g[prev[d]]
          BY <5>1, <2>1, <3>1
        <5> QED BY <5>2, <4>1, <4>3
      <4> QED BY <4>2, <4>3
    <3>2. CASE ~(size[d] < m)
      BY <3>2
    <3> QED BY <3>1, <3>2
  <2> HIDE DEF T
  <2>2. D \subseteq T
    BY <2>1, Induction
  <2> QED BY <2>2 DEF T
<1>3. ASSUME NEW n \in Nat, \A m \in Nat : m < n => m \in Bound PROVE n \in Bound
  <2>1. CASE n = 0
    <3>1. PICK v \in V : TRUE
      OBVIOUS
    <3>2. [d \in D |-> v] \in [D -> V] /\ Good([d \in D |-> v], 0)
      OBVIOUS
    <3> QED BY <3>2, <2>1
  <2>2. CASE n # 0
    <3>0. n - 1 \in Bound
      <4>1. n - 1 \in Nat /\ n - 1 < n
        BY <2>2
      <4> HIDE DEF Bound
      <4> QED BY <4>1, <1>3
    <3>1. PICK f \in [D -> V] : Good(f, n - 1)
      BY <3>0
    <3> DEFINE g == [d \in D |-> Of(f, d)]
    <3>2. g \in [D -> V]
      BY <1>1
    <3>3. ASSUME NEW d \in D, size[d] < n PROVE g[d] = Of(g, d)
      <4>1. CASE d \in stop
        BY <4>1
      <4>2. CASE d \notin stop
        <5>1. prev[d] \in D /\ size[prev[d]] < n - 1
          BY <4>2, <3>3, <2>2
        <5>2. g[prev[d]] = f[prev[d]]
          BY <5>1, <3>1
        <5> QED BY <5>2, <4>2
      <4> QED BY <4>1, <4>2
    <3> HIDE DEF g
    <3> QED BY <3>2, <3>3
  <2> QED BY <2>1, <2>2
<1>4. Nat \subseteq Bound
  <2> DEFINE same == [n \in Nat |-> n]
  <2>1. same \in [Nat -> Nat] /\ \A n \in Nat : same[n] = n
    OBVIOUS
  <2> DEFINE numbers == Nat
  <2> HIDE DEF same, Bound
  <2>2. \A n \in numbers : (\A m \in numbers : same[m] < same[n] => m \in Bound) => n \in Bound
    BY <2>1, <1>3
  <2>3. same \in [numbers -> Nat]
    BY <2>1
  <2> HIDE DEF numbers
  <2>4. numbers \subseteq Bound
    BY <2>2, <2>3, Induction
  <2> QED BY <2>4 DEF numbers
<1> DEFINE part(n) == CHOOSE f \in [D -> V] : Good(f, n)
           whole == [d \in D |-> part(size[d] + 1)[d]]
<1>5. \A n \in Nat : part(n) \in [D -> V] /\ Good(part(n), n)
  <2> TAKE n \in Nat
  <2>1. \E f \in [D -> V] : Good(f, n)
    BY <1>4
  <2> HIDE DEF Good
  <2> QED BY <2>1
<1> HIDE DEF part
<1>6. whole \in [D -> V]
  BY <1>5
<1>7. ASSUME NEW d \in D PROVE whole[d] = Of(whole, d)
  <2> DEFINE f == part(size[d] + 1)
  <2>1. f \in [D -> V] /\ Good(f, size[d] + 1)
    BY <1>5
  <2>2. f[d] = Of(f, d) /\ whole[d] = f[d]
    BY <2>1
  <2>3. CASE d \in stop
    BY <2>2, <2>3
  <2>4. CASE d \notin stop
    <3> DEFINE e == prev[d]
               g == part(size[e] + 1)
    <3>1. e \in D /\ size[e] \in Nat /\ size[d] \in Nat /\ size[e] + 1 <= size[d] + 1
          /\ size[e] < size[e] + 1
      BY <2>4
    <3>2. g \in [D -> V] /\ Good(g, size[e] + 1)
      BY <1>5, <3>1
    <3>3. f[e] = g[e]
      <4> HIDE DEF f, g, e, Good
      <4>1. \A b \in D : size[b] < size[e] + 1 => f[b] = g[b]
        <5>1. size[d] + 1 \in Nat /\ size[e] + 1 \in Nat
          BY <3>1
        <5> QED BY SMTT(40), <5>1, <3>1, <3>2, <2>1, <1>2
      <4> QED BY <4>1, <3>1
    <3>4. whole[e] = g[e]
      BY <3>1
    <3> QED BY <2>2, <2>4, <3>3, <3>4
  <2> QED BY <2>3, <2>4
<1> HIDE DEF whole
<1> QED BY <1>6, <1>7 DEF At

-----------------------------------------------------------------------------
(* The keystroke buffer (RomajiKana, KanaTyping): it never holds more than *)
(* was typed.                                                              *)

\* What the romaji and the kana of the rules are written with.
Letters ==
  Vowels \union Plain \union KanaMarks
    \union {"", "c", "f", "j", "l", "tu", "v", "w", "wa", "x", "xy", "y"}

Kanas == Seq(Letters)

\* A romaji ends at its vowel, or is a mark.
Ends  == Vowels \union KanaMarks
Heads == Plain \union {"c", "f", "j", "l", "v", "w", "x", "y"}

LEMMA LettersAre ==
  /\ Vowels \in SUBSET Letters /\ Plain \in SUBSET Letters /\ KanaMarks \in SUBSET Letters
  /\ "a" \in Letters /\ "i" \in Letters /\ "u" \in Letters /\ "h" \in Letters
  /\ "n" \in Letters /\ "s" \in Letters /\ "t" \in Letters /\ "z" \in Letters
  /\ "" \in Letters /\ "c" \in Letters /\ "f" \in Letters /\ "j" \in Letters /\ "l" \in Letters
  /\ "tu" \in Letters /\ "v" \in Letters /\ "w" \in Letters /\ "wa" \in Letters
  /\ "x" \in Letters /\ "xy" \in Letters /\ "y" \in Letters
BY DEF Vowels, Plain, KanaMarks, Letters

LEMMA HeadsAndEnds ==
  /\ Vowels \in SUBSET Vowels /\ Vowels \ {"i"} \in SUBSET Vowels /\ Vowels \ {"u"} \in SUBSET Vowels
  /\ {"i"} \in SUBSET Vowels /\ {"u"} \in SUBSET Vowels /\ {"a", "u", "o"} \in SUBSET Vowels
  /\ {"a", "o"} \in SUBSET Vowels /\ {"i", "e"} \in SUBSET Vowels /\ {"e"} \in SUBSET Vowels
  /\ Vowels \in SUBSET Ends /\ KanaMarks \in SUBSET Ends /\ Plain \in SUBSET Heads
  /\ "a" \in Ends /\ "i" \in Ends /\ "u" \in Ends /\ "h" \in Heads /\ "s" \in Heads /\ "t" \in Heads
  /\ "c" \in Heads /\ "f" \in Heads /\ "j" \in Heads /\ "l" \in Heads /\ "v" \in Heads /\ "w" \in Heads
  /\ "x" \in Heads /\ "y" \in Heads /\ \A c \in Heads : c \notin Ends
BY DEF Vowels, Plain, KanaMarks, Heads, Ends

Spelt(romaji) ==
  /\ romaji \in Seq(Heads \union Ends) /\ Len(romaji) > 0
  /\ \A i \in 1..Len(romaji) : romaji[i] \in Ends <=> i = Len(romaji)

LEMMA JoinIsSpelt == ASSUME NEW onset \in Seq(Heads), NEW v \in Ends PROVE Spelt(onset \o <<v>>)
<1> DEFINE s == onset \o <<v>>
<1>1. <<v>> \in Seq(Heads \union Ends) /\ Len(<<v>>) = 1 /\ onset \in Seq(Heads \union Ends)
  OBVIOUS
<1>2. s \in Seq(Heads \union Ends) /\ Len(s) = Len(onset) + 1 /\ Len(onset) \in Nat
  BY <1>1
<1>3. s[Len(onset) + 1] = v /\ \A i \in 1..Len(onset) : s[i] = onset[i] /\ onset[i] \in Heads
  BY <1>1
<1> HIDE DEF s
<1>4. \A c \in Heads : c \notin Ends
  BY HeadsAndEnds
<1>5. Spelt(s)
  BY <1>2, <1>3, <1>4 DEF Spelt
<1> QED BY <1>5 DEF s

(* A rule makes no more kana than it uses letters, and is spelt with a     *)
(* vowel or a mark at its end and nowhere else.                            *)
Neat(rule) == rule[2] \in Seq(Kanas) /\ Len(rule[2]) <= Len(rule[1]) /\ Spelt(rule[1])

LEMMA OneIsNeat ==
  ASSUME NEW onset \in Seq(Heads), NEW row \in Letters, NEW vowels \in SUBSET Vowels,
         NEW rule \in OneKana(onset, row, vowels)
  PROVE  Neat(rule)
<1>1. PICK v \in vowels : rule = <<onset \o <<v>>, <<<<row, v>>>>>>
  BY DEF OneKana
<1>v. v \in Letters /\ v \in Ends
  BY LettersAre, HeadsAndEnds
<1>s. Spelt(onset \o <<v>>)
  BY <1>v, JoinIsSpelt
<1>2. <<v>> \in Seq(Letters) /\ Len(<<v>>) = 1 /\ Len(onset) \in Nat
  BY <1>v
<1>3. Len(onset \o <<v>>) = Len(onset) + 1
  BY <1>2
<1>4. <<row, v>> \in Kanas
  BY <1>v DEF Kanas
<1>5. <<<<row, v>>>> \in Seq(Kanas) /\ Len(<<<<row, v>>>>) = 1
  BY <1>4
<1>6. rule[1] = onset \o <<v>> /\ rule[2] = <<<<row, v>>>>
  BY <1>1
<1> QED BY <1>2, <1>3, <1>5, <1>6, <1>s DEF Neat

LEMMA TwoIsNeat ==
  ASSUME NEW onset \in Seq(Heads), onset # <<>>, NEW v \in Vowels, NEW a \in Kanas, NEW b \in Kanas
  PROVE  Neat(<<onset \o <<v>>, <<a, b>>>>)
<1>s. Spelt(onset \o <<v>>)
  BY HeadsAndEnds, JoinIsSpelt
<1>1. <<v>> \in Seq(Vowels) /\ Len(<<v>>) = 1 /\ Len(onset) \in Nat /\ Len(onset) # 0
  OBVIOUS
<1>2. Len(onset \o <<v>>) = Len(onset) + 1
  BY <1>1
<1>3. <<a, b>> \in Seq(Kanas) /\ Len(<<a, b>>) = 2
  OBVIOUS
<1> QED BY <1>1, <1>2, <1>3, <1>s DEF Neat

LEMMA PairsAreNeat ==
  ASSUME NEW onset \in Seq(Heads), onset # <<>>, NEW vowels \in SUBSET Vowels
  PROVE  /\ \A row \in Letters : \A rule \in Family(onset, row, vowels) : Neat(rule)
         /\ \A first \in Kanas : \A rule \in Foreign(onset, first, vowels) : Neat(rule)
<1>1. ASSUME NEW row \in Letters, NEW v \in vowels
      PROVE  Neat(<<onset \o <<v>>, <<<<row, "i">>, Small(v)>>>>)
  <2>1. v \in Vowels /\ v \in Letters /\ "i" \in Letters /\ "x" \in Letters /\ "xy" \in Letters
    BY LettersAre
  <2>2. <<row, "i">> \in Kanas /\ <<"xy", v>> \in Kanas /\ <<"x", v>> \in Kanas
    BY <2>1 DEF Kanas
  <2>3. Small(v) \in {<<"xy", v>>, <<"x", v>>}
    BY DEF Small
  <2>4. Small(v) \in Kanas
    BY <2>2, <2>3
  <2> QED BY <2>1, <2>2, <2>4, TwoIsNeat
<1>2. ASSUME NEW first \in Kanas, NEW v \in vowels
      PROVE  Neat(<<onset \o <<v>>, <<first, <<"x", v>>>>>>)
  <2>1. v \in Vowels /\ v \in Letters /\ "x" \in Letters
    BY LettersAre
  <2>2. <<"x", v>> \in Kanas
    BY <2>1 DEF Kanas
  <2> QED BY <2>1, <2>2, TwoIsNeat
<1> QED BY <1>1, <1>2 DEF Family, Foreign

\* The rules that are none of a family.
LEMMA OddAreNeat ==
  /\ \A m \in KanaMarks : Neat(<<<<m>>, <<<<m>>>>>>)
  /\ \A c \in Heads, v \in Ends : \A a \in Kanas : Neat(<<<<c, v>>, <<a>>>>)
  /\ \A c, d \in Heads, v \in Ends : \A a \in Kanas : Neat(<<<<c, d, v>>, <<a>>>>)
  /\ \A c, d, e \in Heads, v \in Ends : \A a \in Kanas : Neat(<<<<c, d, e, v>>, <<a>>>>)
  /\ \A c, d \in Heads, v \in Ends : \A a, b \in Kanas : Neat(<<<<c, d, v>>, <<a, b>>>>)
<1>1. \A a \in Kanas : <<a>> \in Seq(Kanas) /\ Len(<<a>>) = 1
  OBVIOUS
<1>2. \A a, b \in Kanas : <<a, b>> \in Seq(Kanas) /\ Len(<<a, b>>) = 2
  OBVIOUS
<1>m. \A m \in KanaMarks : m \in Letters /\ m \in Ends
  BY Zenon, LettersAre, HeadsAndEnds
<1>3. \A m \in KanaMarks : <<m>> \in Kanas /\ m \in Ends
  BY <1>m DEF Kanas
<1>4. \A c \in Heads : c \notin Ends
  BY HeadsAndEnds
<1>5. \A v \in Ends : Spelt(<<v>>)
  BY DEF Spelt
<1>6. \A c \in Heads, v \in Ends : Spelt(<<c, v>>)
  BY <1>4 DEF Spelt
<1>7. \A c, d \in Heads, v \in Ends : Spelt(<<c, d, v>>)
  BY <1>4 DEF Spelt
<1>8. \A c, d, e \in Heads, v \in Ends : Spelt(<<c, d, e, v>>)
  BY <1>4 DEF Spelt
<1> QED BY <1>1, <1>2, <1>3, <1>5, <1>6, <1>7, <1>8 DEF Neat

LEMMA RulesAreNeat == ASSUME NEW rule \in Rules PROVE Neat(rule)
<1> DEFINE Own  == UNION {OneKana(<<c>>, c, Vowels) \union Family(<<c, "y">>, c, Vowels) : c \in Plain}
           Sh   == Family(<<"s", "h">>, "s", Vowels \ {"i"})
           Shi  == OneKana(<<"s", "h">>, "s", {"i"})
           Ch   == Family(<<"c", "h">>, "t", Vowels \ {"i"})
           Chi  == OneKana(<<"c", "h">>, "t", {"i"})
           J    == Family(<<"j">>, "z", Vowels \ {"i"})
           Ji   == OneKana(<<"j">>, "z", {"i"})
           Jy   == Family(<<"j", "y">>, "z", Vowels)
           Cy   == Family(<<"c", "y">>, "t", Vowels)
           Tsu  == OneKana(<<"t", "s">>, "t", {"u"})
           F    == Foreign(<<"f">>, <<"h", "u">>, Vowels \ {"u"})
           Fu   == OneKana(<<"f">>, "h", {"u"})
           V    == Foreign(<<"v">>, <<"v", "u">>, Vowels \ {"u"})
           Vu   == OneKana(<<"v">>, "v", {"u"})
           Fy   == {<<<<"f", "y", v>>, <<<<"h", "u">>, <<"xy", v>>>>>> : v \in {"a", "u", "o"}}
           Vy   == {<<<<"v", "y", v>>, <<<<"v", "u">>, <<"xy", v>>>>>> : v \in {"a", "u", "o"}}
           Y    == OneKana(<<"y">>, "y", {"a", "u", "o"})
           Ye   == Foreign(<<"y">>, <<"", "i">>, {"e"})
           W    == OneKana(<<"w">>, "w", {"a", "o"})
           Wi   == Foreign(<<"w">>, <<"", "u">>, {"i", "e"})
           Yi   == {<<<<"y", "i">>, <<<<"", "i">>>>>>, <<<<"w", "u">>, <<<<"", "u">>>>>>}
           Bare == OneKana(<<>>, "", Vowels)
           Few  == UNION {OneKana(<<c>>, "x", Vowels) \union OneKana(<<c, "y">>, "xy", {"a", "u", "o"})
                     \union {<<<<c, "t", "s", "u">>, <<Sokuon>>>>, <<<<c, "t", "u">>, <<Sokuon>>>>,
                             <<<<c, "w", "a">>, <<<<"x", "wa">>>>>>} : c \in {"x", "l"}}
           Signs == {<<<<m>>, <<<<m>>>>>> : m \in KanaMarks}
<1>0. \/ rule \in Own
      \/ rule \in Sh \/ rule \in Ch \/ rule \in J \/ rule \in Jy \/ rule \in Cy
      \/ rule \in Shi \/ rule \in Chi \/ rule \in Ji \/ rule \in Tsu \/ rule \in Fu \/ rule \in Vu
      \/ rule \in Y \/ rule \in W
      \/ rule \in F \/ rule \in V \/ rule \in Ye \/ rule \in Wi
      \/ rule \in Fy \/ rule \in Vy \/ rule \in Yi \/ rule \in Bare \/ rule \in Few \/ rule \in Signs
  <2>1. Rules = Own \union Sh \union Shi \union Ch \union Chi \union J \union Ji \union Jy \union Cy
                \union Tsu \union F \union Fu \union V \union Vu \union Fy \union Vy \union Y \union Ye
                \union W \union Wi \union Yi \union Bare \union Few \union Signs
    BY DEF Rules
  <2> HIDE DEF Own, Sh, Shi, Ch, Chi, J, Ji, Jy, Cy, Tsu, F, Fu, V, Vu, Fy, Vy, Y, Ye, W, Wi, Yi, Bare,
               Few, Signs
  <2> QED BY <2>1
<1>b. \A a, b \in Letters : <<a, b>> \in Kanas
  BY DEF Kanas
<1>h. \A a, b \in Heads : /\ <<a>> \in Seq(Heads) /\ <<a>> # <<>>
                         /\ <<a, b>> \in Seq(Heads) /\ <<a, b>> # <<>>
  OBVIOUS
<1>1. CASE rule \in Own
  <2>1. PICK c \in Plain : rule \in OneKana(<<c>>, c, Vowels) \/ rule \in Family(<<c, "y">>, c, Vowels)
    BY <1>1
  <2>2. c \in Letters /\ c \in Heads
    BY LettersAre, HeadsAndEnds
  <2> QED BY LettersAre, HeadsAndEnds, <1>b, <1>h, <2>1, <2>2, OneIsNeat, PairsAreNeat
<1>2. CASE rule \in Sh \/ rule \in Ch \/ rule \in J \/ rule \in Jy \/ rule \in Cy
  BY <1>2, LettersAre, HeadsAndEnds, <1>b, <1>h, PairsAreNeat
<1>3. CASE \/ rule \in Shi \/ rule \in Chi \/ rule \in Ji \/ rule \in Tsu \/ rule \in Fu \/ rule \in Vu
           \/ rule \in Y \/ rule \in W
  BY <1>3, LettersAre, HeadsAndEnds, <1>b, <1>h, OneIsNeat
<1>4. CASE rule \in F \/ rule \in V \/ rule \in Ye \/ rule \in Wi
  BY <1>4, LettersAre, HeadsAndEnds, <1>b, <1>h, PairsAreNeat
<1>5. CASE rule \in Fy \/ rule \in Vy
  <2>1. PICK c \in {"f", "v"}, d \in {"h", "v"}, v \in {"a", "u", "o"} :
          rule = <<<<c, "y", v>>, <<<<d, "u">>, <<"xy", v>>>>>>
    BY <1>5
  <2>2. /\ d \in Letters /\ v \in Letters
        /\ "y" \in Letters /\ "u" \in Letters /\ "xy" \in Letters
        /\ c \in Heads /\ "y" \in Heads /\ v \in Ends
    BY LettersAre, HeadsAndEnds DEF Vowels
  <2>3. <<d, "u">> \in Kanas /\ <<"xy", v>> \in Kanas
    BY <1>b, <2>2
  <2> QED BY <2>1, <2>2, <2>3, OddAreNeat
<1>6. CASE rule \in Yi
  <2>1. PICK c \in {"y", "w"}, v \in {"i", "u"} : rule = <<<<c, v>>, <<<<"", v>>>>>>
    BY <1>6
  <2>2. c \in Heads /\ v \in Ends /\ v \in Letters /\ "" \in Letters
    BY LettersAre, HeadsAndEnds
  <2>3. <<"", v>> \in Kanas
    BY <1>b, <2>2
  <2> QED BY <2>1, <2>2, <2>3, OddAreNeat
<1>7. CASE rule \in Bare
  <2> DEFINE none == <<>>
  <2>0. none \in Seq(Heads)
    OBVIOUS
  <2>1. rule \in OneKana(none, "", Vowels)
    BY Zenon, <1>7
  <2> HIDE DEF none
  <2> QED BY <2>0, <2>1, LettersAre, HeadsAndEnds, OneIsNeat
<1>8. CASE rule \in Few
  <2>1. PICK c \in {"x", "l"} :
          \/ rule \in OneKana(<<c>>, "x", Vowels) \/ rule \in OneKana(<<c, "y">>, "xy", {"a", "u", "o"})
          \/ rule = <<<<c, "t", "s", "u">>, <<Sokuon>>>> \/ rule = <<<<c, "t", "u">>, <<Sokuon>>>>
          \/ rule = <<<<c, "w", "a">>, <<<<"x", "wa">>>>>>
    BY <1>8
  <2>2. /\ "x" \in Letters /\ "tu" \in Letters /\ "wa" \in Letters /\ "xy" \in Letters
        /\ c \in Heads /\ "t" \in Heads /\ "s" \in Heads /\ "w" \in Heads /\ "y" \in Heads
        /\ "u" \in Ends /\ "a" \in Ends
    BY LettersAre, HeadsAndEnds
  <2>3. Sokuon \in Kanas /\ <<"x", "wa">> \in Kanas
    BY <1>b, <2>2 DEF Sokuon
  <2>4. CASE rule \in OneKana(<<c>>, "x", Vowels) \/ rule \in OneKana(<<c, "y">>, "xy", {"a", "u", "o"})
    BY LettersAre, HeadsAndEnds, <1>b, <1>h, <2>2, <2>4, OneIsNeat
  <2>5. CASE rule = <<<<c, "t", "s", "u">>, <<Sokuon>>>>
    BY <2>2, <2>3, <2>5, OddAreNeat
  <2>6. CASE rule = <<<<c, "t", "u">>, <<Sokuon>>>>
    BY <2>2, <2>3, <2>6, OddAreNeat
  <2>7. CASE rule = <<<<c, "w", "a">>, <<<<"x", "wa">>>>>>
    BY <2>2, <2>3, <2>7, OddAreNeat
  <2> QED BY <2>1, <2>4, <2>5, <2>6, <2>7
<1>9. CASE rule \in Signs
  BY <1>9, LettersAre, OddAreNeat
<1> HIDE DEF Own, Sh, Shi, Ch, Chi, J, Ji, Jy, Cy, Tsu, F, Fu, V, Vu, Fy, Vy, Y, Ye, W, Wi, Yi, Bare,
             Few, Signs
<1> QED BY <1>0, <1>1, <1>2, <1>3, <1>4, <1>5, <1>6, <1>7, <1>8, <1>9

\* Of the lengths at which a rule matches one is the greatest.
LEMMA GreatestLength ==
  ASSUME NEW S \in SUBSET (1..4), S # {}
  PROVE  \E n \in S : \A m \in S : m <= n
<1> DEFINE short == {4 - n : n \in S}
<1>1. short \in SUBSET Nat /\ short # {}
  <2>1. PICK n \in S : TRUE
    OBVIOUS
  <2>2. 4 - n \in short
    BY <2>1
  <2> QED BY <2>2
<1>2. PICK i \in short : \A j \in short : i <= j
  <2> HIDE DEF short
  <2> QED BY <1>1, Least
<1>3. PICK n \in S : i = 4 - n
  BY <1>2
<1>4. \A m \in S : m <= n
  BY <1>2, <1>3
<1> QED BY <1>4

\* What the rule of some letters makes.
LEMMA LookupShrinks ==
  ASSUME NEW romaji \in Romaji
  PROVE  Lookup[romaji] \in Seq(Kanas) /\ Len(Lookup[romaji]) <= Len(romaji)
<1> DEFINE rule == CHOOSE r \in Rules : r[1] = romaji
<1>1. \E r \in Rules : r[1] = romaji
  BY DEF Romaji
<1>2. rule \in Rules /\ rule[1] = romaji
  BY <1>1
<1>3. Lookup[romaji] = rule[2]
  BY DEF Lookup
<1> HIDE DEF rule
<1>4. Neat(rule)
  BY <1>2, RulesAreNeat
<1> QED BY <1>2, <1>3, <1>4 DEF Neat

\* One turn takes a letter at least, or none, and makes no more kana than it takes.
LEMMA SyllableShrinks ==
  ASSUME NEW S, NEW w \in Seq(S), Len(w) > 0
  PROVE  LET head == FirstSyllable(w)
         IN /\ head.kana \in Seq(Kanas) /\ head.used \in 0..Len(w) /\ Len(head.kana) <= head.used
<1> DEFINE head == FirstSyllable(w)
           matches == {n \in 1..kMaxRuleLength : n <= Len(w) /\ SubSeq(w, 1, n) \in Romaji}
           best == CHOOSE n \in matches : \A m \in matches : m <= n
           Shortens(h) == h.kana \in Seq(Kanas) /\ h.used \in 0..Len(w) /\ Len(h.kana) <= h.used
<1>1. Len(w) \in Nat /\ N \in Kanas /\ Sokuon \in Kanas
  <2>1. "n" \in Letters /\ "x" \in Letters /\ "tu" \in Letters
    BY LettersAre
  <2>2. <<"n", "n">> \in Kanas /\ <<"x", "tu">> \in Kanas
    BY <2>1 DEF Kanas
  <2> QED BY <2>2 DEF N, Sokuon
<1>2. \/ Len(w) > 1 /\ \E used \in {1, 2} : head = Syllable(<<N>>, used)
      \/ Len(w) > 1 /\ head = Syllable(<<Sokuon>>, 1)
      \/ matches # {} /\ head = Syllable(Lookup[SubSeq(w, 1, best)], best)
      \/ \E used \in {0, 1} : head = Syllable(<<>>, used)
  BY DEF FirstSyllable
<1>3. ASSUME NEW a \in Kanas, NEW used \in {1, 2}, Len(w) > 1 PROVE Shortens(Syllable(<<a>>, used))
  <2>1. <<a>> \in Seq(Kanas) /\ Len(<<a>>) = 1
    OBVIOUS
  <2> QED BY <1>1, <1>3, <2>1 DEF Syllable
<1>4. ASSUME matches # {} PROVE Shortens(Syllable(Lookup[SubSeq(w, 1, best)], best))
  <2>1. matches \in SUBSET (1..4)
    BY DEF kMaxRuleLength
  <2>2. \E n \in matches : \A m \in matches : m <= n
    <3> HIDE DEF matches
    <3> QED BY <1>4, <2>1, GreatestLength
  <2>3. best \in matches
    <3> HIDE DEF matches
    <3> QED BY <2>2
  <2> HIDE DEF best
  <2>4. best \in 1..Len(w) /\ SubSeq(w, 1, best) \in Romaji
    BY <1>1, <2>1, <2>3
  <2>5. Len(SubSeq(w, 1, best)) = best
    BY <2>4
  <2> DEFINE part == SubSeq(w, 1, best)
  <2> HIDE DEF part
  <2>6. Lookup[part] \in Seq(Kanas) /\ Len(Lookup[part]) <= best
    BY <2>4, <2>5, LookupShrinks DEF part
  <2>7. Shortens(Syllable(Lookup[part], best))
    BY <2>4, <2>6 DEF Syllable
  <2> QED BY <2>7 DEF part
<1>5. ASSUME NEW used \in {0, 1} PROVE Shortens(Syllable(<<>>, used))
  BY <1>1, <1>5 DEF Syllable
<1> HIDE DEF head, matches, best
<1>6. Shortens(head)
  <2> HIDE DEF Shortens
  <2> QED BY <1>1, <1>2, <1>3, <1>4, <1>5
<1> QED BY <1>6 DEF head

\* A buffer of kana and of keystrokes.
Buffers(S) == [kana : Seq(Kanas), tail : Seq(S)]

AddHead(kana, b) == [b EXCEPT !.kana = kana \o @]

LEMMA AddHeadIs ==
  ASSUME NEW S, NEW kana \in Seq(Kanas), NEW b \in Buffers(S)
  PROVE  /\ AddHead(kana, b) \in Buffers(S) /\ BufferLength(AddHead(kana, b)) = Len(kana) + BufferLength(b)
         /\ AddHead(kana, b).kana = kana \o b.kana /\ AddHead(kana, b).tail = b.tail
<1>1. b.kana \in Seq(Kanas) /\ b.tail \in Seq(S)
  BY DEF Buffers
<1>2. kana \o b.kana \in Seq(Kanas) /\ Len(kana \o b.kana) = Len(kana) + Len(b.kana)
  BY <1>1
<1>3. /\ AddHead(kana, b) \in [kana : Seq(Kanas), tail : Seq(S)]
      /\ AddHead(kana, b).kana = kana \o b.kana /\ AddHead(kana, b).tail = b.tail
  <2> DEFINE ks == Seq(Kanas)
             ts == Seq(S)
             joined == kana \o b.kana
  <2>1. b \in [kana : ks, tail : ts] /\ joined \in ks
    BY <1>2 DEF Buffers
  <2> HIDE DEF ks, ts, joined
  <2>2. /\ [b EXCEPT !.kana = joined] \in [kana : ks, tail : ts]
        /\ [b EXCEPT !.kana = joined].kana = joined /\ [b EXCEPT !.kana = joined].tail = b.tail
    BY <2>1
  <2> QED BY <2>2 DEF AddHead, ks, ts, joined
<1>4. Len(kana) \in Nat /\ Len(b.kana) \in Nat /\ Len(b.tail) \in Nat
  BY <1>1
<1> QED BY <1>1, <1>2, <1>3, <1>4 DEF Buffers, BufferLength

\* The last n of some letters.
Ending(w, n) == SubSeq(w, Len(w) - n + 1, Len(w))

LEMMA EndingIs ==
  ASSUME NEW S, NEW w \in Seq(S), NEW n \in 0..Len(w)
  PROVE  /\ Ending(w, n) \in Seq(S) /\ Len(Ending(w, n)) = n
         /\ \A i \in 1..n : Ending(w, n)[i] = w[Len(w) - n + i]
<1> DEFINE k == Len(w) - n + 1
           l == Len(w)
<1>1. l \in Nat /\ k \in Int /\ l \in Int /\ n \in Nat /\ k >= 1 /\ \A i \in k..l : w[i] \in S
  OBVIOUS
<1>2. k = l - n + 1
  OBVIOUS
<1> HIDE DEF k, l
<1>3. /\ SubSeq(w, k, l) \in Seq(S) /\ Len(SubSeq(w, k, l)) = IF k <= l THEN l - k + 1 ELSE 0
      /\ \A i \in 1..(l - k + 1) : SubSeq(w, k, l)[i] = w[k + i - 1]
  BY <1>1, SubSeqProperties
<1>4. /\ Len(SubSeq(w, k, l)) = n
      /\ \A i \in 1..n : SubSeq(w, k, l)[i] = w[l - n + i]
  <2>1. l - k + 1 = n
    BY <1>1, <1>2
  <2>2. Len(SubSeq(w, k, l)) = n
    BY <1>1, <1>2, <1>3
  <2>3. ASSUME NEW i \in 1..n PROVE SubSeq(w, k, l)[i] = w[l - n + i]
    <3>1. k + i - 1 = l - n + i /\ i \in 1..(l - k + 1)
      BY <1>1, <1>2, <2>1
    <3>2. SubSeq(w, k, l)[i] = w[k + i - 1]
      BY <1>3, <3>1
    <3> QED BY <3>1, <3>2
  <2> QED BY <2>2, <2>3
<1> QED BY <1>3, <1>4 DEF Ending, k, l

LEMMA EndingOfEnding ==
  ASSUME NEW S, NEW w \in Seq(S), NEW m \in 0..Len(w), NEW n \in 0..m
  PROVE  Ending(Ending(w, m), n) = Ending(w, n)
<1> DEFINE v == Ending(w, m)
           a == Ending(v, n)
           b == Ending(w, n)
<1>1. Len(w) \in Nat /\ m \in Nat /\ n \in Nat /\ n \in 0..Len(w)
  OBVIOUS
<1>2. v \in Seq(S) /\ Len(v) = m /\ \A i \in 1..m : v[i] = w[Len(w) - m + i]
  BY EndingIs
<1>3. b \in Seq(S) /\ Len(b) = n /\ \A i \in 1..n : b[i] = w[Len(w) - n + i]
  BY <1>1, EndingIs
<1> HIDE DEF v
<1>4. a \in Seq(S) /\ Len(a) = n /\ \A i \in 1..n : a[i] = v[m - n + i]
  BY <1>1, <1>2, EndingIs
<1>5. ASSUME NEW i \in 1..n PROVE a[i] = b[i]
  <2>1. m - n + i \in 1..m /\ Len(w) - m + (m - n + i) = Len(w) - n + i
    BY <1>1
  <2>2. v[m - n + i] = w[Len(w) - m + (m - n + i)]
    BY <1>2, <2>1
  <2> QED BY <1>3, <1>4, <2>1, <2>2
<1> HIDE DEF a, b
<1>6. a = b
  BY <1>3, <1>4, <1>5, SeqEqual
<1> QED BY <1>6 DEF a, b, v

LEMMA WholeEnding == ASSUME NEW S, NEW w \in Seq(S) PROVE Ending(w, Len(w)) = w
<1>1. SubSeq(w, 1, Len(w)) = w
  BY SubSeqFull
<1>2. Len(w) - Len(w) + 1 = 1
  OBVIOUS
<1> QED BY <1>1, <1>2 DEF Ending

\* Over the words of S by their length.
LEMMA WordInduction ==
  ASSUME NEW S, NEW T,
         \A w \in Seq(S) : (\A v \in Seq(S) : Len(v) < Len(w) => v \in T) => w \in T
  PROVE  \A w \in Seq(S) : w \in T
<1> DEFINE D == Seq(S)
           size == [w \in D |-> Len(w)]
<1>1. size \in [D -> Nat] /\ \A w \in D : size[w] = Len(w)
  OBVIOUS
<1>2. \A w \in D : (\A v \in D : size[v] < size[w] => v \in T) => w \in T
  <2> HIDE DEF size
  <2> QED BY <1>1
<1>3. D \subseteq T
  <2> HIDE DEF D, size
  <2> QED BY <1>1, <1>2, Induction
<1> QED BY <1>3

(* Rebuild is what its turns make, from each letter on to the end.         *)
Turns(w, f) ==
  /\ Rebuild(w) = f[Len(w)]
  /\ \A n \in 0..Len(w) :
       LET head == FirstSyllable(Ending(w, n))
       IN /\ n = 0 => f[n] = Buffer(<<>>, <<>>)
          /\ n # 0 /\ head.used = 0 => f[n] = Buffer(<<>>, Ending(w, n))
          /\ n # 0 /\ head.used # 0 => f[n] = AddHead(head.kana, f[n - head.used])

LEMMA RebuildTurns == ASSUME NEW S, NEW romaji \in Seq(S) PROVE \E f : Turns(romaji, f)
<1> DEFINE total == Len(romaji)
           from(n) == SubSeq(romaji, total - n + 1, total)
           Is(g, n) == IF n = 0 THEN Buffer(<<>>, <<>>)
                       ELSE LET head == FirstSyllable(from(n))
                            IN IF head.used = 0 THEN Buffer(<<>>, from(n))
                               ELSE [g[n - head.used] EXCEPT !.kana = head.kana \o @]
           last[n \in 0..total] == Is(last, n)
           D == 0..total
           V == Buffers(S)
           nothing == Buffer(<<>>, <<>>)
           head(n) == FirstSyllable(from(n))
           size == [n \in D |-> n]
           stop == {n \in D : n = 0 \/ head(n).used = 0}
           base == [n \in D |-> IF n \in stop /\ n # 0 THEN Buffer(<<>>, from(n)) ELSE nothing]
           prev == [n \in D |-> IF n \in stop THEN 0 ELSE n - head(n).used]
           step == [n \in D |-> [b \in V |-> IF n \in stop THEN nothing ELSE AddHead(head(n).kana, b)]]
<1>r. \A n : from(n) = Ending(romaji, n)
  BY DEF Ending
<1>0. total \in Nat /\ 0 \in D /\ total \in D
  OBVIOUS
<1>1. \A kana \in Seq(Kanas), tail \in Seq(S) :
        Buffer(kana, tail) \in V /\ BufferLength(Buffer(kana, tail)) = Len(kana) + Len(tail)
  BY DEF Buffers, Buffer, BufferLength
<1>2. ASSUME NEW n \in D, n # 0 PROVE from(n) \in Seq(S) /\ Len(from(n)) = n
  BY <1>0, <1>2
<1>3. ASSUME NEW n \in D, n \notin stop
      PROVE  /\ head(n).kana \in Seq(Kanas) /\ head(n).used \in 1..n /\ Len(head(n).kana) <= head(n).used
             /\ n - head(n).used \in D /\ n - head(n).used < n /\ n # 0
  <2>1. n # 0 /\ head(n).used # 0
    BY <1>3
  <2>2. from(n) \in Seq(S) /\ Len(from(n)) = n /\ n > 0
    BY <1>2, <2>1
  <2> DEFINE w == from(n)
  <2>3. w \in Seq(S) /\ Len(w) = n /\ Len(w) > 0
    BY <2>2
  <2> HIDE DEF w
  <2>4. LET h == FirstSyllable(w)
        IN h.kana \in Seq(Kanas) /\ h.used \in 0..n /\ Len(h.kana) <= h.used
    BY <2>3, SyllableShrinks
  <2>5. head(n).kana \in Seq(Kanas) /\ head(n).used \in 0..n /\ Len(head(n).kana) <= head(n).used
    BY <2>4 DEF w
  <2> HIDE DEF head
  <2> QED BY <2>1, <2>5
<1>4. ASSUME NEW n \in D, n # 0 PROVE Buffer(<<>>, from(n)) \in V /\ BufferLength(Buffer(<<>>, from(n))) = n
  <2> DEFINE w == from(n)
             none == <<>>
  <2>1. w \in Seq(S) /\ Len(w) = n /\ none \in Seq(Kanas) /\ Len(none) = 0
    BY <1>2, <1>4
  <2> HIDE DEF w, none
  <2>2. Buffer(none, w) \in V /\ BufferLength(Buffer(none, w)) = Len(none) + Len(w)
    BY Zenon, <1>1, <2>1
  <2>3. BufferLength(Buffer(none, w)) = n
    BY <2>1, <2>2
  <2> QED BY <2>2, <2>3 DEF w, none
<1>5. nothing \in V /\ BufferLength(nothing) = 0
  <2> DEFINE none == <<>>
  <2>1. none \in Seq(Kanas) /\ none \in Seq(S) /\ Len(none) = 0
    OBVIOUS
  <2> HIDE DEF none
  <2>2. Buffer(none, none) \in V /\ BufferLength(Buffer(none, none)) = Len(none) + Len(none)
    BY Zenon, <1>1, <2>1
  <2>3. BufferLength(Buffer(none, none)) = 0
    BY <2>1, <2>2
  <2> QED BY <2>2, <2>3 DEF none
<1>6. Descends(D, V, size, stop, base, prev, step)
  <2>1. size \in [D -> Nat] /\ stop \in SUBSET D /\ V # {}
    BY <1>0, <1>5
  <2>2. base \in [D -> V]
    <3> HIDE DEF V, D, from, nothing
    <3> QED BY <1>4, <1>5
  <2>3. prev \in [D -> D]
    <3> HIDE DEF stop, D, head
    <3> QED BY <1>0, <1>3
  <2>4. step \in [D -> [V -> V]]
    <3>1. ASSUME NEW n \in D, NEW b \in V
          PROVE  (IF n \in stop THEN nothing ELSE AddHead(head(n).kana, b)) \in V
      <4> HIDE DEF stop, D, head, nothing
      <4> QED BY <1>3, <1>5, AddHeadIs
    <3> HIDE DEF stop, D, head, nothing, V
    <3> QED BY <3>1
  <2>5. \A d \in D \ stop : size[prev[d]] < size[d]
    <3>1. ASSUME NEW d \in D, d \notin stop PROVE size[prev[d]] < size[d]
      <4>1. prev[d] = d - head(d).used
        <5> HIDE DEF stop, head, D
        <5> QED BY <3>1
      <4>2. prev[d] \in D /\ prev[d] < d
        <5> HIDE DEF stop, head, prev
        <5> QED BY <4>1, <3>1, <1>3
      <4> HIDE DEF stop, prev, D
      <4> QED BY <4>2
    <3> QED BY <3>1
  <2> HIDE DEF D, V, size, stop, base, prev, step
  <2> QED BY <2>1, <2>2, <2>3, <2>4, <2>5 DEF Descends
<1>7. PICK f \in [D -> V] : \A d \in D : f[d] = At(f, d, stop, base, prev, step)
  <2> HIDE DEF D, V, size, stop, base, prev, step
  <2> QED BY <1>6, Recursion
<1>8. ASSUME NEW n \in D
      PROVE  /\ n = 0 => f[n] = nothing
             /\ n # 0 /\ head(n).used = 0 => f[n] = Buffer(<<>>, from(n))
             /\ n # 0 /\ head(n).used # 0 =>
                  f[n] = AddHead(head(n).kana, f[n - head(n).used])
  <2>1. CASE n = 0
    <3>1. n \in stop
      BY <2>1
    <3>2. f[n] = base[n]
      <4> HIDE DEF D, V, stop, base, prev, step
      <4> QED BY <1>7, <3>1 DEF At
    <3> HIDE DEF D, V, stop, from, head, nothing
    <3> QED BY <2>1, <3>2
  <2>2. CASE n # 0 /\ head(n).used = 0
    <3>1. n \in stop
      BY <2>2
    <3>2. f[n] = base[n]
      <4> HIDE DEF D, V, stop, base, prev, step
      <4> QED BY <1>7, <3>1 DEF At
    <3> HIDE DEF D, V, stop, from, head, nothing
    <3> QED BY <2>2, <3>1, <3>2
  <2>3. CASE n # 0 /\ head(n).used # 0
    <3>1. n \notin stop
      BY <2>3
    <3>2. f[n] = step[n][f[prev[n]]]
      <4> HIDE DEF D, V, stop, base, prev, step
      <4> QED BY <1>7, <3>1 DEF At
    <3>3. n - head(n).used \in D
      <4> HIDE DEF D, stop, head
      <4> QED BY <1>3, <3>1
    <3> HIDE DEF D, V, stop, from, head, nothing
    <3>4. prev[n] = n - head(n).used
      BY <3>1
    <3>5. f[prev[n]] \in V
      BY <3>3, <3>4
    <3>6. step[n][f[prev[n]]] = AddHead(head(n).kana, f[prev[n]])
      BY <3>1, <3>5
    <3> QED BY <2>3, <3>2, <3>4, <3>6
  <2> QED BY <2>1, <2>2, <2>3
<1>9. \A g : \A n \in D :
        /\ n = 0 => Is(g, n) = nothing
        /\ n # 0 /\ head(n).used = 0 => Is(g, n) = Buffer(<<>>, from(n))
        /\ n # 0 /\ head(n).used # 0 => Is(g, n) = AddHead(head(n).kana, g[n - head(n).used])
  BY DEF AddHead
<1>10. \A n \in D : f[n] = Is(f, n)
  <2> HIDE DEF D, Is, head, from, nothing
  <2> QED BY <1>8, <1>9
<1>11. f = [n \in D |-> Is(f, n)]
  <2> HIDE DEF D, V, Is
  <2> QED BY <1>10
<1>12. last = [n \in D |-> Is(last, n)]
  BY <1>11
<1>13. \A n \in D : last[n] = Is(last, n)
  <2> HIDE DEF D, Is, last
  <2> QED BY <1>12
<1>14. Rebuild(romaji) = last[total]
  BY DEF Rebuild
<1>15. \A n \in D :
         /\ n = 0 => last[n] = nothing
         /\ n # 0 /\ head(n).used = 0 => last[n] = Buffer(<<>>, from(n))
         /\ n # 0 /\ head(n).used # 0 => last[n] = AddHead(head(n).kana, last[n - head(n).used])
  <2> HIDE DEF D, Is, last, nothing, head, from
  <2> QED BY <1>9, <1>13
<1>16. Turns(romaji, last)
  <2> HIDE DEF last
  <2> QED BY <1>14, <1>15, <1>r DEF Turns
<1> QED BY <1>16

(* Rebuild takes what its first turn takes, and rebuilds what is left.     *)
Unused(w, used) == Ending(w, Len(w) - used)

LEMMA RebuildIs ==
  ASSUME NEW S, NEW w \in Seq(S)
  PROVE  LET head == FirstSyllable(w)
         IN /\ Len(w) = 0 => Rebuild(w) = Buffer(<<>>, <<>>)
            /\ Len(w) # 0 /\ head.used = 0 => Rebuild(w) = Buffer(<<>>, w)
            /\ Len(w) # 0 /\ head.used # 0 =>
                 Rebuild(w) = AddHead(head.kana, Rebuild(Unused(w, head.used)))
<1> DEFINE head(v) == FirstSyllable(v)
           nothing == Buffer(<<>>, <<>>)
<1>0. Len(w) \in Nat /\ Len(w) \in 0..Len(w) /\ Ending(w, Len(w)) = w
  BY WholeEnding
<1>1. PICK f : Turns(w, f)
  BY RebuildTurns
<1>2. /\ Rebuild(w) = f[Len(w)]
      /\ \A n \in 0..Len(w) :
           /\ n = 0 => f[n] = nothing
           /\ n # 0 /\ head(Ending(w, n)).used = 0 => f[n] = Buffer(<<>>, Ending(w, n))
           /\ n # 0 /\ head(Ending(w, n)).used # 0 =>
                f[n] = AddHead(head(Ending(w, n)).kana, f[n - head(Ending(w, n)).used])
  BY <1>1 DEF Turns
<1>3. ASSUME Len(w) # 0, head(w).used # 0
      PROVE  Rebuild(w) = AddHead(head(w).kana, Rebuild(Unused(w, head(w).used)))
  <2> DEFINE m == Len(w) - head(w).used
             v == Ending(w, m)
             D == 0..m
             size == [n \in D |-> n]
  <2>0. head(w).used \in 0..Len(w)
    BY <1>0, <1>3, SyllableShrinks
  <2>1. m \in Nat /\ m \in 0..Len(w) /\ m < Len(w) /\ m = Len(w) - head(w).used
    <3> HIDE DEF head
    <3> QED BY <2>0, <1>0, <1>3
  <2>2. Unused(w, head(w).used) = v
    BY DEF Unused
  <2>3. Rebuild(w) = AddHead(head(w).kana, f[m])
    <3> HIDE DEF m, v, head, nothing
    <3> QED BY <1>0, <1>2, <1>3, <2>1
  <2> HIDE DEF m
  <2>4. v \in Seq(S) /\ Len(v) = m /\ \A n \in D : Ending(v, n) = Ending(w, n)
    BY <2>1, EndingIs, EndingOfEnding
  <2> HIDE DEF v
  <2>5. PICK g : Turns(v, g)
    BY <2>4, RebuildTurns
  <2>6. /\ Rebuild(v) = g[m]
        /\ \A n \in D :
             /\ n = 0 => g[n] = nothing
             /\ n # 0 /\ head(Ending(w, n)).used = 0 => g[n] = Buffer(<<>>, Ending(w, n))
             /\ n # 0 /\ head(Ending(w, n)).used # 0 =>
                  g[n] = AddHead(head(Ending(w, n)).kana, g[n - head(Ending(w, n)).used])
    BY <2>4, <2>5 DEF Turns
  <2>7. \A n \in D : n \in 0..Len(w)
    BY <1>0, <2>1
  <2>8. ASSUME NEW n \in D, n # 0, head(Ending(w, n)).used # 0
        PROVE  n - head(Ending(w, n)).used \in D /\ n - head(Ending(w, n)).used < n
    <3>1. Ending(w, n) \in Seq(S) /\ Len(Ending(w, n)) = n /\ n > 0
      BY <2>7, <2>8, EndingIs
    <3>2. head(Ending(w, n)).used \in 0..n
      BY <3>1, SyllableShrinks
    <3> HIDE DEF head
    <3> QED BY <3>2, <2>8, <2>1
  <2> DEFINE T == {n \in D : g[n] = f[n]}
  <2>9. ASSUME NEW n \in D, \A e \in D : size[e] < size[n] => e \in T PROVE n \in T
    <3> DEFINE h == head(Ending(w, n))
    <3>1. CASE n = 0
      <4> HIDE DEF head, nothing, D
      <4> QED BY <3>1, <1>2, <2>6, <2>7
    <3>2. CASE n # 0 /\ h.used = 0
      <4> HIDE DEF head, nothing, D
      <4> QED BY <3>2, <1>2, <2>6, <2>7
    <3>3. CASE n # 0 /\ h.used # 0
      <4>1. n - h.used \in D /\ n - h.used < n
        <5> HIDE DEF head, D
        <5> QED BY <2>8, <3>3
      <4> DEFINE k == n - h.used
      <4>2. size[k] < size[n]
        <5> HIDE DEF h
        <5> QED BY <4>1
      <4>3. g[k] = f[k]
        <5> HIDE DEF D, size, k
        <5> QED BY <4>1, <4>2, <2>9 DEF k
      <4>4. g[n] = AddHead(h.kana, g[k]) /\ f[n] = AddHead(h.kana, f[k])
        <5> HIDE DEF head, D, nothing
        <5> QED BY <3>3, <1>2, <2>6, <2>7
      <4> HIDE DEF D, k
      <4> QED BY <4>3, <4>4
    <3> HIDE DEF T, head
    <3> QED BY <3>1, <3>2, <3>3
  <2>10. D \subseteq T
    <3>1. size \in [D -> Nat]
      BY <2>1
    <3> HIDE DEF D, size, T
    <3> QED BY <2>9, <3>1, Induction
  <2>11. g[m] = f[m]
    <3>1. m \in D
      BY <2>1
    <3> HIDE DEF D
    <3> QED BY <3>1, <2>10
  <2> HIDE DEF head
  <2> QED BY <2>2, <2>3, <2>6, <2>11
<1> HIDE DEF head, nothing
<1>4. /\ Len(w) = 0 => Rebuild(w) = nothing
      /\ Len(w) # 0 /\ head(w).used = 0 => Rebuild(w) = Buffer(<<>>, w)
  BY <1>0, <1>2
<1> QED BY <1>3, <1>4 DEF head, nothing

LEMMA UnusedIs ==
  ASSUME NEW S, NEW w \in Seq(S), Len(w) # 0, FirstSyllable(w).used # 0
  PROVE  LET v == Unused(w, FirstSyllable(w).used)
         IN v \in Seq(S) /\ Len(v) < Len(w) /\ Len(v) = Len(w) - FirstSyllable(w).used
<1> DEFINE used == FirstSyllable(w).used
           m == Len(w) - used
<1>1. Len(w) \in Nat
  OBVIOUS
<1>2. used \in 0..Len(w)
  BY <1>1, SyllableShrinks
<1>3. m \in 0..Len(w) /\ m < Len(w)
  <2> HIDE DEF used
  <2>1. used # 0
    BY DEF used
  <2> QED BY <1>1, <1>2, <2>1
<1> HIDE DEF m
<1>4. Ending(w, m) \in Seq(S) /\ Len(Ending(w, m)) = m
  BY <1>3, EndingIs
<1> QED BY <1>3, <1>4 DEF Unused, m

LEMMA BufferIsSized ==
  ASSUME NEW S, NEW b \in Buffers(S)
  PROVE  /\ b.kana \in Seq(Kanas) /\ b.tail \in Seq(S) /\ b = Buffer(b.kana, b.tail)
         /\ Len(b.kana) \in Nat /\ Len(b.tail) \in Nat
         /\ BufferLength(b) = Len(b.kana) + Len(b.tail) /\ BufferLength(b) \in Nat
<1>1. b.kana \in Seq(Kanas) /\ b.tail \in Seq(S) /\ b = Buffer(b.kana, b.tail)
  BY DEF Buffers, Buffer
<1>2. Len(b.kana) \in Nat /\ Len(b.tail) \in Nat
  BY <1>1
<1>s. \A m, n \in Nat : m + n \in Nat
  OBVIOUS
<1>l. BufferLength(b) = Len(b.kana) + Len(b.tail)
  BY DEF BufferLength
<1>3. BufferLength(b) = Len(b.kana) + Len(b.tail) /\ BufferLength(b) \in Nat
  BY Zenon, <1>2, <1>s, <1>l
<1> QED BY <1>1, <1>2, <1>3

\* Rebuild gives kana and keystrokes, and of both together no more than it was given keystrokes.
LEMMA RebuildShrinks ==
  ASSUME NEW S, NEW romaji \in Seq(S)
  PROVE  Rebuild(romaji) \in Buffers(S) /\ BufferLength(Rebuild(romaji)) <= Len(romaji)
<1> DEFINE V == Buffers(S)
           T == {w \in Seq(S) : Rebuild(w) \in V /\ BufferLength(Rebuild(w)) <= Len(w)}
<1>1. \A kana \in Seq(Kanas), tail \in Seq(S) :
        Buffer(kana, tail) \in V /\ BufferLength(Buffer(kana, tail)) = Len(kana) + Len(tail)
  BY DEF Buffers, Buffer, BufferLength
<1>2. ASSUME NEW tail \in Seq(S)
      PROVE  Buffer(<<>>, tail) \in V /\ BufferLength(Buffer(<<>>, tail)) = Len(tail)
  <2> DEFINE none == <<>>
  <2>1. none \in Seq(Kanas) /\ Len(none) = 0 /\ Len(tail) \in Nat
    OBVIOUS
  <2> HIDE DEF none, V
  <2>2. Buffer(none, tail) \in V /\ BufferLength(Buffer(none, tail)) = Len(none) + Len(tail)
    BY Zenon, <1>1, <2>1
  <2>3. BufferLength(Buffer(none, tail)) = Len(tail)
    BY <2>1, <2>2
  <2> QED BY <2>2, <2>3 DEF none
<1>3. ASSUME NEW w \in Seq(S), \A v \in Seq(S) : Len(v) < Len(w) => v \in T PROVE w \in T
  <2> DEFINE head == FirstSyllable(w)
             v == Unused(w, head.used)
  <2>0. Len(w) \in Nat
    OBVIOUS
  <2>1. CASE Len(w) = 0
    <3> DEFINE none == <<>>
    <3>1. Rebuild(w) = Buffer(none, none)
      BY <2>1, RebuildIs
    <3>2. none \in Seq(S) /\ Len(none) = 0
      OBVIOUS
    <3>3. Buffer(<<>>, none) \in V /\ BufferLength(Buffer(<<>>, none)) = Len(none)
      <4> HIDE DEF none, V
      <4> QED BY <3>2, <1>2
    <3> HIDE DEF V
    <3> QED BY <2>1, <3>1, <3>2, <3>3
  <2>2. CASE Len(w) # 0 /\ head.used = 0
    <3>1. Rebuild(w) = Buffer(<<>>, w)
      BY <2>2, RebuildIs
    <3>2. Buffer(<<>>, w) \in V /\ BufferLength(Buffer(<<>>, w)) = Len(w)
      BY <1>2
    <3> HIDE DEF V
    <3> QED BY <2>0, <3>1, <3>2
  <2>3. CASE Len(w) # 0 /\ head.used # 0
    <3>1. Rebuild(w) = AddHead(head.kana, Rebuild(v))
      BY <2>3, RebuildIs
    <3>2. v \in Seq(S) /\ Len(v) < Len(w) /\ Len(v) = Len(w) - head.used
      BY <2>3, UnusedIs
    <3>3. head.kana \in Seq(Kanas) /\ head.used \in 0..Len(w) /\ Len(head.kana) <= head.used
      BY <2>0, <2>3, SyllableShrinks
    <3> HIDE DEF v, head
    <3>4. Rebuild(v) \in V /\ BufferLength(Rebuild(v)) <= Len(v)
      BY <1>3, <3>2
    <3>5. /\ Rebuild(w) \in V
          /\ BufferLength(Rebuild(w)) = Len(head.kana) + BufferLength(Rebuild(v))
      BY <3>1, <3>3, <3>4, AddHeadIs
    <3>6. BufferLength(Rebuild(v)) \in Nat /\ Len(head.kana) \in Nat /\ Len(v) \in Nat
      <4>1. \A b \in Buffers(S) : BufferLength(b) \in Nat
        BY BufferIsSized
      <4>2. Len(head.kana) \in Nat /\ Len(v) \in Nat
        BY <3>2, <3>3
      <4> QED BY <3>4, <4>1, <4>2
    <3>7. BufferLength(Rebuild(w)) <= Len(w)
      BY <2>0, <3>2, <3>3, <3>4, <3>5, <3>6
    <3> HIDE DEF V
    <3> QED BY <3>5, <3>7
  <2> HIDE DEF T, head
  <2> QED BY <2>1, <2>2, <2>3
<1>4. \A w \in Seq(S) : w \in T
  <2> HIDE DEF T
  <2> QED BY <1>3, WordInduction
<1>5. Rebuild(romaji) \in V /\ BufferLength(Rebuild(romaji)) <= Len(romaji)
  <2> HIDE DEF V
  <2> QED BY <1>4
<1> QED BY <1>5

\* One keystroke more makes the buffer longer by one, at most.
LEMMA KeystrokeAdds ==
  ASSUME NEW S, NEW b \in Buffers(S), NEW ch \in S
  PROVE  /\ BufferAfterKeystroke(b, ch) \in Buffers(S)
         /\ BufferLength(BufferAfterKeystroke(b, ch)) <= BufferLength(b) + 1
<1> DEFINE tail == Append(b.tail, ch)
           r == Rebuild(tail)
<1>1. b.kana \in Seq(Kanas) /\ b.tail \in Seq(S)
  BY DEF Buffers
<1>2. tail \in Seq(S) /\ Len(tail) = Len(b.tail) + 1
  BY <1>1
<1>3. r \in Buffers(S) /\ BufferLength(r) <= Len(tail)
  <2> HIDE DEF tail
  <2> QED BY <1>2, RebuildShrinks
<1>4. r.kana \in Seq(Kanas) /\ r.tail \in Seq(S)
  <2> HIDE DEF r
  <2> QED BY <1>3 DEF Buffers
<1>5. BufferAfterKeystroke(b, ch) \in {Buffer(b.kana \o r.kana, r.tail), Buffer(b.kana, tail)}
  BY DEF BufferAfterKeystroke
<1> HIDE DEF tail, r
<1>6. b.kana \o r.kana \in Seq(Kanas) /\ Len(b.kana \o r.kana) = Len(b.kana) + Len(r.kana)
  BY <1>1, <1>4
<1>7. \A kana \in Seq(Kanas), t \in Seq(S) :
        Buffer(kana, t) \in Buffers(S) /\ BufferLength(Buffer(kana, t)) = Len(kana) + Len(t)
  BY DEF Buffers, Buffer, BufferLength
<1>8. /\ Buffer(b.kana \o r.kana, r.tail) \in Buffers(S)
      /\ BufferLength(Buffer(b.kana \o r.kana, r.tail)) = Len(b.kana \o r.kana) + Len(r.tail)
  BY Zenon, <1>4, <1>6, <1>7
<1>9. /\ Buffer(b.kana, tail) \in Buffers(S)
      /\ BufferLength(Buffer(b.kana, tail)) = Len(b.kana) + Len(tail)
  BY Zenon, <1>1, <1>2, <1>7
<1>10. BufferLength(b) = Len(b.kana) + Len(b.tail) /\ BufferLength(r) = Len(r.kana) + Len(r.tail)
  BY DEF BufferLength
<1>11. Len(b.kana) \in Nat /\ Len(b.tail) \in Nat /\ Len(r.kana) \in Nat /\ Len(r.tail) \in Nat
  BY <1>1, <1>4
<1>s. \A k, t, m, u \in Nat : /\ m + u <= t + 1 => (k + m) + u <= (k + t) + 1
                              /\ k + (t + 1) <= (k + t) + 1
  OBVIOUS
<1>12. CASE BufferAfterKeystroke(b, ch) = Buffer(b.kana \o r.kana, r.tail)
  <2>1. BufferLength(BufferAfterKeystroke(b, ch)) = (Len(b.kana) + Len(r.kana)) + Len(r.tail)
    BY <1>6, <1>8, <1>12
  <2>2. Len(r.kana) + Len(r.tail) <= Len(b.tail) + 1
    BY <1>2, <1>3, <1>10
  <2>3. (Len(b.kana) + Len(r.kana)) + Len(r.tail) <= (Len(b.kana) + Len(b.tail)) + 1
    BY Zenon, <2>2, <1>11, <1>s
  <2>4. BufferLength(BufferAfterKeystroke(b, ch)) <= BufferLength(b) + 1
    BY <2>1, <2>3, <1>10
  <2> QED BY <2>4, <1>8, <1>12
<1>13. CASE BufferAfterKeystroke(b, ch) = Buffer(b.kana, tail)
  <2>1. BufferLength(BufferAfterKeystroke(b, ch)) = Len(b.kana) + (Len(b.tail) + 1)
    BY <1>2, <1>9, <1>13
  <2>3. Len(b.kana) + (Len(b.tail) + 1) <= (Len(b.kana) + Len(b.tail)) + 1
    BY Zenon, <1>11, <1>s
  <2>2. BufferLength(BufferAfterKeystroke(b, ch)) <= BufferLength(b) + 1
    BY <2>1, <2>3, <1>10
  <2> QED BY <2>2, <1>9, <1>13
<1> QED BY <1>5, <1>12, <1>13

LEMMA FrontIs ==
  ASSUME NEW S, NEW s \in Seq(S), s # <<>>
  PROVE  Strings!Front(s) \in Seq(S) /\ Len(Strings!Front(s)) = Len(s) - 1
<1>1. Len(s) \in Nat /\ Len(s) # 0
  OBVIOUS
<1> DEFINE n == Len(s) - 1
<1>a. n \in Nat /\ n \in Int /\ 1 \in Int /\ \A i \in 1..n : s[i] \in S
  BY <1>1
<1>b. n = Len(s) - 1
  OBVIOUS
<1> HIDE DEF n
<1>c. SubSeq(s, 1, n) \in Seq(S) /\ Len(SubSeq(s, 1, n)) = IF 1 <= n THEN n - 1 + 1 ELSE 0
  BY <1>a, SubSeqProperties
<1>d. Len(SubSeq(s, 1, n)) = n
  BY <1>a, <1>c
<1>2. SubSeq(s, 1, Len(s) - 1) \in Seq(S) /\ Len(SubSeq(s, 1, Len(s) - 1)) = Len(s) - 1
  BY <1>b, <1>c, <1>d
<1> QED BY <1>2 DEF Strings!Front

\* Backspace takes one off it.
LEMMA BackspaceTakes ==
  ASSUME NEW S, NEW b \in Buffers(S), BufferLength(b) > 0
  PROVE  /\ BufferAfterBackspace(b) \in Buffers(S)
         /\ BufferLength(BufferAfterBackspace(b)) = BufferLength(b) - 1
<1> DEFINE none == <<>>
<1>1. b.kana \in Seq(Kanas) /\ b.tail \in Seq(S)
  BY DEF Buffers
<1>2. none \in Seq(S) /\ Len(none) = 0
  OBVIOUS
<1>3. Len(b.kana) \in Nat /\ Len(b.tail) \in Nat /\ BufferLength(b) = Len(b.kana) + Len(b.tail)
  BY <1>1 DEF BufferLength
<1>4. b.tail = none => Len(b.tail) = 0
  OBVIOUS
<1>5. b.kana = none => Len(b.kana) = 0
  OBVIOUS
<1>6. BufferAfterBackspace(b) =
        IF b.tail # none THEN Buffer(b.kana, Strings!Front(b.tail)) ELSE Buffer(Strings!Front(b.kana), none)
  BY Zenon DEF BufferAfterBackspace
<1>f. \A s \in Seq(S) : s # none => Strings!Front(s) \in Seq(S) /\ Len(Strings!Front(s)) = Len(s) - 1
  BY Zenon, FrontIs
<1>g. \A s \in Seq(Kanas) : s # none => Strings!Front(s) \in Seq(Kanas) /\ Len(Strings!Front(s)) = Len(s) - 1
  BY Zenon, FrontIs
<1> HIDE DEF none
<1>7. \A kana \in Seq(Kanas), t \in Seq(S) :
        Buffer(kana, t) \in Buffers(S) /\ BufferLength(Buffer(kana, t)) = Len(kana) + Len(t)
  BY DEF Buffers, Buffer, BufferLength
<1>8. CASE b.tail # none
  <2>1. Strings!Front(b.tail) \in Seq(S) /\ Len(Strings!Front(b.tail)) = Len(b.tail) - 1
    BY Zenon, <1>1, <1>8, <1>f
  <2>2. BufferAfterBackspace(b) = Buffer(b.kana, Strings!Front(b.tail))
    BY Zenon, <1>6, <1>8
  <2>3. /\ BufferAfterBackspace(b) \in Buffers(S)
        /\ BufferLength(BufferAfterBackspace(b)) = Len(b.kana) + Len(Strings!Front(b.tail))
    BY Zenon, <1>1, <1>7, <2>1, <2>2
  <2> QED BY <1>3, <2>1, <2>3
<1>9. CASE b.tail = none
  <2>1. b.kana # none
    BY <1>3, <1>4, <1>5, <1>9
  <2>2. Strings!Front(b.kana) \in Seq(Kanas) /\ Len(Strings!Front(b.kana)) = Len(b.kana) - 1
    BY Zenon, <1>1, <2>1, <1>g
  <2>3. BufferAfterBackspace(b) = Buffer(Strings!Front(b.kana), none)
    BY Zenon, <1>6, <1>9
  <2>4. /\ BufferAfterBackspace(b) \in Buffers(S)
        /\ BufferLength(BufferAfterBackspace(b)) = Len(Strings!Front(b.kana)) + Len(none)
    BY Zenon, <1>2, <1>7, <2>2, <2>3
  <2> QED BY <1>2, <1>3, <1>4, <1>9, <2>2, <2>4
<1> QED BY <1>8, <1>9

\* The buffer holds kana and keystrokes, no more of them than were typed.
KanaInv ==
  /\ buffer \in Buffers(Strokes) /\ typed \in Seq(Strokes)
  /\ BufferLength(buffer) <= Len(typed) /\ straight \in BOOLEAN

LEMMA KanaStarts == KanaInit => KanaInv
<1> SUFFICES ASSUME KanaInit PROVE KanaInv
  OBVIOUS
<1> DEFINE none == <<>>
<1>1. \A S : none \in Seq(S) /\ Len(none) = 0
  OBVIOUS
<1>2. buffer = Buffer(none, none) /\ typed = none /\ straight \in BOOLEAN
  BY DEF KanaInit
<1> HIDE DEF none
<1> QED BY <1>1, <1>2 DEF KanaInv, Buffers, Buffer, BufferLength

LEMMA KanaStays ==
  ASSUME KanaInv, KanaNext \/ NoKana
  PROVE  KanaInv'
<1> USE DEF KanaInv
<1>1. CASE RemoveVirtualKey
  <2>1. /\ BufferLength(buffer) > 1 /\ buffer' = BufferAfterBackspace(buffer)
        /\ typed' = typed /\ straight' \in BOOLEAN
    BY <1>1 DEF RemoveVirtualKey
  <2>2. /\ BufferAfterBackspace(buffer) \in Buffers(Strokes)
        /\ BufferLength(BufferAfterBackspace(buffer)) = BufferLength(buffer) - 1
    <3>1. BufferLength(buffer) \in Nat
      BY BufferIsSized
    <3>2. BufferLength(buffer) > 0
      BY <2>1, <3>1
    <3> QED BY <3>2, BackspaceTakes
  <2>3. BufferLength(buffer) \in Nat /\ Len(typed) \in Nat
    BY DEF BufferLength, Buffers
  <2>4. BufferLength(BufferAfterBackspace(buffer)) <= Len(typed)
    BY <2>2, <2>3
  <2> QED BY <2>1, <2>2, <2>4
<1>2. CASE PurgeVirtualKey
  <2>1. KanaInit'
    BY <1>2 DEF PurgeVirtualKey, KanaInit
  <2>2. (KanaInit => KanaInv)'
    BY KanaStarts, PTL
  <2> QED BY <2>1, <2>2
<1>3. ASSUME NEW ch \in Strokes, AddVirtualKey(ch) PROVE KanaInv'
  <2>1. /\ buffer' = BufferAfterKeystroke(buffer, ch)
        /\ typed' = Append(typed, ch) /\ straight' = straight
    BY <1>3 DEF AddVirtualKey
  <2>2. /\ BufferAfterKeystroke(buffer, ch) \in Buffers(Strokes)
        /\ BufferLength(BufferAfterKeystroke(buffer, ch)) <= BufferLength(buffer) + 1
    BY KeystrokeAdds
  <2>3. Append(typed, ch) \in Seq(Strokes) /\ Len(Append(typed, ch)) = Len(typed) + 1 /\ Len(typed) \in Nat
    OBVIOUS
  <2>4. BufferLength(buffer) \in Nat
    BY DEF BufferLength, Buffers
  <2>5. BufferLength(BufferAfterKeystroke(buffer, ch)) \in Nat
    BY <2>2 DEF BufferLength, Buffers
  <2>6. BufferLength(BufferAfterKeystroke(buffer, ch)) <= Len(Append(typed, ch))
    BY <2>2, <2>3, <2>4, <2>5
  <2> QED BY <2>1, <2>2, <2>3, <2>6
<1>4. CASE NoKana
  BY <1>4 DEF NoKana, kanaVars
<1> QED BY <1>1, <1>2, <1>3, <1>4 DEF KanaNext

LEMMA KanaIsTyped == KanaInv => KanaTypeOK
BY DEF KanaInv, KanaTypeOK, Buffers

-----------------------------------------------------------------------------
(* The keystroke buffer spells what was typed: a syllable that is settled  *)
(* is the same with one keystroke more (SyllableStays), so that settling   *)
(* each keystroke as it comes makes what the whole word makes              *)
(* (RebuildJoins), and what is not settled is shown letter by letter       *)
(* (DisplayIs), with Backspace or without (BackspacePends).                *)

(* The turns of FirstSyllable, each by its condition.                      *)
Closes(w)  == Len(w) > 1 /\ w[1] = "n" /\ ~Continues(w, 2)
Doubles(w) == Len(w) > 1 /\ w[1] = w[2] /\ DoublesToSokuon(w[1])
Matches(w) == {n \in 1..kMaxRuleLength : n <= Len(w) /\ SubSeq(w, 1, n) \in Romaji}
Longest(w) == CHOOSE n \in Matches(w) : \A m \in Matches(w) : m <= n

ClosedBy(w) == IF w[2] = "'" \/ (w[2] = "n" /\ ~Continues(w, 3)) THEN 2 ELSE 1

LEMMA SyllableIs ==
  ASSUME NEW w
  PROVE  /\ Closes(w) => FirstSyllable(w) = Syllable(<<N>>, ClosedBy(w))
         /\ ~Closes(w) /\ Doubles(w) => FirstSyllable(w) = Syllable(<<Sokuon>>, 1)
         /\ ~Closes(w) /\ ~Doubles(w) /\ Matches(w) # {} =>
              FirstSyllable(w) = Syllable(Lookup[SubSeq(w, 1, Longest(w))], Longest(w))
         /\ ~Closes(w) /\ ~Doubles(w) /\ Matches(w) = {} =>
              FirstSyllable(w) = Syllable(<<>>, IF IsPrefixOfRule(w) THEN 0 ELSE 1)
BY DEF FirstSyllable, Closes, Doubles, Matches, Longest, ClosedBy

LEMMA LongestIs ==
  ASSUME NEW w, Matches(w) # {}
  PROVE  Longest(w) \in Matches(w) /\ Longest(w) \in 1..4
<1> DEFINE matches == Matches(w)
           best == CHOOSE n \in matches : \A m \in matches : m <= n
<1>1. matches \in SUBSET (1..4)
  BY DEF Matches, kMaxRuleLength
<1>2. \E n \in matches : \A m \in matches : m <= n
  <2> HIDE DEF matches
  <2>1. matches # {}
    BY DEF matches
  <2> QED BY <1>1, <2>1, GreatestLength
<1>3. best \in matches
  <2> HIDE DEF matches
  <2> QED BY <1>2
<1>4. Longest(w) = best
  BY DEF Longest
<1> HIDE DEF matches, best
<1>5. Longest(w) \in matches /\ Longest(w) \in 1..4
  BY <1>1, <1>3, <1>4
<1> QED BY <1>5 DEF matches

\* What is still in the middle of a syllable.
Pends(w) == w = <<>> \/ FirstSyllable(w).used = 0

LEMMA PendingIs ==
  ASSUME NEW w
  PROVE  FirstSyllable(w).used = 0
           <=> ~Closes(w) /\ ~Doubles(w) /\ Matches(w) = {} /\ IsPrefixOfRule(w)
<1> DEFINE used == FirstSyllable(w).used
<1>0. \A kana, n : Syllable(kana, n).used = n
  BY DEF Syllable
<1>1. CASE Closes(w)
  <2>1. used = ClosedBy(w)
    BY <1>0, <1>1, SyllableIs
  <2>2. ClosedBy(w) # 0
    BY DEF ClosedBy
  <2> QED BY <1>1, <2>1, <2>2
<1>2. CASE ~Closes(w) /\ Doubles(w)
  <2>1. used = 1
    BY <1>0, <1>2, SyllableIs
  <2> QED BY <1>2, <2>1
<1>3. CASE ~Closes(w) /\ ~Doubles(w) /\ Matches(w) # {}
  <2>1. used = Longest(w)
    BY <1>0, <1>3, SyllableIs
  <2>2. Longest(w) \in 1..4
    BY <1>3, LongestIs
  <2> QED BY <1>3, <2>1, <2>2
<1>4. CASE ~Closes(w) /\ ~Doubles(w) /\ Matches(w) = {}
  <2>1. used = IF IsPrefixOfRule(w) THEN 0 ELSE 1
    BY <1>0, <1>4, SyllableIs
  <2> QED BY <1>4, <2>1
<1> QED BY <1>1, <1>2, <1>3, <1>4

LEMMA RomajiIsSpelt == ASSUME NEW romaji \in Romaji PROVE Spelt(romaji)
<1>1. PICK rule \in Rules : romaji = rule[1]
  BY DEF Romaji
<1>2. Neat(rule)
  BY RulesAreNeat
<1> QED BY <1>1, <1>2 DEF Neat

\* No romaji goes on after another.
LEMMA NoneGoesOn ==
  ASSUME NEW r \in Romaji, NEW s \in Romaji, Len(r) <= Len(s), SubSeq(s, 1, Len(r)) = r
  PROVE  Len(r) = Len(s)
<1>1. /\ Len(r) \in Nat /\ Len(s) \in Nat /\ Len(r) > 0
      /\ s \in Seq(Heads \union Ends)
      /\ r[Len(r)] \in Ends
      /\ \A i \in 1..Len(s) : s[i] \in Ends <=> i = Len(s)
  <2>1. Spelt(r) /\ Spelt(s)
    BY RomajiIsSpelt
  <2>2. /\ r \in Seq(Heads \union Ends) /\ Len(r) > 0
        /\ \A i \in 1..Len(r) : r[i] \in Ends <=> i = Len(r)
    BY <2>1 DEF Spelt
  <2>3. /\ s \in Seq(Heads \union Ends)
        /\ \A i \in 1..Len(s) : s[i] \in Ends <=> i = Len(s)
    BY <2>1 DEF Spelt
  <2> DEFINE S == Heads \union Ends
  <2>m. r \in Seq(S) /\ s \in Seq(S)
    BY <2>2, <2>3
  <2>4. Len(r) \in Nat /\ Len(s) \in Nat
    <3> HIDE DEF S
    <3> QED BY ONLY <2>m
  <2>5. Len(r) > 0 /\ Len(r) \in 1..Len(r)
    BY ONLY <2>2, <2>4
  <2>6. r[Len(r)] \in Ends
    BY <2>2, <2>5
  <2> QED BY Zenon, <2>2, <2>3, <2>4, <2>5, <2>6
<1>2. SubSeq(s, 1, Len(r))[Len(r)] = s[Len(r)] /\ Len(r) \in 1..Len(s)
  BY <1>1
<1>3. s[Len(r)] \in Ends
  BY <1>1, <1>2
<1> QED BY <1>1, <1>2, <1>3

\* The letters before a vowel are the beginning of a romaji.
LEMMA GrowsInto ==
  ASSUME NEW S, NEW u \in Seq(S), NEW s \in Romaji, s \in Seq(S), Len(u) < Len(s),
         \A i \in 1..Len(u) : s[i] = u[i]
  PROVE  IsPrefixOfRule(u)
<1> DEFINE a == SubSeq(u, 1, Len(u))
           b == SubSeq(s, 1, Len(u))
<1>1. Len(u) \in Nat /\ Len(s) \in Nat
  OBVIOUS
<1>2. a = u
  BY SubSeqFull
<1>3. b \in Seq(S) /\ Len(b) = Len(u) /\ \A i \in 1..Len(u) : b[i] = s[i]
  BY <1>1
<1> HIDE DEF a, b
<1>4. b = u
  BY <1>3, SeqEqual
<1>5. Strings!IsPrefix(u, s)
  BY <1>1, <1>2, <1>4 DEF Strings!IsPrefix, a, b
<1>6. Len(s) > Len(u)
  BY <1>1
<1>7. \E rule \in Romaji : Len(rule) > Len(u) /\ Strings!IsPrefix(u, rule)
  BY Zenon, <1>5, <1>6
<1> QED BY ONLY <1>7 DEF IsPrefixOfRule

LEMMA HeadsBegin == ASSUME NEW c \in Heads PROVE IsPrefixOfRule(<<c>>)
<1>1. \E s \in Romaji : s \in Seq(Heads \union Ends) /\ Len(s) > 1 /\ s[1] = c
  <2> DEFINE one(onset, v) == onset \o <<v>>
  <2>0. \A onset, row, vowels : \A v \in vowels : <<one(onset, v), <<<<row, v>>>>>> \in OneKana(onset, row, vowels)
    BY DEF OneKana
  <2>1. \A onset, first, vowels : \A v \in vowels : <<one(onset, v), <<first, <<"x", v>>>>>> \in Foreign(onset, first, vowels)
    BY DEF Foreign
  <2>2. \A onset, row, vowels : \A v \in vowels : <<one(onset, v), <<<<row, "i">>, Small(v)>>>> \in Family(onset, row, vowels)
    BY DEF Family
  <2>3. \A rule \in Rules : rule[1] \in Romaji
    BY DEF Romaji
  <2>4. \A r, k : <<r, k>>[1] = r
    OBVIOUS
  <2>5. "a" \in Vowels /\ "a" \in Vowels \ {"i"} /\ "a" \in Vowels \ {"u"} /\ "a" \in {"a", "u", "o"} /\ "a" \in {"a", "o"}
    BY DEF Vowels
  <2> HIDE DEF one
  <2>6. ASSUME NEW onset \in Seq(Heads), onset # <<>>, onset[1] = c, one(onset, "a") \in Romaji
        PROVE  \E s \in Romaji : s \in Seq(Heads \union Ends) /\ Len(s) > 1 /\ s[1] = c
    <3>1. Len(onset) \in Nat /\ Len(onset) # 0 /\ "a" \in Ends
      BY <2>6, HeadsAndEnds
    <3>2. <<"a">> \in Seq(Heads \union Ends) /\ Len(<<"a">>) = 1 /\ onset \in Seq(Heads \union Ends)
      BY <3>1
    <3>3. /\ one(onset, "a") \in Seq(Heads \union Ends) /\ Len(one(onset, "a")) = Len(onset) + 1
          /\ one(onset, "a")[1] = onset[1]
      BY <3>1, <3>2 DEF one
    <3>4. Len(one(onset, "a")) > 1
      BY <3>1, <3>3
    <3> QED BY <2>6, <3>3, <3>4
  <2>7. <<c>> \in Seq(Heads) /\ <<c>> # <<>> /\ <<c>>[1] = c
    OBVIOUS
  <2>8. CASE c # "c"
    <3>1. one(<<c>>, "a") \in Romaji
      <4>1. CASE c \in Plain
        <5>1. OneKana(<<c>>, c, Vowels) \subseteq Rules
          <6> DEFINE own(d) == OneKana(<<d>>, d, Vowels) \union Family(<<d, "y">>, d, Vowels)
          <6>1. UNION {own(d) : d \in Plain} \subseteq Rules
            BY DEF Rules
          <6>2. OneKana(<<c>>, c, Vowels) \subseteq own(c)
            OBVIOUS
          <6> HIDE DEF own
          <6> QED BY <4>1, <6>1, <6>2
        <5> QED BY Zenon, <5>1, <2>0, <2>3, <2>4, <2>5
      <4>2. CASE c = "j"
        <5>1. Family(<<"j">>, "z", Vowels \ {"i"}) \subseteq Rules
          BY DEF Rules
        <5> QED BY Zenon, <4>2, <5>1, <2>2, <2>3, <2>4, <2>5
      <4>3. CASE c = "f"
        <5>1. Foreign(<<"f">>, <<"h", "u">>, Vowels \ {"u"}) \subseteq Rules
          BY DEF Rules
        <5> QED BY Zenon, <4>3, <5>1, <2>1, <2>3, <2>4, <2>5
      <4>4. CASE c = "v"
        <5>1. Foreign(<<"v">>, <<"v", "u">>, Vowels \ {"u"}) \subseteq Rules
          BY DEF Rules
        <5> QED BY Zenon, <4>4, <5>1, <2>1, <2>3, <2>4, <2>5
      <4>5. CASE c = "w"
        <5>1. OneKana(<<"w">>, "w", {"a", "o"}) \subseteq Rules
          BY DEF Rules
        <5> QED BY Zenon, <4>5, <5>1, <2>0, <2>3, <2>4, <2>5
      <4>6. CASE c = "y"
        <5>1. OneKana(<<"y">>, "y", {"a", "u", "o"}) \subseteq Rules
          BY DEF Rules
        <5> QED BY Zenon, <4>6, <5>1, <2>0, <2>3, <2>4, <2>5
      <4>7. CASE c \in {"x", "l"}
        <5>1. OneKana(<<c>>, "x", Vowels) \subseteq Rules
          <6> DEFINE own(d) == OneKana(<<d>>, "x", Vowels) \union OneKana(<<d, "y">>, "xy", {"a", "u", "o"})
                       \union {<<<<d, "t", "s", "u">>, <<Sokuon>>>>, <<<<d, "t", "u">>, <<Sokuon>>>>,
                               <<<<d, "w", "a">>, <<<<"x", "wa">>>>>>}
          <6>1. UNION {own(d) : d \in {"x", "l"}} \subseteq Rules
            BY DEF Rules
          <6>2. OneKana(<<c>>, "x", Vowels) \subseteq own(c)
            OBVIOUS
          <6> HIDE DEF own
          <6> QED BY <4>7, <6>1, <6>2
        <5> QED BY Zenon, <5>1, <2>0, <2>3, <2>4, <2>5
      <4> QED BY <2>8, <4>1, <4>2, <4>3, <4>4, <4>5, <4>6, <4>7 DEF Heads
    <3> QED BY <2>6, <2>7, <3>1
  <2>9. CASE c = "c"
    <3>1. Family(<<"c", "y">>, "t", Vowels) \subseteq Rules
      BY DEF Rules
    <3>2. one(<<"c", "y">>, "a") \in Romaji
      BY Zenon, <3>1, <2>2, <2>3, <2>4, <2>5
    <3>3. <<"c", "y">> \in Seq(Heads) /\ <<"c", "y">> # <<>> /\ <<"c", "y">>[1] = "c"
      BY HeadsAndEnds
    <3> QED BY <2>6, <2>9, <3>2, <3>3
  <2> QED BY <2>8, <2>9
<1>2. PICK s \in Romaji : s \in Seq(Heads \union Ends) /\ Len(s) > 1 /\ s[1] = c
  BY <1>1
<1>3. <<c>> \in Seq(Heads \union Ends) /\ Len(<<c>>) = 1 /\ <<c>>[1] = c
  OBVIOUS
<1> DEFINE u == <<c>>
<1> HIDE DEF u
<1>4. u \in Seq(Heads \union Ends) /\ Len(u) = 1 /\ u[1] = c
  BY <1>3 DEF u
<1>5. IsPrefixOfRule(u)
  <2>1. Len(u) < Len(s) /\ \A i \in 1..Len(u) : s[i] = u[i]
    BY <1>2, <1>4
  <2> DEFINE S == Heads \union Ends
  <2>2. u \in Seq(S) /\ s \in Seq(S) /\ s \in Romaji
    BY <1>2, <1>4
  <2> HIDE DEF S
  <2> QED BY <2>1, <2>2, GrowsInto
<1> QED BY <1>5 DEF u

LEMMA RuleLettersAre == ASSUME NEW c \in RuleLetters PROVE c \in Heads \/ c \in Ends \/ c = "q"
<1>1. CASE c = "q"
  BY <1>1
<1>2. CASE c # "q"
  <2> DEFINE of(romaji) == {romaji[i] : i \in DOMAIN romaji}
  <2>0. RuleLetters = {"q"} \union UNION {of(romaji) : romaji \in Romaji}
    BY DEF RuleLetters
  <2>1. PICK s \in Romaji : c \in of(s)
    <3> HIDE DEF of
    <3>1. c \in {"q"} \union UNION {of(romaji) : romaji \in Romaji}
      BY Zenon, <2>0
    <3>2. c \in UNION {of(romaji) : romaji \in Romaji}
      BY <1>2, <3>1
    <3> QED BY Zenon, <3>2
  <2> DEFINE S == Heads \union Ends
  <2>2. s \in Seq(S)
    BY RomajiIsSpelt DEF Spelt
  <2> HIDE DEF S
  <2>3. PICK i \in DOMAIN s : c = s[i]
    BY <2>1
  <2>4. c \in S
    BY <2>2, <2>3
  <2> QED BY <2>4 DEF S
<1> QED BY <1>1, <1>2

\* What is still in the middle of a syllable is so without its last letters.
LEMMA ShorterBegins ==
  ASSUME NEW S, NEW w \in Seq(S), NEW u \in Seq(S), Len(u) <= Len(w), \A i \in 1..Len(u) : u[i] = w[i],
         IsPrefixOfRule(w)
  PROVE  IsPrefixOfRule(u)
<1>1. PICK s \in Romaji : Len(s) > Len(w) /\ Strings!IsPrefix(w, s)
  BY DEF IsPrefixOfRule
<1> DEFINE R == Heads \union Ends
<1>2. s \in Seq(R)
  BY RomajiIsSpelt DEF Spelt
<1> HIDE DEF R
<1>3. Len(w) \in Nat /\ Len(u) \in Nat /\ Len(s) \in Nat
  BY <1>2
<1>4. SubSeq(w, 1, Len(w)) = SubSeq(s, 1, Len(w))
  BY <1>1 DEF Strings!IsPrefix
<1>5. SubSeq(w, 1, Len(w)) = w
  BY SubSeqFull
<1>6. \A i \in 1..Len(w) : SubSeq(s, 1, Len(w))[i] = s[i]
  BY <1>1, <1>2, <1>3
<1>7. \A i \in 1..Len(w) : w[i] = s[i]
  BY <1>4, <1>5, <1>6
<1>8. \A i \in 1..Len(u) : s[i] = u[i]
  BY <1>3, <1>7
<1>9. Len(u) < Len(s)
  BY <1>1, <1>3
<1>10. s \in Seq(R \union S) /\ u \in Seq(R \union S)
  BY <1>2
<1> QED BY <1>8, <1>9, <1>10, GrowsInto

LEMMA SamePart ==
  ASSUME NEW S, NEW w \in Seq(S), NEW u \in Seq(S), Len(u) <= Len(w), \A i \in 1..Len(u) : u[i] = w[i],
         NEW n \in 0..Len(u)
  PROVE  SubSeq(w, 1, n) = SubSeq(u, 1, n)
<1>1. Len(u) \in Nat /\ Len(w) \in Nat /\ n \in Nat
  OBVIOUS
<1> DEFINE a == SubSeq(w, 1, n)
           b == SubSeq(u, 1, n)
<1>2. a \in Seq(S) /\ Len(a) = n /\ \A i \in 1..n : a[i] = w[i]
  BY <1>1
<1>3. b \in Seq(S) /\ Len(b) = n /\ \A i \in 1..n : b[i] = u[i]
  BY <1>1
<1>4. \A i \in 1..n : i \in 1..Len(u)
  BY <1>1
<1> HIDE DEF a, b
<1>5. a = b
  BY <1>2, <1>3, <1>4, SeqEqual
<1> QED BY <1>5 DEF a, b

LEMMA ShorterPends ==
  ASSUME NEW S, NEW w \in Seq(S), NEW u \in Seq(S), Len(u) <= Len(w), \A i \in 1..Len(u) : u[i] = w[i],
         FirstSyllable(w).used = 0
  PROVE  FirstSyllable(u).used = 0
<1>1. ~Closes(w) /\ ~Doubles(w) /\ Matches(w) = {} /\ IsPrefixOfRule(w)
  BY PendingIs
<1>2. Len(u) \in Nat /\ Len(w) \in Nat
  OBVIOUS
<1>3. Len(u) > 1 => /\ Len(w) > 1 /\ u[1] = w[1] /\ u[2] = w[2]
  BY <1>2
<1>4. ~Closes(u)
  <2> SUFFICES ASSUME Closes(u) PROVE FALSE
    OBVIOUS
  <2>1. Len(u) > 1 /\ u[1] = "n" /\ ~Continues(u, 2)
    BY DEF Closes
  <2>2. u[2] \notin Vowels \union {"y"}
    BY <1>2, <2>1 DEF Continues
  <2>3. ~Continues(w, 2)
    BY <1>3, <2>1, <2>2 DEF Continues
  <2> QED BY <1>1, <1>3, <2>1, <2>3 DEF Closes
<1>5. ~Doubles(u)
  BY <1>1, <1>3 DEF Doubles
<1>6. Matches(u) = {}
  <2> SUFFICES ASSUME NEW n \in Matches(u) PROVE FALSE
    OBVIOUS
  <2>1. n \in 1..kMaxRuleLength /\ n <= Len(u) /\ SubSeq(u, 1, n) \in Romaji /\ n \in 1..4
    BY DEF Matches, kMaxRuleLength
  <2>2. n \in 0..Len(u) /\ n <= Len(w)
    BY <1>2, <2>1
  <2>3. SubSeq(w, 1, n) = SubSeq(u, 1, n)
    BY <2>2, SamePart
  <2>4. n \in Matches(w)
    BY <2>1, <2>2, <2>3 DEF Matches
  <2> QED BY <1>1, <2>4
<1>7. IsPrefixOfRule(u)
  BY <1>1, ShorterBegins
<1> QED BY <1>4, <1>5, <1>6, <1>7, PendingIs

\* The two ways in which what is settled would be settled otherwise a keystroke later.
OddStart(w) ==
  \/ Len(w) > 2 /\ w[1] = "n" /\ w[2] = "n" /\ w[3] \in Vowels \union {"y"}
  \/ Len(w) > 1 /\ w[1] = "q" /\ w[2] = "q"

(* A syllable that is settled is the same with one keystroke more, for no  *)
(* romaji goes on after another.                                           *)
LEMMA SyllableStays ==
  ASSUME NEW S, NEW u \in Seq(S), NEW ch \in S, Len(u) # 0, FirstSyllable(u).used # 0,
         ~OddStart(Append(u, ch))
  PROVE  FirstSyllable(Append(u, ch)) = FirstSyllable(u)
<1> DEFINE w == Append(u, ch)
<1>1. w \in Seq(S) /\ Len(w) = Len(u) + 1 /\ Len(u) \in Nat
  OBVIOUS
<1>2. w[Len(u) + 1] = ch /\ \A i \in 1..Len(u) : u[i] = w[i]
  OBVIOUS
<1>3. ~OddStart(w)
  OBVIOUS
<1> HIDE DEF w
<1>4. Len(u) > 0 /\ Len(u) <= Len(w) /\ Len(w) > 1
  BY <1>1
<1>o. Len(u) > 1 \/ Len(u) = 1
  <2>1. \A n \in Nat : n > 0 => n > 1 \/ n = 1
    OBVIOUS
  <2> QED BY Zenon, <1>1, <1>4, <2>1
<1>5. \A n \in 0..Len(u) : SubSeq(w, 1, n) = SubSeq(u, 1, n)
  BY <1>1, <1>2, <1>4, SamePart
<1>6. w[1] = u[1] /\ (Len(u) > 1 => w[2] = u[2]) /\ (Len(u) > 2 => w[3] = u[3])
  BY <1>1, <1>2, <1>4
<1>7. Len(u) > 1 => (Closes(w) <=> Closes(u)) /\ (Doubles(w) <=> Doubles(u))
  <2> SUFFICES ASSUME Len(u) > 1 PROVE (Closes(w) <=> Closes(u)) /\ (Doubles(w) <=> Doubles(u))
    OBVIOUS
  <2>1. 2 <= Len(u) /\ 2 <= Len(w)
    BY <1>1
  <2>2. Continues(w, 2) <=> Continues(u, 2)
    BY <1>6, <2>1 DEF Continues
  <2> QED BY <1>4, <1>6, <2>2 DEF Closes, Doubles
<1>8. CASE Closes(u)
  <2>1. Len(u) > 1 /\ u[1] = "n"
    BY <1>8 DEF Closes
  <2>2. Closes(w)
    BY <1>7, <1>8, <2>1
  <2>3. ASSUME u[2] = "n" PROVE Continues(w, 3) <=> Continues(u, 3)
    <3>1. CASE Len(u) > 2
      <4>1. 3 <= Len(u) /\ 3 <= Len(w)
        BY <1>1, <3>1
      <4> QED BY <1>6, <3>1, <4>1 DEF Continues
    <3>2. CASE ~(Len(u) > 2)
      <4>1. ~(3 <= Len(u)) /\ Len(w) > 2
        BY <1>1, <2>1, <3>2
      <4>2. w[3] \notin Vowels \union {"y"}
        BY <1>3, <1>6, <2>1, <2>3, <4>1 DEF OddStart
      <4> QED BY <4>1, <4>2 DEF Continues
    <3> QED BY <3>1, <3>2
  <2>4. ClosedBy(w) = ClosedBy(u)
    BY <1>6, <2>1, <2>3 DEF ClosedBy
  <2> QED BY <1>8, <2>2, <2>4, SyllableIs DEF w
<1>9. CASE ~Closes(u) /\ Doubles(u)
  <2>1. Len(u) > 1
    BY <1>9 DEF Doubles
  <2>2. ~Closes(w) /\ Doubles(w)
    BY <1>7, <1>9, <2>1
  <2> QED BY <1>9, <2>2, SyllableIs DEF w
<1>10. ASSUME Len(u) = 1 PROVE u = <<u[1]>> /\ SubSeq(u, 1, 1) = <<u[1]>>
  <2> DEFINE r == <<u[1]>>
  <2>1. u[1] \in S /\ 1 \in 1..Len(u)
    BY <1>10
  <2>2. r \in Seq(S) /\ Len(r) = 1 /\ r[1] = u[1]
    BY <2>1
  <2> HIDE DEF r
  <2>3. u = r
    BY <1>10, <2>2, SeqEqual
  <2>4. SubSeq(u, 1, Len(u)) = u
    BY SubSeqFull
  <2> QED BY <1>10, <2>3, <2>4 DEF r
<1>11. Matches(u) \subseteq Matches(w)
  <2> SUFFICES ASSUME NEW n \in Matches(u) PROVE n \in Matches(w)
    OBVIOUS
  <2>1. n \in 1..kMaxRuleLength /\ n <= Len(u) /\ SubSeq(u, 1, n) \in Romaji /\ n \in 1..4
    BY DEF Matches, kMaxRuleLength
  <2>2. n \in 0..Len(u) /\ n <= Len(w)
    BY <1>1, <2>1
  <2>3. SubSeq(w, 1, n) = SubSeq(u, 1, n)
    BY <1>5, <2>2
  <2> QED BY <2>1, <2>2, <2>3 DEF Matches
<1>12. ASSUME NEW n \in Matches(w), n \notin Matches(u) PROVE n = Len(w) /\ w \in Romaji
  <2>1. n \in 1..kMaxRuleLength /\ n <= Len(w) /\ SubSeq(w, 1, n) \in Romaji /\ n \in 1..4
    BY <1>12 DEF Matches, kMaxRuleLength
  <2>2. CASE n <= Len(u)
    <3>1. n \in 0..Len(u)
      BY <2>1, <2>2
    <3>2. SubSeq(w, 1, n) = SubSeq(u, 1, n)
      BY <1>5, <3>1
    <3>3. n \in Matches(u)
      BY <2>1, <2>2, <3>2 DEF Matches
    <3> QED BY <1>12, <3>3
  <2>3. CASE ~(n <= Len(u))
    <3>1. n = Len(w)
      BY <1>1, <2>1, <2>3
    <3>2. SubSeq(w, 1, Len(w)) = w
      BY <1>1, SubSeqFull
    <3> QED BY <2>1, <3>1, <3>2
  <2> QED BY <2>2, <2>3
<1>13. CASE ~Closes(u) /\ ~Doubles(u) /\ Matches(u) # {}
  <2>0. PICK m \in Matches(u) : TRUE
    BY <1>13
  <2>1. m \in 1..4 /\ m <= Len(u) /\ SubSeq(u, 1, m) \in Romaji
    BY DEF Matches, kMaxRuleLength
  <2>2. Len(u) = 1 => u[1] \in Ends
    <3> SUFFICES ASSUME Len(u) = 1 PROVE u[1] \in Ends
      OBVIOUS
    <3>1. m = 1
      BY <2>1
    <3>2. <<u[1]>> \in Romaji
      BY <1>10, <2>1, <3>1
    <3> DEFINE r == <<u[1]>>
    <3>3. Len(r) = 1 /\ r[1] = u[1]
      OBVIOUS
    <3> HIDE DEF r
    <3>4. Spelt(r)
      BY <3>2, RomajiIsSpelt DEF r
    <3>5. 1 \in 1..Len(r) /\ 1 = Len(r)
      BY <3>3
    <3> QED BY <3>3, <3>4, <3>5 DEF Spelt
  <2>3. u[1] \in Ends => u[1] # "n" /\ ~DoublesToSokuon(u[1])
    BY DEF Ends, DoublesToSokuon, Vowels, KanaMarks
  <2>4. ~Closes(w) /\ ~Doubles(w)
    <3>1. CASE Len(u) > 1
      BY <1>7, <1>13, <3>1
    <3>2. CASE Len(u) = 1
      BY <1>6, <2>2, <2>3, <3>2 DEF Closes, Doubles
    <3> QED BY Zenon, <1>o, <3>1, <3>2
  <2>5. Matches(w) \subseteq Matches(u)
    <3> SUFFICES ASSUME NEW n \in Matches(w), n \notin Matches(u) PROVE FALSE
      OBVIOUS
    <3>1. w \in Romaji
      BY <1>12
    <3> DEFINE r == SubSeq(u, 1, m)
    <3>2. Len(r) = m /\ m \in 0..Len(u)
      BY <1>1, <2>1
    <3>3. r = SubSeq(w, 1, m)
      BY <1>5, <3>2
    <3>4. r \in Romaji
      BY <2>1
    <3> HIDE DEF r
    <3>5. Len(r) <= Len(w) /\ SubSeq(w, 1, Len(r)) = r
      BY <1>1, <2>1, <3>2, <3>3
    <3>6. Len(r) = Len(w)
      BY <3>1, <3>4, <3>5, NoneGoesOn
    <3> QED BY <1>1, <2>1, <3>2, <3>6
  <2>6. Matches(w) = Matches(u)
    BY <1>11, <2>5
  <2>7. Longest(w) = Longest(u)
    BY <2>6 DEF Longest
  <2>8. Longest(u) \in Matches(u) /\ Longest(u) \in 1..4
    BY <1>13, LongestIs
  <2>9. Longest(u) <= Len(u)
    BY <2>8 DEF Matches
  <2>10. SubSeq(w, 1, Longest(u)) = SubSeq(u, 1, Longest(u))
    BY <1>1, <1>5, <2>8, <2>9
  <2>11. FirstSyllable(u) = Syllable(Lookup[SubSeq(u, 1, Longest(u))], Longest(u))
    BY <1>13, SyllableIs
  <2>12. FirstSyllable(w) = Syllable(Lookup[SubSeq(w, 1, Longest(w))], Longest(w))
    BY <1>13, <2>4, <2>6, SyllableIs
  <2> QED BY <2>7, <2>10, <2>11, <2>12 DEF w
<1>14. CASE ~Closes(u) /\ ~Doubles(u) /\ Matches(u) = {}
  <2>1. ~IsPrefixOfRule(u)
    BY <1>14, PendingIs
  <2>2. ASSUME Len(u) = 1 PROVE u[1] \notin Heads
    <3>1. u = <<u[1]>>
      BY <1>10, <2>2
    <3> QED BY <2>1, <3>1, HeadsBegin
  <2>3. "n" \in Heads
    BY DEF Heads, Plain
  <2>4. ~Closes(w)
    <3>1. CASE Len(u) > 1
      BY <1>7, <1>14, <3>1
    <3>2. CASE Len(u) = 1
      BY <1>6, <2>2, <2>3, <3>2 DEF Closes
    <3> QED BY Zenon, <1>o, <3>1, <3>2
  <2>5. ~Doubles(w)
    <3>1. CASE Len(u) > 1
      BY <1>7, <1>14, <3>1
    <3>2. CASE Len(u) = 1
      <4> SUFFICES ASSUME Doubles(w) PROVE FALSE
        OBVIOUS
      <4>1. w[1] = w[2] /\ DoublesToSokuon(w[1])
        BY DEF Doubles
      <4>2. w[1] # "q"
        BY <1>3, <1>4, <4>1 DEF OddStart
      <4>3. w[1] \in RuleLetters /\ w[1] \notin Ends
        BY <4>1 DEF DoublesToSokuon, Ends
      <4>4. w[1] \in Heads
        BY <4>2, <4>3, RuleLettersAre
      <4> QED BY <1>6, <2>2, <3>2, <4>4
    <3> QED BY Zenon, <1>o, <3>1, <3>2
  <2>6. Matches(w) = {}
    <3> SUFFICES ASSUME NEW n \in Matches(w) PROVE FALSE
      OBVIOUS
    <3>1. w \in Romaji
      BY <1>12, <1>14
    <3>2. Len(u) < Len(w) /\ \A i \in 1..Len(u) : w[i] = u[i]
      BY <1>1, <1>2
    <3> QED BY <1>1, <2>1, <3>1, <3>2, GrowsInto
  <2>7. ~IsPrefixOfRule(w)
    BY <1>1, <1>2, <1>4, <2>1, ShorterBegins
  <2> QED BY <1>14, <2>1, <2>4, <2>5, <2>6, <2>7, SyllableIs DEF w
<1> QED BY <1>8, <1>9, <1>13, <1>14

\* What is in words in these two ways somewhere.
Odd(w) ==
  \/ \E i \in 1..Len(w) : i + 2 <= Len(w) /\ w[i] = "n" /\ w[i + 1] = "n" /\ w[i + 2] \in Vowels \union {"y"}
  \/ \E i \in 1..Len(w) : i + 1 <= Len(w) /\ w[i] = "q" /\ w[i + 1] = "q"

LEMMA OddStartIsOdd == ASSUME NEW S, NEW w \in Seq(S), OddStart(w) PROVE Odd(w)
<1>1. Len(w) \in Nat
  OBVIOUS
<1>2. CASE Len(w) > 2 /\ w[1] = "n" /\ w[2] = "n" /\ w[3] \in Vowels \union {"y"}
  <2>1. 1 \in 1..Len(w) /\ 1 + 2 <= Len(w) /\ 1 + 1 = 2 /\ 1 + 2 = 3
    BY <1>1, <1>2
  <2> QED BY <1>2, <2>1 DEF Odd
<1>3. CASE Len(w) > 1 /\ w[1] = "q" /\ w[2] = "q"
  <2>1. 1 \in 1..Len(w) /\ 1 + 1 <= Len(w) /\ 1 + 1 = 2
    BY <1>1, <1>3
  <2> QED BY <1>3, <2>1 DEF Odd
<1> QED BY <1>2, <1>3 DEF OddStart

LEMMA OddPart ==
  ASSUME NEW S, NEW v \in Seq(S), NEW w \in Seq(S), NEW k \in Nat, k + Len(v) <= Len(w),
         \A i \in 1..Len(v) : v[i] = w[k + i], Odd(v)
  PROVE  Odd(w)
<1>1. Len(v) \in Nat /\ Len(w) \in Nat
  OBVIOUS
<1>2. ASSUME NEW i \in 1..Len(v), i + 2 <= Len(v), v[i] = "n", v[i + 1] = "n",
             v[i + 2] \in Vowels \union {"y"}
      PROVE  Odd(w)
  <2>1. /\ i + 1 \in 1..Len(v) /\ i + 2 \in 1..Len(v)
        /\ k + i \in 1..Len(w) /\ (k + i) + 2 <= Len(w)
        /\ (k + i) + 1 = k + (i + 1) /\ (k + i) + 2 = k + (i + 2)
    BY <1>1, <1>2
  <2>2. w[k + i] = "n" /\ w[(k + i) + 1] = "n" /\ w[(k + i) + 2] \in Vowels \union {"y"}
    BY <1>2, <2>1
  <2> QED BY <2>1, <2>2 DEF Odd
<1>3. ASSUME NEW i \in 1..Len(v), i + 1 <= Len(v), v[i] = "q", v[i + 1] = "q" PROVE Odd(w)
  <2>1. /\ i + 1 \in 1..Len(v)
        /\ k + i \in 1..Len(w) /\ (k + i) + 1 <= Len(w) /\ (k + i) + 1 = k + (i + 1)
    BY <1>1, <1>3
  <2>2. w[k + i] = "q" /\ w[(k + i) + 1] = "q"
    BY <1>3, <2>1
  <2> QED BY <2>1, <2>2 DEF Odd
<1> QED BY <1>2, <1>3 DEF Odd

\* A buffer after a keystroke that is accepted.
Keyed(b, ch) ==
  Buffer(b.kana \o Rebuild(Append(b.tail, ch)).kana, Rebuild(Append(b.tail, ch)).tail)

LEMMA KeyedNothing ==
  ASSUME NEW S, NEW t \in Seq(S), NEW ch \in S
  PROVE  Keyed(Buffer(<<>>, t), ch) = Rebuild(Append(t, ch))
<1> DEFINE r == Rebuild(Append(t, ch))
           none == <<>>
<1>1. Append(t, ch) \in Seq(S)
  OBVIOUS
<1>2. r \in Buffers(S)
  BY <1>1, RebuildShrinks
<1>3. Keyed(Buffer(none, t), ch) = Buffer(none \o r.kana, r.tail)
  BY DEF Keyed, Buffer
<1> HIDE DEF r
<1>4. r.kana \in Seq(Kanas) /\ r = Buffer(r.kana, r.tail)
  BY <1>2, BufferIsSized
<1>5. none \o r.kana = r.kana
  BY <1>4, ConcatEmptySeq
<1> HIDE DEF none
<1>6. Keyed(Buffer(none, t), ch) = r
  BY Zenon, <1>3, <1>4, <1>5
<1> QED BY <1>6 DEF r, none

LEMMA HeadIsKeyed ==
  ASSUME NEW S, NEW kana \in Seq(Kanas), NEW b \in Buffers(S), NEW ch \in S
  PROVE  Keyed(AddHead(kana, b), ch) = AddHead(kana, Keyed(b, ch))
<1> DEFINE r == Rebuild(Append(b.tail, ch))
           h == AddHead(kana, b)
<1>1. b.kana \in Seq(Kanas) /\ b.tail \in Seq(S) /\ b = Buffer(b.kana, b.tail)
  BY BufferIsSized
<1>2. Append(b.tail, ch) \in Seq(S)
  BY <1>1
<1>3. r \in Buffers(S)
  BY <1>2, RebuildShrinks
<1> DEFINE J == Keyed(b, ch)
<1>4. J = Buffer(b.kana \o r.kana, r.tail)
  BY DEF Keyed
<1>5. h \in Buffers(S) /\ h.kana = kana \o b.kana /\ h.tail = b.tail
  BY AddHeadIs
<1>6. Keyed(h, ch) = Buffer((kana \o b.kana) \o r.kana, r.tail)
  BY Zenon, <1>5 DEF Keyed
<1> DEFINE bk == b.kana
           rk == r.kana
           rt == r.tail
<1> HIDE DEF r, h, J
<1>7. bk \in Seq(Kanas) /\ rk \in Seq(Kanas) /\ rt \in Seq(S)
  BY <1>1, <1>3, BufferIsSized
<1>8. J = Buffer(bk \o rk, rt) /\ Keyed(h, ch) = Buffer((kana \o bk) \o rk, rt)
  BY <1>4, <1>6
<1> HIDE DEF bk, rk, rt
<1>9. (kana \o bk) \o rk = kana \o (bk \o rk) /\ bk \o rk \in Seq(Kanas)
  BY SMTT(40), <1>7, ConcatAssociative, ConcatProperties
<1>10. J \in Buffers(S) /\ J.kana = bk \o rk /\ J.tail = rt
  BY <1>7, <1>8, <1>9 DEF Buffers, Buffer
<1>11. /\ AddHead(kana, J) \in Buffers(S)
       /\ AddHead(kana, J).kana = kana \o (bk \o rk) /\ AddHead(kana, J).tail = rt
  <2>1. J \in Buffers(S)
    BY <1>10
  <2>2. /\ AddHead(kana, J) \in Buffers(S)
        /\ AddHead(kana, J).kana = kana \o J.kana /\ AddHead(kana, J).tail = J.tail
    BY <2>1, AddHeadIs
  <2> QED BY Zenon, <1>10, <2>2
<1>12. AddHead(kana, J) = Buffer(AddHead(kana, J).kana, AddHead(kana, J).tail)
  BY <1>11, BufferIsSized
<1>13. Keyed(h, ch) = AddHead(kana, J)
  BY Zenon, <1>8, <1>9, <1>11, <1>12
<1> QED BY <1>13 DEF h, J

\* What is not used yet, with a keystroke more.
LEMMA UnusedGrows ==
  ASSUME NEW S, NEW u \in Seq(S), NEW ch \in S, NEW used \in 0..Len(u)
  PROVE  Unused(Append(u, ch), used) = Append(Unused(u, used), ch)
<1> DEFINE w == Append(u, ch)
           v == Unused(u, used)
           m == Len(u) - used
<1>1. w \in Seq(S) /\ Len(w) = Len(u) + 1 /\ Len(u) \in Nat /\ m \in 0..Len(u) /\ used = Len(u) - m
  OBVIOUS
<1>2. w[Len(u) + 1] = ch /\ \A i \in 1..Len(u) : w[i] = u[i]
  OBVIOUS
<1>e. v = Ending(u, m) /\ Unused(w, used) = Ending(w, Len(w) - used)
  BY DEF Unused
<1> HIDE DEF w, m, v
<1>3. v \in Seq(S) /\ Len(v) = m /\ \A i \in 1..m : v[i] = u[Len(u) - m + i]
  BY <1>1, <1>e, EndingIs
<1>4. m + 1 \in 0..Len(w) /\ Len(w) - used = m + 1
  BY <1>1
<1> DEFINE a == Ending(w, m + 1)
           b == Append(v, ch)
<1>5. a \in Seq(S) /\ Len(a) = m + 1 /\ \A i \in 1..(m + 1) : a[i] = w[Len(w) - (m + 1) + i]
  BY <1>1, <1>4, EndingIs
<1>6. b \in Seq(S) /\ Len(b) = m + 1 /\ b[m + 1] = ch /\ \A i \in 1..m : b[i] = v[i]
  BY <1>3
<1> HIDE DEF a, b
<1>7. ASSUME NEW i \in 1..(m + 1) PROVE a[i] = b[i]
  <2>1. Len(w) - (m + 1) + i = Len(u) - m + i /\ m \in Nat
    BY <1>1
  <2>2. a[i] = w[Len(u) - m + i]
    BY <1>5, <2>1
  <2>3. CASE i = m + 1
    <3>1. Len(u) - m + i = Len(u) + 1
      BY <1>1, <2>1, <2>3
    <3> QED BY <1>2, <1>6, <2>2, <2>3, <3>1
  <2>4. CASE i # m + 1
    <3>1. i \in 1..m /\ Len(u) - m + i \in 1..Len(u)
      BY <1>1, <2>1, <2>4
    <3> QED BY <1>2, <1>3, <1>6, <2>2, <3>1
  <2> QED BY <2>3, <2>4
<1>8. a = b
  BY <1>5, <1>6, <1>7, SeqEqual
<1> QED BY <1>4, <1>8, <1>e DEF a, b, w, v

(* Settling each keystroke as it comes makes what the whole word makes,    *)
(* by the turns of the word that is typed so far.                          *)
LEMMA RebuildJoins ==
  ASSUME NEW S, NEW ch \in S
  PROVE  \A u \in Seq(S) : Odd(Append(u, ch)) \/ Rebuild(Append(u, ch)) = Keyed(Rebuild(u), ch)
<1> DEFINE Agrees(u) == Odd(Append(u, ch)) \/ Rebuild(Append(u, ch)) = Keyed(Rebuild(u), ch)
           T == {u \in Seq(S) : Agrees(u)}
<1>1. ASSUME NEW u \in Seq(S), \A v \in Seq(S) : Len(v) < Len(u) => v \in T PROVE u \in T
  <2> DEFINE head == FirstSyllable(u)
             w == Append(u, ch)
             v == Unused(u, head.used)
  <2>0. w \in Seq(S) /\ Len(w) = Len(u) + 1 /\ Len(u) \in Nat
    OBVIOUS
  <2>1. CASE Len(u) = 0
    <3> DEFINE none == <<>>
    <3>1. Rebuild(u) = Buffer(none, none)
      BY <2>1, RebuildIs
    <3>2. u = none
      BY <2>1, EmptySeq
    <3>3. Keyed(Buffer(none, u), ch) = Rebuild(w)
      BY KeyedNothing
    <3> HIDE DEF none, w
    <3>4. Rebuild(w) = Keyed(Rebuild(u), ch)
      BY <3>1, <3>2, <3>3
    <3> QED BY <3>4 DEF w
  <2>2. CASE Len(u) # 0 /\ head.used = 0
    <3>1. Rebuild(u) = Buffer(<<>>, u)
      BY <2>2, RebuildIs
    <3>2. Keyed(Buffer(<<>>, u), ch) = Rebuild(w)
      BY KeyedNothing
    <3> QED BY <3>1, <3>2
  <2>3. CASE Len(u) # 0 /\ head.used # 0
    <3>1. CASE Odd(w)
      BY <3>1
    <3>2. CASE ~Odd(w)
      <4>1. ~OddStart(w)
        BY <2>0, <3>2, OddStartIsOdd
      <4>2. FirstSyllable(w) = head
        BY <2>3, <4>1, SyllableStays
      <4>3. /\ Rebuild(u) = AddHead(head.kana, Rebuild(v))
            /\ v \in Seq(S) /\ Len(v) < Len(u) /\ Len(v) = Len(u) - head.used
        BY <2>3, RebuildIs, UnusedIs
      <4>4. head.used \in 0..Len(u) /\ head.kana \in Seq(Kanas)
        BY <2>0, <2>3, SyllableShrinks
      <4>5. Unused(w, head.used) = Append(v, ch)
        BY <4>4, UnusedGrows
      <4>6. Len(w) # 0
        BY <2>0
      <4> DEFINE x == Append(v, ch)
      <4>7. x \in Seq(S) /\ Len(x) = Len(v) + 1 /\ x = Append(v, ch)
        BY <4>3
      <4> HIDE DEF w, v, head, x
      <4>8. Rebuild(w) = AddHead(head.kana, Rebuild(x))
        BY <2>0, <2>3, <4>2, <4>5, <4>6, <4>7, RebuildIs
      <4>9. ~Odd(x)
        <5>1. x = Ending(w, Len(w) - head.used)
          BY <4>5, <4>7 DEF Unused
        <5> DEFINE n == Len(w) - head.used
        <5>2. n \in 0..Len(w) /\ n \in Nat
          BY <2>0, <4>4
        <5>3. x = Ending(w, n)
          BY <5>1
        <5> HIDE DEF n
        <5>4. Len(x) = n /\ \A i \in 1..n : x[i] = w[Len(w) - n + i]
          BY <2>0, <5>2, <5>3, EndingIs
        <5> DEFINE k == Len(w) - n
        <5>5. k \in Nat /\ k + n <= Len(w)
          BY <2>0, <5>2
        <5>6. \A i \in 1..n : x[i] = w[k + i]
          BY <5>4
        <5> HIDE DEF k
        <5>7. Odd(x) => Odd(w)
          BY <2>0, <4>7, <5>4, <5>5, <5>6, OddPart
        <5> QED BY <3>2, <5>7
      <4>10. v \in T
        BY <1>1, <4>3
      <4>11. Rebuild(x) = Keyed(Rebuild(v), ch)
        BY <4>7, <4>9, <4>10
      <4>12. Rebuild(v) \in Buffers(S)
        BY <4>3, RebuildShrinks
      <4>13. Keyed(AddHead(head.kana, Rebuild(v)), ch) = AddHead(head.kana, Keyed(Rebuild(v), ch))
        BY <4>4, <4>12, HeadIsKeyed
      <4>14. Rebuild(w) = Keyed(Rebuild(u), ch)
        BY Zenon, <4>3, <4>8, <4>11, <4>13
      <4> QED BY <4>14 DEF w
    <3> QED BY <3>1, <3>2
  <2> HIDE DEF T, head
  <2> QED BY <2>1, <2>2, <2>3
<1>2. \A u \in Seq(S) : u \in T
  <2> HIDE DEF T
  <2> QED BY <1>1, WordInduction
<1> QED BY <1>2

\* Rebuild keeps what is in the middle of a syllable, and no more.
LEMMA TailPends == ASSUME NEW S PROVE \A w \in Seq(S) : Pends(Rebuild(w).tail)
<1> DEFINE T == {w \in Seq(S) : Pends(Rebuild(w).tail)}
<1>0. \A k, t : Buffer(k, t).tail = t
  BY DEF Buffer
<1>1. ASSUME NEW w \in Seq(S), \A v \in Seq(S) : Len(v) < Len(w) => v \in T PROVE w \in T
  <2> DEFINE head == FirstSyllable(w)
             v == Unused(w, head.used)
  <2>1. CASE Len(w) = 0
    <3> DEFINE none == <<>>
    <3>1. Rebuild(w) = Buffer(none, none)
      BY <2>1, RebuildIs
    <3>2. Pends(none)
      BY DEF Pends
    <3> HIDE DEF none
    <3> QED BY <1>0, <3>1, <3>2
  <2>2. CASE Len(w) # 0 /\ head.used = 0
    <3>1. Rebuild(w) = Buffer(<<>>, w)
      BY <2>2, RebuildIs
    <3>2. Rebuild(w).tail = w
      BY <1>0, <3>1
    <3>3. Pends(w)
      BY <2>2 DEF Pends
    <3> QED BY <3>2, <3>3
  <2>3. CASE Len(w) # 0 /\ head.used # 0
    <3>1. /\ Rebuild(w) = AddHead(head.kana, Rebuild(v))
          /\ v \in Seq(S) /\ Len(v) < Len(w)
      BY <2>3, RebuildIs, UnusedIs
    <3> HIDE DEF v, head
    <3>2. Rebuild(v) \in Buffers(S)
      BY <3>1, RebuildShrinks
    <3>3. Rebuild(w).tail = Rebuild(v).tail
      <4>1. Len(w) \in Nat /\ Len(w) > 0
        BY <2>3
      <4>2. head.kana \in Seq(Kanas)
        BY <4>1, SyllableShrinks DEF head
      <4> QED BY <3>1, <3>2, <4>2, AddHeadIs
    <3>4. Pends(Rebuild(v).tail)
      BY <1>1, <3>1
    <3> QED BY <3>3, <3>4
  <2> HIDE DEF T, head
  <2> QED BY <2>1, <2>2, <2>3
<1>2. \A w \in Seq(S) : w \in T
  <2> HIDE DEF T
  <2> QED BY <1>1, WordInduction
<1> QED BY <1>2

\* Nothing is passed over in letters that are accepted.
LEMMA FeedIsRebuild ==
  ASSUME NEW S, NEW w \in Seq(S), \A c \in S : IsAccepted(c)
  PROVE  Feed(w) = Rebuild(w)
<1> DEFINE D == 0..Len(w)
           none == <<>>
           Is(g, n) == IF n = 0 THEN <<>>
                       ELSE IF IsAccepted(w[n]) THEN Append(g[n - 1], w[n]) ELSE g[n - 1]
           of[n \in D] == Is(of, n)
           part(n) == SubSeq(w, 1, n)
           f == [n \in D |-> part(n)]
           size == [n \in D |-> n]
<1>1. Len(w) \in Nat /\ Len(w) \in D
  OBVIOUS
<1>2. ASSUME NEW n \in D, n # 0 PROVE n - 1 \in D /\ n - 1 < n /\ w[n] \in S
  BY <1>1, <1>2
<1>3. part(0) = none
  OBVIOUS
<1>4. ASSUME NEW n \in D, n # 0 PROVE part(n) = Append(part(n - 1), w[n])
  <2> DEFINE a == part(n)
             b == Append(part(n - 1), w[n])
  <2>1. n \in Nat /\ n - 1 \in Nat /\ n <= Len(w) /\ w[n] \in S
    BY <1>1, <1>2, <1>4
  <2>2. a \in Seq(S) /\ Len(a) = n /\ \A i \in 1..n : a[i] = w[i]
    BY <2>1, <1>1
  <2>3. part(n - 1) \in Seq(S) /\ Len(part(n - 1)) = n - 1 /\ \A i \in 1..(n - 1) : part(n - 1)[i] = w[i]
    BY <2>1, <1>1
  <2>4. b \in Seq(S) /\ Len(b) = n /\ b[n] = w[n] /\ \A i \in 1..(n - 1) : b[i] = w[i]
    <3> HIDE DEF part
    <3> QED BY <2>1, <2>3
  <2>5. \A i \in 1..n : i = n \/ i \in 1..(n - 1)
    BY <2>1
  <2> HIDE DEF a, b
  <2>6. a = b
    BY <2>2, <2>4, <2>5, SeqEqual
  <2> QED BY <2>6 DEF a, b
<1>5. \A g : \A n \in D : /\ n = 0 => Is(g, n) = none
                          /\ n # 0 => Is(g, n) = Append(g[n - 1], w[n])
  <2> HIDE DEF D
  <2> QED BY <1>2
<1>6. \A n \in D : f[n] = Is(f, n)
  <2>1. \A n \in D : f[n] = part(n)
    OBVIOUS
  <2> HIDE DEF D, f, part, Is, none
  <2>2. ASSUME NEW n \in D, n = 0 PROVE f[n] = Is(f, n)
    BY <1>3, <1>5, <2>1, <2>2
  <2>3. ASSUME NEW n \in D, n # 0 PROVE f[n] = Is(f, n)
    <3>1. n - 1 \in D
      BY <1>2, <2>3
    <3>2. f[n - 1] = part(n - 1) /\ f[n] = part(n)
      BY <2>1, <3>1
    <3>3. Is(f, n) = Append(f[n - 1], w[n])
      BY <1>5, <2>3
    <3> QED BY <1>4, <2>3, <3>2, <3>3
  <2> QED BY <2>2, <2>3
<1>7. f = [n \in D |-> Is(f, n)]
  <2> HIDE DEF D, Is, part
  <2>1. f = [n \in D |-> f[n]]
    OBVIOUS
  <2> HIDE DEF f
  <2> QED BY <1>6, <2>1
<1>8. of = [n \in D |-> Is(of, n)]
  BY <1>7
<1>9. \A n \in D : of[n] = Is(of, n)
  <2> HIDE DEF D, Is, of
  <2> QED BY <1>8
<1>10. \A n \in D : of[n] = part(n)
  <2> DEFINE T == {n \in D : of[n] = part(n)}
  <2>1. ASSUME NEW n \in D, \A e \in D : size[e] < size[n] => e \in T PROVE n \in T
    <3>1. CASE n = 0
      <4> HIDE DEF D, of, part, Is, none
      <4> QED BY <1>3, <1>5, <1>9, <3>1
    <3>2. CASE n # 0
      <4>1. n - 1 \in D /\ size[n - 1] < size[n]
        BY <1>2, <3>2
      <4>2. of[n - 1] = part(n - 1)
        <5> HIDE DEF D, of, part, size
        <5> QED BY <2>1, <4>1
      <4> HIDE DEF D, of, part, Is, none
      <4> QED BY <1>4, <1>5, <1>9, <3>2, <4>2
    <3> QED BY <3>1, <3>2
  <2>2. size \in [D -> Nat]
    OBVIOUS
  <2>3. D \subseteq T
    <3> HIDE DEF D, size, T
    <3> QED BY <2>1, <2>2, Induction
  <2> HIDE DEF of, part, D
  <2> QED BY <2>3
<1>11. Accepted(w) = of[Len(w)]
  BY DEF Accepted
<1>12. part(Len(w)) = w
  BY SubSeqFull
<1> HIDE DEF of, part, D
<1>13. Accepted(w) = w
  BY <1>1, <1>10, <1>11, <1>12
<1> QED BY <1>13 DEF Feed

\* What is in the middle of a syllable is shown as it is, but for a last n.
LEMMA DisplayIs ==
  ASSUME NEW S, NEW b \in Buffers(S), \A c \in S : IsAccepted(c), Pends(b.tail)
  PROVE  BufferDisplay(b) = WithLastN(b) /\ BufferLength(BufferDisplay(b)) = BufferLength(b)
<1> DEFINE none == <<>>
           k == b.kana
           t == b.tail
           last == <<"n">>
<1>1. k \in Seq(Kanas) /\ t \in Seq(S) /\ b = Buffer(k, t) /\ BufferLength(b) = Len(k) + Len(t)
  BY BufferIsSized
<1>2. Rebuild(t) = Buffer(none, t)
  <2>1. CASE Len(t) = 0
    <3>1. t = none
      BY <1>1, <2>1, EmptySeq
    <3>2. Rebuild(t) = Buffer(none, none)
      <4> HIDE DEF t
      <4> QED BY <1>1, <2>1, RebuildIs
    <3> QED BY <3>1, <3>2
  <2>2. CASE Len(t) # 0
    <3>1. t # none
      BY <2>2
    <3>2. FirstSyllable(t).used = 0
      BY <3>1 DEF Pends
    <3> HIDE DEF t
    <3> QED BY <1>1, <2>2, <3>2, RebuildIs
  <2> QED BY <2>1, <2>2
<1>3. RomajiToDisplay(t) = WithLastN(Buffer(none, t))
  <2> HIDE DEF t, none
  <2> QED BY <1>1, <1>2, FeedIsRebuild DEF RomajiToDisplay
<1>4. \A x, y : Buffer(x, y).kana = x /\ Buffer(x, y).tail = y /\ BufferLength(Buffer(x, y)) = Len(x) + Len(y)
  BY DEF Buffer, BufferLength
<1>5. k \o none = k /\ none \o <<N>> = <<N>>
  BY <1>1
<1>6. \A x, y : WithLastN(Buffer(x, y)) = IF y = last THEN Buffer(x \o <<N>>, none) ELSE Buffer(x, y)
  BY <1>4 DEF WithLastN
<1>7. BufferDisplay(b) = Buffer(k \o RomajiToDisplay(t).kana, RomajiToDisplay(t).tail)
  BY DEF BufferDisplay
<1>8. Len(none) = 0 /\ Len(last) = 1 /\ Len(k \o <<N>>) = Len(k) + 1 /\ Len(k) \in Nat /\ Len(t) \in Nat
  <2>1. N \in Kanas
    <3>1. "n" \in Letters
      BY LettersAre
    <3> QED BY <3>1 DEF N, Kanas
  <2>2. <<N>> \in Seq(Kanas) /\ Len(<<N>>) = 1
    BY <2>1
  <2>3. Len(k \o <<N>>) = Len(k) + 1
    BY <1>1, <2>2
  <2> QED BY <1>1, <2>3
<1> HIDE DEF none, k, t, last
<1>9. CASE t = last
  <2>1. RomajiToDisplay(t) = Buffer(none \o <<N>>, none)
    BY Zenon, <1>3, <1>6, <1>9
  <2>2. BufferDisplay(b) = Buffer(k \o <<N>>, none)
    BY Zenon, <1>4, <1>5, <1>7, <2>1
  <2>3. WithLastN(b) = Buffer(k \o <<N>>, none)
    BY Zenon, <1>1, <1>6, <1>9
  <2>4. BufferLength(Buffer(k \o <<N>>, none)) = Len(k \o <<N>>) + Len(none)
    BY Zenon, <1>4
  <2>5. Len(t) = 1
    BY <1>8, <1>9
  <2>6. BufferLength(b) = Len(k) + 1 /\ Len(k \o <<N>>) + Len(none) = Len(k) + 1
    BY <1>1, <1>8, <2>5
  <2>7. BufferLength(BufferDisplay(b)) = BufferLength(b)
    BY Zenon, <2>2, <2>4, <2>6
  <2> QED BY <2>2, <2>3, <2>7
<1>10. CASE t # last
  <2>1. RomajiToDisplay(t) = Buffer(none, t)
    BY Zenon, <1>3, <1>6, <1>10
  <2>2. BufferDisplay(b) = Buffer(k, t)
    BY Zenon, <1>4, <1>5, <1>7, <2>1
  <2>3. WithLastN(b) = Buffer(k, t)
    BY Zenon, <1>1, <1>6, <1>10
  <2> QED BY Zenon, <1>1, <2>2, <2>3
<1> QED BY <1>9, <1>10

\* Backspace leaves what is in the middle of a syllable, if anything.
LEMMA BackspacePends ==
  ASSUME NEW S, NEW b \in Buffers(S), Pends(b.tail)
  PROVE  Pends(BufferAfterBackspace(b).tail)
<1> DEFINE none == <<>>
           t == b.tail
           u == Strings!Front(t)
<1>1. t \in Seq(S)
  BY BufferIsSized
<1>2. \A x, y : Buffer(x, y).tail = y
  BY DEF Buffer
<1>3. CASE t = none
  <2>1. BufferAfterBackspace(b) = Buffer(Strings!Front(b.kana), none)
    BY <1>3 DEF BufferAfterBackspace
  <2> HIDE DEF none
  <2>2. BufferAfterBackspace(b).tail = none
    BY <1>2, <2>1
  <2> QED BY <2>2 DEF Pends, none
<1>4. CASE t # none
  <2>1. BufferAfterBackspace(b) = Buffer(b.kana, u)
    BY <1>4 DEF BufferAfterBackspace
  <2>2. FirstSyllable(t).used = 0
    BY <1>4 DEF Pends
  <2> HIDE DEF t
  <2>3. u \in Seq(S) /\ Len(u) = Len(t) - 1
    BY <1>1, <1>4, FrontIs
  <2>4. Len(t) \in Nat /\ Len(u) \in Nat
    BY <1>1, <2>3
  <2>5. Len(u) <= Len(t)
    BY <2>3, <2>4
  <2>6. \A i \in 1..Len(u) : u[i] = t[i]
    <3>1. u = SubSeq(t, 1, Len(t) - 1)
      BY DEF Strings!Front
    <3>2. \A i \in 1..(Len(t) - 1) : SubSeq(t, 1, Len(t) - 1)[i] = t[i]
      BY <1>1, <2>4
    <3> HIDE DEF u
    <3> QED BY <2>3, <3>1, <3>2
  <2> HIDE DEF u
  <2>7. FirstSyllable(u).used = 0
    BY <1>1, <2>2, <2>3, <2>5, <2>6, ShorterPends
  <2>8. BufferAfterBackspace(b).tail = u
    BY <1>2, <2>1
  <2> QED BY <2>7, <2>8 DEF Pends
<1> QED BY <1>3, <1>4

LEMMA PartIsWithin ==
  ASSUME NEW S, NEW w \in Seq(S), NEW part \in Seq(S), NEW i \in 1..Len(w),
         i + Len(part) <= Len(w) + 1, \A j \in 1..Len(part) : part[j] = w[i + j - 1]
  PROVE  Within(part, w)
<1> DEFINE v == SubSeq(w, i, Len(w))
           a == SubSeq(part, 1, Len(part))
           b == SubSeq(v, 1, Len(part))
<1>1. Len(w) \in Nat /\ Len(part) \in Nat /\ i \in Nat /\ i >= 1 /\ i <= Len(w)
  OBVIOUS
<1>2. v \in Seq(S) /\ Len(v) = Len(w) - i + 1 /\ \A j \in 1..(Len(w) - i + 1) : v[j] = w[i + j - 1]
  <2> DEFINE l == Len(w)
  <2>1. i \in Int /\ l \in Int /\ i <= l /\ \A j \in i..l : w[j] \in S
    BY <1>1
  <2> HIDE DEF l
  <2>2. /\ SubSeq(w, i, l) \in Seq(S) /\ Len(SubSeq(w, i, l)) = IF i <= l THEN l - i + 1 ELSE 0
        /\ \A j \in 1..(l - i + 1) : SubSeq(w, i, l)[j] = w[i + j - 1]
    BY <2>1, SubSeqProperties
  <2>3. Len(SubSeq(w, i, l)) = l - i + 1
    BY <2>1, <2>2
  <2> QED BY <2>2, <2>3 DEF l
<1> HIDE DEF v
<1>3. Len(part) <= Len(v)
  BY <1>1, <1>2
<1>4. a = part
  BY SubSeqFull
<1>5. b \in Seq(S) /\ Len(b) = Len(part) /\ \A j \in 1..Len(part) : b[j] = v[j]
  BY <1>1, <1>2, <1>3
<1>6. \A j \in 1..Len(part) : v[j] = part[j]
  <2>1. \A j \in 1..Len(part) : j \in 1..(Len(w) - i + 1)
    BY <1>1
  <2> QED BY <1>2, <2>1
<1> HIDE DEF b
<1>7. b = part
  BY <1>5, <1>6, SeqEqual
<1>8. Strings!IsPrefix(part, v)
  <2>1. a = b
    BY <1>4, <1>7
  <2> QED BY <1>3, <2>1 DEF Strings!IsPrefix, b
<1>9. i \in DOMAIN w
  OBVIOUS
<1> QED BY <1>8, <1>9 DEF Within, v

LEMMA OddIsWithin ==
  ASSUME NEW S, NEW w \in Seq(S), Odd(w)
  PROVE  \/ \E ch \in Vowels \union {"y"} : Within(<<"n", "n", ch>>, w)
         \/ Within(<<"q", "q">>, w)
<1>1. Len(w) \in Nat
  OBVIOUS
<1>2. ASSUME NEW i \in 1..Len(w), i + 2 <= Len(w), w[i] = "n", w[i + 1] = "n",
             w[i + 2] \in Vowels \union {"y"}
      PROVE  \E ch \in Vowels \union {"y"} : Within(<<"n", "n", ch>>, w)
  <2> DEFINE ch == w[i + 2]
             part == <<w[i], w[i + 1], ch>>
  <2>1. i + 1 \in 1..Len(w) /\ i + 2 \in 1..Len(w) /\ i \in Nat /\ i + 3 <= Len(w) + 1
    BY <1>1, <1>2
  <2>2. part \in Seq(S) /\ Len(part) = 3
    BY <2>1
  <2>3. \A j \in 1..3 : part[j] = w[i + j - 1]
    <3>1. part[1] = w[i + 1 - 1] /\ part[2] = w[i + 2 - 1] /\ part[3] = w[i + 3 - 1]
      BY <2>1
    <3>2. \A j \in 1..3 : j = 1 \/ j = 2 \/ j = 3
      OBVIOUS
    <3> HIDE DEF part
    <3> QED BY <3>1, <3>2
  <2>4. part = <<"n", "n", ch>>
    BY <1>2
  <2> HIDE DEF part
  <2>5. Within(part, w)
    BY <2>1, <2>2, <2>3, PartIsWithin
  <2> QED BY <1>2, <2>4, <2>5
<1>3. ASSUME NEW i \in 1..Len(w), i + 1 <= Len(w), w[i] = "q", w[i + 1] = "q"
      PROVE  Within(<<"q", "q">>, w)
  <2> DEFINE part == <<w[i], w[i + 1]>>
  <2>1. i + 1 \in 1..Len(w) /\ i \in Nat /\ i + 2 <= Len(w) + 1
    BY <1>1, <1>3
  <2>2. part \in Seq(S) /\ Len(part) = 2
    BY <2>1
  <2>3. \A j \in 1..2 : part[j] = w[i + j - 1]
    <3>1. part[1] = w[i + 1 - 1] /\ part[2] = w[i + 2 - 1]
      BY <2>1
    <3>2. \A j \in 1..2 : j = 1 \/ j = 2
      OBVIOUS
    <3> HIDE DEF part
    <3> QED BY <3>1, <3>2
  <2>4. part = <<"q", "q">>
    BY <1>3
  <2> HIDE DEF part
  <2>5. Within(part, w)
    BY <2>1, <2>2, <2>3, PartIsWithin
  <2> QED BY <2>4, <2>5
<1> QED BY <1>2, <1>3 DEF Odd

(* What is in the middle of a syllable, and nothing else, is left in the   *)
(* buffer; until something is taken back, it holds what the converter      *)
(* makes of all that was typed, but for the two cases.                     *)
SpellInv ==
  /\ KanaInv /\ Pends(buffer.tail)
  /\ straight => Odd(typed) \/ buffer = Rebuild(typed)

LEMMA SpellStarts == KanaInit => SpellInv
<1> SUFFICES ASSUME KanaInit PROVE SpellInv
  OBVIOUS
<1> DEFINE none == <<>>
<1>1. buffer = Buffer(none, none) /\ typed = none
  BY DEF KanaInit
<1>2. none \in Seq({}) /\ Len(none) = 0
  OBVIOUS
<1>3. Pends(none)
  BY DEF Pends
<1> HIDE DEF none
<1>4. Rebuild(none) = Buffer(none, none)
  BY <1>2, RebuildIs DEF none
<1>5. \A x, y : Buffer(x, y).tail = y
  BY DEF Buffer
<1>6. Pends(buffer.tail) /\ buffer = Rebuild(typed)
  BY <1>1, <1>3, <1>4, <1>5
<1> QED BY <1>6, KanaStarts DEF SpellInv

LEMMA SpellStays ==
  ASSUME SpellInv, KanaNext \/ NoKana
  PROVE  SpellInv'
<1>0. KanaInv /\ Pends(buffer.tail) /\ (straight => Odd(typed) \/ buffer = Rebuild(typed))
  BY DEF SpellInv
<1>i. buffer \in Buffers(Strokes) /\ typed \in Seq(Strokes)
  BY <1>0 DEF KanaInv
<1>k. KanaInv'
  BY <1>0, KanaStays
<1>1. CASE RemoveVirtualKey
  <2>1. buffer' = BufferAfterBackspace(buffer) /\ straight' = FALSE
    BY <1>1 DEF RemoveVirtualKey
  <2>2. Pends(BufferAfterBackspace(buffer).tail)
    BY <1>0, <1>i, BackspacePends
  <2> QED BY <1>k, <2>1, <2>2 DEF SpellInv
<1>2. CASE PurgeVirtualKey
  <2>1. KanaInit'
    BY <1>2 DEF PurgeVirtualKey, KanaInit
  <2>2. (KanaInit => SpellInv)'
    BY SpellStarts, PTL
  <2> QED BY <2>1, <2>2
<1>3. ASSUME NEW ch \in Strokes, AddVirtualKey(ch) PROVE SpellInv'
  <2> DEFINE tail == Append(buffer.tail, ch)
             r == Rebuild(tail)
             more == Append(typed, ch)
  <2>1. /\ buffer' = BufferAfterKeystroke(buffer, ch)
        /\ typed' = more /\ straight' = straight
    BY <1>3 DEF AddVirtualKey
  <2>2. buffer.tail \in Seq(Strokes)
    BY <1>i, BufferIsSized
  <2>3. tail \in Seq(Strokes) /\ more \in Seq(Strokes) /\ Len(more) = Len(typed) + 1 /\ Len(typed) \in Nat
    BY <1>i, <2>2
  <2>4. \A i \in DOMAIN tail : IsAccepted(tail[i])
    <3> HIDE DEF tail
    <3>1. \A i \in DOMAIN tail : tail[i] \in Strokes
      BY <2>3
    <3> QED BY <3>1, KanaAssumption
  <2>5. buffer' = Keyed(buffer, ch) /\ Keyed(buffer, ch) = Buffer(buffer.kana \o r.kana, r.tail)
    BY <2>1, <2>4 DEF BufferAfterKeystroke, Keyed
  <2>6. Pends(buffer'.tail)
    <3>1. Pends(r.tail)
      <4> HIDE DEF tail
      <4> QED BY <2>3, TailPends
    <3>2. \A x, y : Buffer(x, y).tail = y
      BY DEF Buffer
    <3>3. buffer'.tail = r.tail
      BY Zenon, <2>5, <3>2
    <3> QED BY <3>1, <3>3
  <2>7. ASSUME straight, Odd(typed) PROVE Odd(more)
    <3>1. \A i \in 1..Len(typed) : typed[i] = more[0 + i]
      BY <1>i, <2>3
    <3>2. 0 \in Nat /\ 0 + Len(typed) <= Len(more)
      BY <2>3
    <3> HIDE DEF more
    <3> QED BY <1>i, <2>3, <2>7, <3>1, <3>2, OddPart
  <2>8. ASSUME straight, buffer = Rebuild(typed) PROVE Odd(more) \/ buffer' = Rebuild(more)
    <3>1. Odd(more) \/ Rebuild(more) = Keyed(Rebuild(typed), ch)
      BY <1>i, RebuildJoins
    <3> HIDE DEF more
    <3> QED BY <2>5, <2>8, <3>1
  <2>9. straight' => Odd(typed') \/ buffer' = Rebuild(typed')
    <3> HIDE DEF more
    <3> QED BY <1>0, <2>1, <2>7, <2>8
  <2> QED BY <1>k, <2>6, <2>9 DEF SpellInv
<1>4. CASE NoKana
  <2>1. buffer' = buffer /\ typed' = typed /\ straight' = straight
    BY <1>4 DEF NoKana, kanaVars
  <2> QED BY <1>0, <1>k, <2>1 DEF SpellInv
<1> QED BY <1>1, <1>2, <1>3, <1>4 DEF KanaNext

LEMMA SpellInvSpells == SpellInv => BufferSpells
<1> SUFFICES ASSUME SpellInv PROVE BufferSpells
  OBVIOUS
<1>0. Pends(buffer.tail) /\ (straight => Odd(typed) \/ buffer = Rebuild(typed))
  BY DEF SpellInv
<1>i. buffer \in Buffers(Strokes) /\ typed \in Seq(Strokes)
  BY DEF SpellInv, KanaInv
<1>a. \A c \in Strokes : IsAccepted(c)
  BY KanaAssumption
<1>1. BufferDisplay(buffer) = WithLastN(buffer) /\ BufferLength(BufferDisplay(buffer)) = BufferLength(buffer)
  BY <1>0, <1>i, <1>a, DisplayIs
<1>2. TypedAsWholeOtherwise
  <2>1. CASE straight /\ ~Odd(typed)
    <3>1. buffer = Rebuild(typed)
      BY <1>0, <2>1
    <3>2. RomajiToDisplay(typed) = WithLastN(Rebuild(typed))
      BY <1>i, <1>a, FeedIsRebuild DEF RomajiToDisplay
    <3> QED BY <1>1, <3>1, <3>2 DEF TypedAsWholeOtherwise, TypedAsWhole
  <2>2. CASE Odd(typed)
    BY <1>i, <2>2, OddIsWithin DEF TypedAsWholeOtherwise
  <2>3. CASE ~straight
    BY <2>3 DEF TypedAsWholeOtherwise, TypedAsWhole
  <2> QED BY <2>1, <2>2, <2>3
<1>3. BackspaceIsOneCharacter
  <2> SUFFICES ASSUME BufferLength(buffer) > 0
               PROVE  BufferLength(BufferDisplay(BufferAfterBackspace(buffer)))
                        = BufferLength(BufferDisplay(buffer)) - 1
    BY DEF BackspaceIsOneCharacter
  <2> DEFINE b == BufferAfterBackspace(buffer)
  <2>1. b \in Buffers(Strokes) /\ BufferLength(b) = BufferLength(buffer) - 1
    BY <1>i, BackspaceTakes
  <2>2. Pends(b.tail)
    BY <1>0, <1>i, BackspacePends
  <2> HIDE DEF b
  <2>3. BufferLength(BufferDisplay(b)) = BufferLength(b)
    BY <1>a, <2>1, <2>2, DisplayIs
  <2>4. BufferLength(BufferDisplay(b)) = BufferLength(BufferDisplay(buffer)) - 1
    BY <1>1, <2>1, <2>3
  <2> QED BY <2>4 DEF b
<1>4. ReadingIsShown
  <2>1. BufferReading(buffer) = buffer.kana \o RomajiToDisplay(buffer.tail).kana
    BY DEF BufferReading, RomajiToKana, RomajiToDisplay
  <2>2. BufferDisplay(buffer).kana = buffer.kana \o RomajiToDisplay(buffer.tail).kana
    <3>1. \A x, y : Buffer(x, y).kana = x
      BY DEF Buffer
    <3> QED BY Zenon, <3>1 DEF BufferDisplay
  <2> QED BY <2>1, <2>2 DEF ReadingIsShown
<1> QED BY <1>2, <1>3, <1>4 DEF BufferSpells

(* The composition, typed a keystroke at a time, shows what the converter  *)
(* makes of the whole, loses one character of it to Backspace, and is read *)
(* as it is shown (BufferAfterKeystroke, RomajiKana.cpp:292).              *)
THEOREM BufferSpellsHolds == KanaSpec => []BufferSpells
<1>1. KanaInit => SpellInv
  BY SpellStarts
<1>2. SpellInv /\ [KanaNext]_kanaVars => SpellInv'
  BY SpellStays DEF NoKana
<1>3. SpellInv => BufferSpells
  BY SpellInvSpells
<1> QED BY <1>1, <1>2, <1>3, PTL DEF KanaSpec
==============================================================================
