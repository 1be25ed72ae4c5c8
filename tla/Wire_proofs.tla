----------------------------- MODULE Wire_proofs ------------------------------
(***************************************************************************)
(* Theorems about Wire: whatever an engine answers, of texts of any        *)
(* length, and whatever the widths of bytes and integers, is read as it    *)
(* was meant, and no part of it is read as anything else.                  *)
(*                                                                         *)
(* There are first the recursive functions of Wire (by Recursion, of       *)
(* Kana_proofs), then what they give: a varint is read up to its last byte *)
(* and no further (VarintIsRead), and so is a field (Carries).  Bytes bear *)
(* the fields that are read from them before whatever else follows, and a  *)
(* part of them the first of these at most (Bears); what bears can be      *)
(* joined (BearsConcat), a field of a later engine among the rest          *)
(* (WithBears).  What a parser looks for are then values of fields: a      *)
(* field it does not know adds none (AlienIsPassed), and the part of a     *)
(* reply that was cut short has the body whole or not at all (PartOfOne).  *)
(***************************************************************************)
EXTENDS Wire, Kana_proofs, FiniteSetTheorems, SequenceTheorems, TLAPS

-----------------------------------------------------------------------------
(* Varints.                                                                *)

LEMMA DivIsWhole ==
  ASSUME NEW v \in Nat
  PROVE  /\ v = Base * (v \div Base) + (v % Base)
         /\ v % Base \in 0..(Base - 1) /\ v \div Base \in Nat
         /\ v >= Base => v \div Base < v
         /\ ((v % Base) + Base) % Base = v % Base
         /\ (v % Base) + Base \in Byte /\ ~((v % Base) + Base < Base)
         /\ v < Base => v \in Byte
BY WidthsAssumption DEF Byte

LEMMA SeptetsExist ==
  \E f \in [Nat -> Seq(Byte)] :
    \A v \in Nat : f[v] = IF v < Base THEN <<v>> ELSE <<(v % Base) + Base>> \o f[v \div Base]
<1> DEFINE D == Nat
           V == Seq(Byte)
           size == [n \in D |-> n]
           stop == {v \in D : v < Base}
           base == [v \in D |-> IF v < Base THEN <<v>> ELSE <<>>]
           prev == [v \in D |-> v \div Base]
           step == [v \in D |-> [s \in V |-> <<(v % Base) + Base>> \o s]]
<1>1. size \in [D -> Nat] /\ stop \in SUBSET D
  OBVIOUS
<1>2. base \in [D -> V]
  <2>1. \A v \in D : v < Base => <<v>> \in V
    BY DivIsWhole
  <2> QED BY <2>1
<1>3. prev \in [D -> D]
  BY DivIsWhole
<1>4. step \in [D -> [V -> V]]
  <2>1. ASSUME NEW v \in D, NEW s \in V PROVE <<(v % Base) + Base>> \o s \in V
    <3>1. <<(v % Base) + Base>> \in Seq(Byte)
      BY DivIsWhole
    <3> QED BY <3>1
  <2> QED BY <2>1
<1>5. V # {}
  <2>1. <<>> \in V
    OBVIOUS
  <2> QED BY <2>1
<1>6. ASSUME NEW d \in D \ stop PROVE size[prev[d]] < size[d]
  <2>1. d \in Nat /\ d >= Base
    BY WidthsAssumption
  <2>2. prev[d] = d \div Base /\ prev[d] \in D /\ prev[d] < d
    BY <2>1, DivIsWhole
  <2>3. size[prev[d]] = prev[d] /\ size[d] = d
    BY <2>1, <2>2
  <2> QED BY <2>2, <2>3
<1>7. \E f \in [D -> V] :
        \A d \in D : f[d] = At(f, d, stop, base, prev, step)
  <2> HIDE DEF D, V, size, stop, base, prev, step
  <2>1. Descends(D, V, size, stop, base, prev, step)
    BY <1>1, <1>2, <1>3, <1>4, <1>5, <1>6 DEF Descends
  <2> QED BY <2>1, Recursion
<1>8. PICK f \in [D -> V] :
        \A d \in D : f[d] = At(f, d, stop, base, prev, step)
  BY <1>7
<1>9. ASSUME NEW v \in Nat
      PROVE  f[v] = IF v < Base THEN <<v>> ELSE <<(v % Base) + Base>> \o f[v \div Base]
  <2>1. v \div Base \in D /\ f[v \div Base] \in V
    BY DivIsWhole
  <2>2. CASE v < Base
    BY <1>8, <2>2 DEF At
  <2>3. CASE ~(v < Base)
    <3>1. f[v] = step[v][f[prev[v]]] /\ prev[v] = v \div Base
      BY <1>8, <2>3 DEF At
    <3>2. step[v][f[v \div Base]] = <<(v % Base) + Base>> \o f[v \div Base]
      BY <2>1
    <3> QED BY <3>1, <3>2, <2>3
  <2> QED BY <2>2, <2>3
<1> QED BY <1>9

LEMMA SeptetsAre ==
  ASSUME NEW v \in Nat
  PROVE  /\ v < Base => Septets[v] = <<v>>
         /\ v >= Base => Septets[v] = <<(v % Base) + Base>> \o Septets[v \div Base]
         /\ Septets[v] \in Seq(Byte)
<1> DEFINE Is(f, n) == IF n < Base THEN <<n>> ELSE <<(n % Base) + Base>> \o f[n \div Base]
<1>1. PICK f \in [Nat -> Seq(Byte)] : \A n \in Nat : f[n] = Is(f, n)
  BY SeptetsExist
<1>2. f = [n \in Nat |-> Is(f, n)]
  BY <1>1
<1>3. Septets = [n \in Nat |-> Is(Septets, n)]
  BY <1>2 DEF Septets
<1>4. \A n \in Nat : Septets[n] = Is(Septets, n)
  BY <1>3
<1>5. \A n \in Nat : Septets[n] = f[n]
  <2> DEFINE D == Nat
             size == [n \in D |-> n]
             T == {d \in D : Septets[d] = f[d]}
  <2>1. ASSUME NEW d \in D, \A e \in D : size[e] < size[d] => e \in T
        PROVE  d \in T
    <3>1. CASE d < Base
      BY <3>1, <1>1, <1>4
    <3>2. CASE ~(d < Base)
      <4>1. d \in Nat /\ d >= Base
        BY <3>2, WidthsAssumption
      <4>2. d \div Base \in D /\ d \div Base < d
        BY <4>1, DivIsWhole
      <4>3. size[d \div Base] = d \div Base /\ size[d] = d
        BY <4>2
      <4>4. Septets[d \div Base] = f[d \div Base]
        BY <4>2, <4>3, <2>1
      <4> QED BY <4>4, <3>2, <1>1, <1>4
    <3> QED BY <3>1, <3>2
  <2>2. size \in [D -> Nat]
    OBVIOUS
  <2>3. D \subseteq T
    <3> HIDE DEF D, size, T
    <3> QED BY <2>1, <2>2, Induction
  <2> QED BY <2>3
<1>6. Septets[v] = Is(Septets, v) /\ Septets[v] \in Seq(Byte)
  BY <1>1, <1>4, <1>5
<1>7. v >= Base => ~(v < Base)
  BY WidthsAssumption
<1> QED BY <1>6, <1>7

LEMMA NumbersInduction ==
  ASSUME NEW T, \A n \in Nat : (\A m \in Nat : m < n => m \in T) => n \in T
  PROVE  \A n \in Nat : n \in T
<1> DEFINE D == Nat
           size == [n \in D |-> n]
<1>1. \A d \in D : (\A e \in D : size[e] < size[d] => e \in T) => d \in T
  OBVIOUS
<1>2. size \in [D -> Nat]
  OBVIOUS
<1>3. D \subseteq T
  <2> HIDE DEF D, size
  <2> QED BY <1>1, <1>2, Induction
<1> QED BY <1>3

(* What reads gives, and what is left then is less. *)
Reads(V) == {Failed} \union [ok : {TRUE}, value : V, left : Seq(Byte)]

LEMMA ReadsAre ==
  ASSUME NEW V, NEW r \in Reads(V)
  PROVE  /\ r.ok \in BOOLEAN
         /\ r.ok => r = Got(r.value, r.left) /\ r.value \in V /\ r.left \in Seq(Byte)
         /\ ~r.ok => r = Failed
<1>1. CASE r = Failed
  BY <1>1 DEF Failed
<1>2. CASE r \in [ok : {TRUE}, value : V, left : Seq(Byte)]
  <2>1. r.ok /\ r.value \in V /\ r.left \in Seq(Byte)
    BY <1>2
  <2>2. r = [ok |-> TRUE, value |-> r.value, left |-> r.left]
    BY <1>2
  <2> QED BY <2>1, <2>2 DEF Got
<1> QED BY <1>1, <1>2 DEF Reads

LEMMA GotIs ==
  ASSUME NEW v, NEW left
  PROVE  /\ Got(v, left).ok /\ Got(v, left).value = v /\ Got(v, left).left = left
         /\ ~Failed.ok
         /\ \A V : Failed \in Reads(V)
         /\ \A V : v \in V /\ left \in Seq(Byte) => Got(v, left) \in Reads(V)
BY DEF Reads, Failed, Got

LEMMA MoreIs ==
  ASSUME NEW b \in Byte, NEW r \in Reads(Nat)
  PROVE  /\ More(b, r) \in Reads(Nat)
         /\ r.ok => More(b, r) = Got((b % Base) + Base * r.value, r.left)
         /\ ~r.ok => More(b, r) = Failed
<1>1. CASE r.ok
  <2>1. r.value \in Nat /\ r.left \in Seq(Byte)
    BY <1>1, ReadsAre
  <2>2. b % Base \in Nat
    BY WidthsAssumption DEF Byte
  <2>3. Base * r.value \in Nat
    BY <2>1, WidthsAssumption
  <2>4. (b % Base) + Base * r.value \in Nat
    BY <2>2, <2>3
  <2> QED BY <1>1, <2>1, <2>4, GotIs DEF More
<1>2. CASE ~r.ok
  BY <1>2, GotIs DEF More
<1> QED BY <1>1, <1>2, ReadsAre

\* One byte of a varint, and what g reads of the rest.
Septet(bytes, g) ==
  IF bytes = <<>> THEN Failed
  ELSE IF Head(bytes) < Base THEN Got(Head(bytes), Tail(bytes))
  ELSE More(Head(bytes), g[Tail(bytes)])

LEMMA SeptetIs ==
  ASSUME NEW g \in [Seq(Byte) -> Reads(Nat)], NEW bytes \in Seq(Byte)
  PROVE  Septet(bytes, g) \in Reads(Nat)
<1>1. CASE bytes = <<>>
  BY <1>1, GotIs DEF Septet
<1>2. CASE bytes # <<>>
  <2>1. Head(bytes) \in Byte /\ Tail(bytes) \in Seq(Byte)
    BY <1>2
  <2>2. Head(bytes) \in Nat
    BY <2>1, WidthsAssumption DEF Byte
  <2> QED BY <1>2, <2>1, <2>2, MoreIs, GotIs DEF Septet
<1> QED BY <1>1, <1>2

LEMMA MaxSeptetsIs == MaxSeptets \in Nat
BY SeptetsAre, WidthsAssumption DEF MaxSeptets, WriteVarint

(* The loop that reads, as a recursive function. *)
LEMMA ReadSeptetsAre ==
  /\ ReadSeptets \in [0..MaxSeptets -> [Seq(Byte) -> Reads(Nat)]]
  /\ \A n \in 0..MaxSeptets, bytes \in Seq(Byte) :
       ReadSeptets[n][bytes] = IF n = 0 THEN Failed ELSE Septet(bytes, ReadSeptets[n - 1])
<1> DEFINE D == 0..MaxSeptets
           V == [Seq(Byte) -> Reads(Nat)]
           size == [n \in D |-> n]
           stop == {0}
           base == [n \in D |-> [bytes \in Seq(Byte) |-> Failed]]
           prev == [n \in D |-> IF n = 0 THEN 0 ELSE n - 1]
           step == [n \in D |-> [g \in V |-> [bytes \in Seq(Byte) |-> Septet(bytes, g)]]]
           Is(g, n) == [bytes \in Seq(Byte) |->
                          IF n = 0 \/ bytes = <<>> THEN Failed
                          ELSE IF Head(bytes) < Base THEN Got(Head(bytes), Tail(bytes))
                          ELSE More(Head(bytes), g[n - 1][Tail(bytes)])]
<1>1. Descends(D, V, size, stop, base, prev, step)
  <2>1. size \in [D -> Nat] /\ stop \in SUBSET D /\ prev \in [D -> D]
    BY MaxSeptetsIs
  <2>2. base \in [D -> V] /\ V # {}
    <3>1. [bytes \in Seq(Byte) |-> Failed] \in V
      BY GotIs
    <3> QED BY <3>1
  <2>3. step \in [D -> [V -> V]]
    <3>1. \A g \in V : [bytes \in Seq(Byte) |-> Septet(bytes, g)] \in V
      BY SeptetIs
    <3> QED BY <3>1
  <2>4. \A d \in D \ stop : size[prev[d]] < size[d]
    BY MaxSeptetsIs
  <2> HIDE DEF D, V, size, stop, base, prev, step
  <2> QED BY <2>1, <2>2, <2>3, <2>4 DEF Descends
<1>2. PICK f \in [D -> V] : \A d \in D : f[d] = At(f, d, stop, base, prev, step)
  <2> HIDE DEF D, V, size, stop, base, prev, step
  <2> QED BY <1>1, Recursion
<1>3. ASSUME NEW n \in D PROVE f[n] = Is(f, n)
  <2>1. CASE n = 0
    BY <1>2, <2>1 DEF At
  <2>2. CASE n # 0
    <3>1. n - 1 \in D /\ n - 1 \in Nat
      BY <2>2, MaxSeptetsIs
    <3>2. f[n] = step[n][f[prev[n]]] /\ prev[n] = n - 1
      BY <1>2, <2>2 DEF At
    <3>3. f[n] = [bytes \in Seq(Byte) |-> Septet(bytes, f[n - 1])]
      BY <3>1, <3>2
    <3> QED BY <3>3, <2>2 DEF Septet
  <2> QED BY <2>1, <2>2
<1>4. f = [n \in D |-> Is(f, n)]
  BY <1>3
<1>5. ReadSeptets = [n \in D |-> Is(ReadSeptets, n)]
  BY <1>4 DEF ReadSeptets
<1>6. \A n \in D : ReadSeptets[n] = Is(ReadSeptets, n)
  BY <1>5
<1>7. \A n \in Nat : n \in {m \in Nat : m \in D => ReadSeptets[m] = f[m]}
  <2> DEFINE T == {m \in Nat : m \in D => ReadSeptets[m] = f[m]}
  <2>1. ASSUME NEW n \in Nat, \A m \in Nat : m < n => m \in T PROVE n \in T
    <3>1. CASE n \notin D
      BY <3>1
    <3>2. CASE n = 0
      <4>1. Is(f, 0) = Is(ReadSeptets, 0)
        OBVIOUS
      <4>2. 0 \in D
        BY MaxSeptetsIs
      <4> QED BY <4>1, <4>2, <3>2, <1>3, <1>6
    <3>3. CASE n \in D /\ n # 0
      <4>1. n - 1 \in D /\ n - 1 \in Nat /\ n - 1 < n
        BY <3>3, MaxSeptetsIs
      <4>2. ReadSeptets[n - 1] = f[n - 1]
        BY <4>1, <2>1
      <4>3. Is(f, n) = Is(ReadSeptets, n)
        BY <4>2
      <4> QED BY <4>3, <3>3, <1>3, <1>6
    <3> QED BY <3>1, <3>2, <3>3
  <2> HIDE DEF T
  <2>2. \A n \in Nat : n \in T
    BY <2>1, NumbersInduction
  <2> QED BY <2>2 DEF T
<1>8. ReadSeptets = f
  <2>1. \A n \in D : ReadSeptets[n] = f[n]
    BY <1>7, MaxSeptetsIs
  <2>2. f = [n \in D |-> f[n]] /\ ReadSeptets = [n \in D |-> ReadSeptets[n]]
    BY <1>5
  <2> HIDE DEF D
  <2> QED BY <2>1, <2>2
<1>9. ASSUME NEW n \in D, NEW bytes \in Seq(Byte)
      PROVE  Is(f, n)[bytes] = IF n = 0 THEN Failed ELSE Septet(bytes, f[n - 1])
  BY DEF Septet
<1> QED BY <1>2, <1>3, <1>8, <1>9

(* The bytes of a varint are at least one, and of less there are no more.  *)
LEMMA SeptetsLonger ==
  ASSUME NEW w \in Nat, NEW v \in Nat, v <= w
  PROVE  Len(Septets[v]) \in 1..Len(Septets[w])
<1> DEFINE T == {n \in Nat : \A m \in Nat : m <= n => Len(Septets[m]) \in 1..Len(Septets[n])}
<1>1. ASSUME NEW n \in Nat, \A k \in Nat : k < n => k \in T PROVE n \in T
  <2>1. ASSUME NEW m \in Nat, m < Base PROVE Len(Septets[m]) = 1
    <3>1. Septets[m] = <<m>>
      BY <2>1, SeptetsAre
    <3> QED BY <3>1
  <2>2. ASSUME NEW m \in Nat, m >= Base
        PROVE  Len(Septets[m]) = 1 + Len(Septets[m \div Base]) /\ m \div Base \in Nat
               /\ m \div Base < m
    <3>1. m \div Base \in Nat /\ m \div Base < m /\ (m % Base) + Base \in Byte
      BY <2>2, DivIsWhole
    <3>2. Septets[m] = <<(m % Base) + Base>> \o Septets[m \div Base] /\ Septets[m \div Base] \in Seq(Byte)
      BY <2>2, <3>1, SeptetsAre
    <3> QED BY <3>1, <3>2
  <2>3. CASE n < Base
    <3>1. ASSUME NEW m \in Nat, m <= n PROVE Len(Septets[m]) \in 1..Len(Septets[n])
      <4>1. m < Base
        BY <3>1, <2>3, WidthsAssumption
      <4>2. Len(Septets[m]) = 1 /\ Len(Septets[n]) = 1
        BY <4>1, <2>1, <2>3
      <4> QED BY <4>2
    <3> QED BY <3>1
  <2>4. CASE n >= Base
    <3>1. n \div Base \in T /\ Len(Septets[n]) = 1 + Len(Septets[n \div Base])
      BY <1>1, <2>2, <2>4
    <3>2. ASSUME NEW m \in Nat, m <= n PROVE Len(Septets[m]) \in 1..Len(Septets[n])
      <4>1. Len(Septets[n \div Base]) \in Nat /\ Len(Septets[n \div Base]) >= 1
        BY <3>1, <2>2, <2>4
      <4>2. CASE m < Base
        <5>1. Len(Septets[m]) = 1
          BY <4>2, <2>1
        <5>2. Len(Septets[n]) \in Nat /\ Len(Septets[n]) >= 1
          BY <4>1, <3>1
        <5> QED BY <5>1, <5>2
      <4>3. CASE m >= Base
        <5>1. m \div Base <= n \div Base
          BY <3>2, WidthsAssumption
        <5>2. Len(Septets[m \div Base]) \in 1..Len(Septets[n \div Base])
          BY <5>1, <3>1, <2>2, <4>3
        <5> QED BY <5>2, <3>1, <2>2, <4>3, <4>1
      <4> QED BY <4>2, <4>3, WidthsAssumption
    <3> QED BY <3>2
  <2> QED BY <2>3, <2>4, WidthsAssumption
<1> HIDE DEF T
<1>2. w \in T
  BY <1>1, NumbersInduction
<1> QED BY <1>2 DEF T

LEMMA FrontOfConcat ==
  ASSUME NEW S, NEW x \in S, NEW s \in Seq(S)
  PROVE  /\ <<x>> \o s \in Seq(S) /\ <<x>> \o s # <<>>
         /\ Head(<<x>> \o s) = x /\ Tail(<<x>> \o s) = s
         /\ Len(<<x>> \o s) = 1 + Len(s)
OBVIOUS

LEMMA FrontOfCut ==
  ASSUME NEW S, NEW x \in S, NEW s \in Seq(S), NEW k \in Nat, k <= Len(s)
  PROVE  SubSeq(<<x>> \o s, 1, 1 + k) = <<x>> \o SubSeq(s, 1, k)
OBVIOUS

LEMMA Associative ==
  ASSUME NEW S, NEW a \in Seq(S), NEW b \in Seq(S), NEW c \in Seq(S)
  PROVE  (a \o b) \o c = a \o (b \o c)
OBVIOUS

LEMMA BytesJoin == \A a, b, c \in Seq(Byte) : (a \o b) \o c = a \o (b \o c)
BY Associative

(* What is written is read, up to its last byte and no further.            *)
LEMMA SeptetsRead ==
  ASSUME NEW v \in Nat
  PROVE  /\ \A n \in 0..MaxSeptets, rest \in Seq(Byte) :
              Len(Septets[v]) <= n => ReadSeptets[n][Septets[v] \o rest] = Got(v, rest)
         /\ \A n \in 0..MaxSeptets, k \in Nat :
              k < Len(Septets[v]) => ReadSeptets[n][SubSeq(Septets[v], 1, k)] = Failed
<1> DEFINE Whole1(m) == \A n \in 0..MaxSeptets, rest \in Seq(Byte) :
              Len(Septets[m]) <= n => ReadSeptets[n][Septets[m] \o rest] = Got(m, rest)
           Part1(m) == \A n \in 0..MaxSeptets, k \in Nat :
              k < Len(Septets[m]) => ReadSeptets[n][SubSeq(Septets[m], 1, k)] = Failed
           T == {m \in Nat : Whole1(m) /\ Part1(m)}
<1>1. ASSUME NEW m \in Nat, \A k \in Nat : k < m => k \in T PROVE m \in T
  <2>0. Septets[m] \in Seq(Byte) /\ Len(Septets[m]) >= 1 /\ MaxSeptets \in Nat
    <3>1. m <= m
      OBVIOUS
    <3>2. Len(Septets[m]) \in 1..Len(Septets[m])
      BY <3>1, SeptetsLonger
    <3>3. Septets[m] \in Seq(Byte)
      BY SeptetsAre
    <3> QED BY <3>2, <3>3, MaxSeptetsIs
  <2>1. CASE m < Base
    <3>1. Septets[m] = <<m>> /\ m \in Byte
      BY <2>1, SeptetsAre, DivIsWhole
    <3>2. Whole1(m)
      <4> TAKE n \in 0..MaxSeptets, rest \in Seq(Byte)
      <4> HAVE Len(Septets[m]) <= n
      <4>1. n # 0 /\ n \in Nat
        BY <2>0
      <4>2. <<m>> \o rest \in Seq(Byte) /\ <<m>> \o rest # <<>>
            /\ Head(<<m>> \o rest) = m /\ Tail(<<m>> \o rest) = rest
        BY <3>1, FrontOfConcat
      <4>3. ReadSeptets[n][<<m>> \o rest] = Septet(<<m>> \o rest, ReadSeptets[n - 1])
        BY <4>1, <4>2, ReadSeptetsAre
      <4> QED BY <4>2, <4>3, <3>1, <2>1 DEF Septet
    <3>3. Part1(m)
      <4> TAKE n \in 0..MaxSeptets, k \in Nat
      <4> HAVE k < Len(Septets[m])
      <4>1. SubSeq(Septets[m], 1, k) = <<>> /\ <<>> \in Seq(Byte)
        BY <3>1
      <4>2. ReadSeptets[n][<<>>] = IF n = 0 THEN Failed ELSE Septet(<<>>, ReadSeptets[n - 1])
        BY <4>1, ReadSeptetsAre
      <4> QED BY <4>1, <4>2 DEF Septet
    <3> QED BY <3>2, <3>3
  <2>2. CASE m >= Base
    <3> DEFINE b == (m % Base) + Base
               q == m \div Base
    <3>1. /\ q \in Nat /\ q < m /\ m = Base * q + (m % Base) /\ b % Base = m % Base
          /\ b \in Byte /\ ~(b < Base) /\ m % Base \in Nat
      BY <2>2, DivIsWhole
    <3>2. Septets[m] = <<b>> \o Septets[q] /\ Septets[q] \in Seq(Byte)
      BY <2>2, <3>1, SeptetsAre
    <3>3. Whole1(q) /\ Part1(q)
      BY <3>1, <1>1
    <3> HIDE DEF b, q
    <3>4. Whole1(m)
      <4> TAKE n \in 0..MaxSeptets, rest \in Seq(Byte)
      <4> HAVE Len(Septets[m]) <= n
      <4> DEFINE s == Septets[q] \o rest
      <4>1. n \in Nat /\ n # 0 /\ n - 1 \in 0..MaxSeptets /\ Len(Septets[q]) <= n - 1
        <5>1. Len(Septets[m]) = 1 + Len(Septets[q]) /\ Len(Septets[q]) \in Nat
          BY <3>1, <3>2, FrontOfConcat
        <5> QED BY <5>1, <2>0
      <4>2. s \in Seq(Byte) /\ Septets[m] \o rest = <<b>> \o s
        <5>1. <<b>> \in Seq(Byte)
          BY <3>1
        <5>2. (<<b>> \o Septets[q]) \o rest = <<b>> \o (Septets[q] \o rest)
          BY <5>1, <3>2, BytesJoin
        <5>3. s \in Seq(Byte)
          BY <3>2
        <5> QED BY <5>2, <5>3, <3>2
      <4>3. ReadSeptets[n - 1][s] = Got(q, rest)
        BY <4>1, <3>3
      <4>4. Got(q, rest) \in Reads(Nat) /\ Got(q, rest).ok
            /\ Got(q, rest).value = q /\ Got(q, rest).left = rest
        BY <3>1, GotIs
      <4> HIDE DEF s
      <4>5. <<b>> \o s \in Seq(Byte) /\ <<b>> \o s # <<>>
            /\ Head(<<b>> \o s) = b /\ Tail(<<b>> \o s) = s
        BY <4>2, <3>1, FrontOfConcat
      <4>6. ReadSeptets[n][<<b>> \o s] = More(b, Got(q, rest))
        <5>1. ReadSeptets[n][<<b>> \o s] = Septet(<<b>> \o s, ReadSeptets[n - 1])
          BY <4>5, <4>1, ReadSeptetsAre
        <5> QED BY <5>1, <4>5, <4>3, <3>1 DEF Septet
      <4>7. More(b, Got(q, rest)) = Got((b % Base) + Base * q, rest)
        BY <4>4, <3>1, MoreIs
      <4>8. (b % Base) + Base * q = m
        <5>1. Base * q \in Nat
          BY <3>1, WidthsAssumption
        <5> QED BY <5>1, <3>1
      <4> QED BY <4>2, <4>6, <4>7, <4>8
    <3>5. Part1(m)
      <4> TAKE n \in 0..MaxSeptets, k \in Nat
      <4> HAVE k < Len(Septets[m])
      <4>1. CASE k = 0
        <5>1. SubSeq(Septets[m], 1, k) = <<>> /\ <<>> \in Seq(Byte)
          BY <4>1
        <5>2. ReadSeptets[n][<<>>] = IF n = 0 THEN Failed ELSE Septet(<<>>, ReadSeptets[n - 1])
          BY <5>1, ReadSeptetsAre
        <5> QED BY <5>1, <5>2 DEF Septet
      <4>2. CASE k # 0
        <5> DEFINE s == SubSeq(Septets[q], 1, k - 1)
        <5>1. k - 1 \in Nat /\ k - 1 < Len(Septets[q])
          BY <3>2, <3>1, <4>2
        <5>2. s \in Seq(Byte) /\ SubSeq(Septets[m], 1, k) = <<b>> \o s
          <6>1. SubSeq(<<b>> \o Septets[q], 1, 1 + (k - 1)) = <<b>> \o s
            BY <5>1, <3>1, <3>2, FrontOfCut
          <6>2. 1 + (k - 1) = k /\ s \in Seq(Byte)
            BY <5>1, <3>2
          <6> QED BY <6>1, <6>2, <3>2
        <5>3. CASE n = 0
          <6>1. <<b>> \o s \in Seq(Byte)
            BY <5>2, <3>1, FrontOfConcat
          <6> QED BY <6>1, <5>2, <5>3, ReadSeptetsAre
        <5>4. CASE n # 0
          <6>1. n \in Nat /\ n - 1 \in 0..MaxSeptets
            BY <2>0, <5>4
          <6>2. ReadSeptets[n - 1][s] = Failed
            BY <6>1, <5>1, <3>3
          <6> HIDE DEF s
          <6>3. <<b>> \o s \in Seq(Byte) /\ <<b>> \o s # <<>>
                /\ Head(<<b>> \o s) = b /\ Tail(<<b>> \o s) = s
            BY <5>2, <3>1, FrontOfConcat
          <6>4. ReadSeptets[n][<<b>> \o s] = Septet(<<b>> \o s, ReadSeptets[n - 1])
            BY <6>3, <6>1, <5>4, ReadSeptetsAre
          <6>5. More(b, Failed) = Failed
            BY GotIs DEF More
          <6> QED BY <6>2, <6>3, <6>4, <6>5, <5>2, <3>1 DEF Septet
        <5> QED BY <5>3, <5>4
      <4> QED BY <4>1, <4>2
    <3> QED BY <3>4, <3>5
  <2> QED BY <2>1, <2>2, WidthsAssumption
<1> HIDE DEF T
<1>2. v \in T
  BY <1>1, NumbersInduction
<1> QED BY <1>2 DEF T

(* Any varint that fits is read from what is written of it, whatever comes *)
(* behind it, and not from a part.                                         *)
LEMMA VarintIsRead ==
  ASSUME NEW v \in 0..(Longs - 1)
  PROVE  /\ WriteVarint(v) \in Seq(Byte) /\ WriteVarint(v) # <<>>
         /\ \A rest \in Seq(Byte) : ReadVarint(WriteVarint(v) \o rest) = Got(v, rest)
         /\ \A k \in Nat : k < Len(WriteVarint(v)) =>
              ReadVarint(SubSeq(WriteVarint(v), 1, k)) = Failed
<1>1. v \in Nat /\ Longs - 1 \in Nat /\ v <= Longs - 1 /\ v % Longs = v
  BY WidthsAssumption
<1>2. Septets[v] \in Seq(Byte) /\ Len(Septets[v]) \in 1..MaxSeptets /\ MaxSeptets \in Nat
  BY <1>1, SeptetsAre, SeptetsLonger, MaxSeptetsIs DEF MaxSeptets, WriteVarint
<1>3. MaxSeptets \in 0..MaxSeptets /\ Len(Septets[v]) <= MaxSeptets /\ Septets[v] # <<>>
  BY <1>2
<1>4. ASSUME NEW rest \in Seq(Byte) PROVE ReadVarint(Septets[v] \o rest) = Got(v, rest)
  <2>1. ReadSeptets[MaxSeptets][Septets[v] \o rest] = Got(v, rest)
    BY <1>1, <1>3, SeptetsRead
  <2> QED BY <2>1, <1>1, GotIs DEF ReadVarint, Narrowed
<1>5. ASSUME NEW k \in Nat, k < Len(Septets[v])
      PROVE  ReadVarint(SubSeq(Septets[v], 1, k)) = Failed
  <2>1. ReadSeptets[MaxSeptets][SubSeq(Septets[v], 1, k)] = Failed
    BY <1>1, <1>3, <1>5, SeptetsRead
  <2> QED BY <2>1, GotIs DEF ReadVarint, Narrowed
<1> QED BY <1>2, <1>3, <1>4, <1>5 DEF WriteVarint

-----------------------------------------------------------------------------
(* What is read of any bytes.                                              *)

LEMMA SeptetsLeave ==
  ASSUME NEW n \in 0..MaxSeptets, NEW bytes \in Seq(Byte), ReadSeptets[n][bytes].ok
  PROVE  Len(ReadSeptets[n][bytes].left) < Len(bytes)
<1> DEFINE T == {m \in Nat : \A b \in Seq(Byte) : m \in 0..MaxSeptets /\ ReadSeptets[m][b].ok
                               => Len(ReadSeptets[m][b].left) < Len(b)}
<1>1. ASSUME NEW m \in Nat, \A k \in Nat : k < m => k \in T PROVE m \in T
  <2> SUFFICES ASSUME NEW b \in Seq(Byte), m \in 0..MaxSeptets, ReadSeptets[m][b].ok
               PROVE  Len(ReadSeptets[m][b].left) < Len(b)
    OBVIOUS
  <2>1. m # 0
    BY ReadSeptetsAre, GotIs
  <2>2. m - 1 \in Nat /\ m - 1 < m /\ m - 1 \in 0..MaxSeptets
    BY <2>1, MaxSeptetsIs
  <2>3. ReadSeptets[m][b] = Septet(b, ReadSeptets[m - 1])
    BY <2>1, ReadSeptetsAre
  <2>4. b # <<>>
    BY <2>3, GotIs DEF Septet
  <2>5. /\ Head(b) \in Byte /\ Tail(b) \in Seq(Byte) /\ Len(Tail(b)) < Len(b)
        /\ Len(b) \in Nat /\ Len(Tail(b)) \in Nat
    BY <2>4
  <2>6. CASE Head(b) < Base
    <3>1. ReadSeptets[m][b] = Got(Head(b), Tail(b))
      BY <2>3, <2>4, <2>6 DEF Septet
    <3>2. ReadSeptets[m][b].left = Tail(b)
      BY <3>1 DEF Got
    <3> QED BY <3>2, <2>5
  <2>7. CASE ~(Head(b) < Base)
    <3> DEFINE r == ReadSeptets[m - 1][Tail(b)]
    <3>1. r \in Reads(Nat)
      BY ZenonT(40), <2>2, <2>5, ReadSeptetsAre
    <3>2. ReadSeptets[m][b] = More(Head(b), r)
      BY <2>3, <2>4, <2>7 DEF Septet
    <3>3. r.ok /\ ReadSeptets[m][b].left = r.left
      <4> HIDE DEF r
      <4> QED BY <3>1, <3>2, <2>5, MoreIs, GotIs, ReadsAre
    <3>4. Len(r.left) < Len(Tail(b))
      BY <3>3, <2>2, <2>5, <1>1
    <3>5. Len(r.left) \in Nat
      <4>1. r.left \in Seq(Byte)
        BY <3>1, <3>3, ReadsAre
      <4> QED BY <4>1
    <3> HIDE DEF r
    <3> QED BY <3>3, <3>4, <3>5, <2>5
  <2> QED BY <2>6, <2>7
<1> HIDE DEF T
<1>2. n \in T
  BY <1>1, NumbersInduction
<1> QED BY <1>2 DEF T

LEMMA VarintReads ==
  ASSUME NEW bytes \in Seq(Byte)
  PROVE  /\ ReadVarint(bytes) \in Reads(Nat)
         /\ ReadVarint(bytes).ok => Len(ReadVarint(bytes).left) < Len(bytes)
<1> DEFINE r == ReadSeptets[MaxSeptets][bytes]
<1>1. MaxSeptets \in 0..MaxSeptets
  BY MaxSeptetsIs
<1>2. r \in Reads(Nat) /\ (r.ok => Len(r.left) < Len(bytes))
  BY <1>1, ReadSeptetsAre, SeptetsLeave
<1>3. ReadVarint(bytes) = Narrowed(r)
  BY DEF ReadVarint
<1> HIDE DEF r
<1>4. CASE r.ok
  <2>1. r.value \in Nat /\ r.left \in Seq(Byte)
    BY <1>2, <1>4, ReadsAre
  <2>2. r.value % Longs \in Nat
    BY <2>1, WidthsAssumption
  <2> QED BY <1>2, <1>3, <1>4, <2>1, <2>2, GotIs DEF Narrowed
<1>5. CASE ~r.ok
  BY <1>3, <1>5, GotIs DEF Narrowed
<1> QED BY <1>4, <1>5

LEMMA PastReads ==
  ASSUME NEW bytes \in Seq(Byte), NEW size \in Nat
  PROVE  /\ Past(bytes, size) \in Reads(Seq(Byte))
         /\ Past(bytes, size).ok => Len(Past(bytes, size).left) <= Len(bytes)
<1>1. CASE size <= Len(bytes)
  <2>1. SubSeq(bytes, 1, size) \in Seq(Byte) /\ From(bytes, size + 1) \in Seq(Byte)
        /\ Len(From(bytes, size + 1)) <= Len(bytes)
    BY <1>1 DEF From
  <2>2. Past(bytes, size) = Got(SubSeq(bytes, 1, size), From(bytes, size + 1))
    BY <1>1 DEF Past
  <2>3. Past(bytes, size).left = From(bytes, size + 1)
    BY <2>2 DEF Got
  <2>4. Past(bytes, size) \in Reads(Seq(Byte))
    BY <2>1, <2>2 DEF Reads, Got
  <2> QED BY <2>1, <2>3, <2>4
<1>2. CASE ~(size <= Len(bytes))
  BY <1>2, GotIs DEF Past
<1> QED BY <1>1, <1>2

\* What a field can hold.
Content == Nat \union Seq(Byte)

LEMMA ReadsMore ==
  ASSUME NEW V, NEW W, V \subseteq W, NEW r \in Reads(V)
  PROVE  r \in Reads(W)
BY DEF Reads

LEMMA MessageReads ==
  ASSUME NEW bytes \in Seq(Byte)
  PROVE  /\ ReadMessage(bytes) \in Reads(Seq(Byte))
         /\ ReadMessage(bytes).ok => Len(ReadMessage(bytes).left) <= Len(bytes)
<1> DEFINE r == ReadVarint(bytes)
<1>1. r \in Reads(Nat) /\ (r.ok => Len(r.left) < Len(bytes))
  BY VarintReads
<1>2. ReadMessage(bytes) = IF r.ok THEN Past(r.left, r.value) ELSE Failed
  BY DEF ReadMessage, Counted
<1> HIDE DEF r
<1>3. CASE r.ok
  <2>1. r.value \in Nat /\ r.left \in Seq(Byte)
    BY <1>1, <1>3, ReadsAre
  <2> DEFINE p == Past(r.left, r.value)
  <2>2. p \in Reads(Seq(Byte)) /\ (p.ok => Len(p.left) <= Len(r.left))
    BY <2>1, PastReads
  <2>3. ReadMessage(bytes) = p
    BY <1>2, <1>3
  <2> HIDE DEF p
  <2>4. p.ok => Len(p.left) \in Nat
    BY <2>2, ReadsAre
  <2>5. Len(r.left) \in Nat /\ Len(bytes) \in Nat
    BY <2>1
  <2> QED BY <2>2, <2>3, <2>4, <2>5, <1>1, <1>3
<1>4. CASE ~r.ok
  BY <1>2, <1>4, GotIs
<1> QED BY <1>3, <1>4

LEMMA ValueReads ==
  ASSUME NEW bytes \in Seq(Byte), NEW type \in Nat
  PROVE  /\ ReadValue(type, bytes) \in Reads(Content)
         /\ ReadValue(type, bytes).ok => Len(ReadValue(type, bytes).left) <= Len(bytes)
<1> USE DEF Varint, Fixed64, LengthDelimited, Fixed32
<1>0. Nat \subseteq Content /\ Seq(Byte) \subseteq Content
  BY DEF Content
<1>1. CASE type = Varint
  <2>1. ReadValue(type, bytes) = ReadVarint(bytes)
    BY <1>1 DEF ReadValue
  <2>2. ReadVarint(bytes) \in Reads(Content)
    BY VarintReads, ReadsMore, <1>0
  <2>3. ReadVarint(bytes).ok => Len(ReadVarint(bytes).left) \in Nat
    BY <2>2, ReadsAre
  <2> QED BY <2>1, <2>2, <2>3, VarintReads
<1>2. CASE type = LengthDelimited
  <2>1. ReadValue(type, bytes) = ReadMessage(bytes)
    BY <1>2 DEF ReadValue
  <2> QED BY <2>1, MessageReads, ReadsMore, <1>0
<1>3. CASE type = Fixed64
  <2>1. ReadValue(type, bytes) = Past(bytes, 8)
    BY <1>3 DEF ReadValue
  <2> QED BY <2>1, PastReads, ReadsMore, <1>0
<1>4. CASE type = Fixed32
  <2>1. ReadValue(type, bytes) = Past(bytes, 4)
    BY <1>4 DEF ReadValue
  <2> QED BY <2>1, PastReads, ReadsMore, <1>0
<1>5. CASE type \notin {Varint, LengthDelimited, Fixed64, Fixed32}
  <2>1. ReadValue(type, bytes) = Failed
    BY <1>5 DEF ReadValue
  <2> QED BY <2>1, GotIs
<1> QED BY <1>1, <1>2, <1>3, <1>4, <1>5

Field == [number : Nat, type : Nat, value : Content]

LEMMA FieldReads ==
  ASSUME NEW bytes \in Seq(Byte)
  PROVE  /\ ReadField(bytes) \in Reads(Field)
         /\ ReadField(bytes).ok => Len(ReadField(bytes).left) < Len(bytes)
<1> DEFINE tag == ReadVarint(bytes)
           value == ReadValue(tag.value % 8, tag.left)
<1>1. tag \in Reads(Nat) /\ (tag.ok => Len(tag.left) < Len(bytes))
  BY VarintReads
<1>2. ReadField(bytes) = IF tag.ok /\ UInt32(tag.value \div 8) # 0
                         THEN FieldOf(tag.value, value) ELSE Failed
  BY DEF ReadField, FieldAfter
<1> HIDE DEF tag
<1>3. CASE tag.ok /\ UInt32(tag.value \div 8) # 0 /\ value.ok
  <2>1. tag.value \in Nat /\ tag.left \in Seq(Byte)
    BY <1>1, <1>3, ReadsAre
  <2>2. tag.value % 8 \in Nat /\ UInt32(tag.value \div 8) \in Nat
    BY <2>1, WidthsAssumption DEF UInt32
  <2>3. value \in Reads(Content) /\ (value.ok => Len(value.left) <= Len(tag.left))
    BY <2>1, <2>2, ValueReads
  <2> HIDE DEF value
  <2>4. value.value \in Content /\ value.left \in Seq(Byte)
    BY <2>3, <1>3, ReadsAre
  <2>5. ReadField(bytes) =
          Got([number |-> UInt32(tag.value \div 8), type |-> tag.value % 8, value |-> value.value],
              value.left)
    BY <1>2, <1>3 DEF FieldOf
  <2>6. [number |-> UInt32(tag.value \div 8), type |-> tag.value % 8, value |-> value.value] \in Field
    BY <2>2, <2>4 DEF Field
  <2>7. Len(value.left) \in Nat /\ Len(tag.left) \in Nat /\ Len(bytes) \in Nat
    BY <2>1, <2>4
  <2>8. Len(value.left) < Len(bytes)
    BY <2>3, <2>7, <1>1, <1>3
  <2> QED BY <2>5, <2>6, <2>8, <2>4, GotIs
<1>4. CASE ~(tag.ok /\ UInt32(tag.value \div 8) # 0 /\ value.ok)
  <2>1. ReadField(bytes) = Failed
    BY <1>2, <1>4 DEF FieldOf
  <2> QED BY <2>1, GotIs
<1> QED BY <1>3, <1>4

Parse == [ok : BOOLEAN, fields : Seq(Field)]

AllRead   == [ok |-> TRUE, fields |-> <<>>]
NotRead == [ok |-> FALSE, fields |-> <<>>]

Put(field, m) == [m EXCEPT !.fields = <<field>> \o @]

LEMMA PutIs ==
  ASSUME NEW f \in Field, NEW m \in Parse
  PROVE  Put(f, m) \in Parse /\ Put(f, m).ok = m.ok /\ Put(f, m).fields = <<f>> \o m.fields
<1>1. <<f>> \o m.fields \in Seq(Field)
  BY DEF Parse
<1> QED BY <1>1 DEF Put, Parse

(* The fields of a message: none of nothing, none where none can be read,  *)
(* and otherwise the first and those of what is left.                      *)
LEMMA FieldsAre ==
  ASSUME NEW bytes \in Seq(Byte)
  PROVE  /\ Fields[bytes] \in Parse
         /\ bytes = <<>> => Fields[bytes] = AllRead
         /\ bytes # <<>> /\ ~ReadField(bytes).ok => Fields[bytes] = NotRead
         /\ bytes # <<>> /\ ReadField(bytes).ok =>
              /\ Fields[bytes] = Put(ReadField(bytes).value, Fields[ReadField(bytes).left])
              /\ ReadField(bytes).left \in Seq(Byte) /\ ReadField(bytes).value \in Field
<1> DEFINE D == Seq(Byte)
           V == Parse
           size == [b \in D |-> Len(b)]
           stop == {b \in D : b = <<>> \/ ~ReadField(b).ok}
           base == [b \in D |-> IF b = <<>> THEN AllRead ELSE NotRead]
           prev == [b \in D |-> IF b \in stop THEN <<>> ELSE ReadField(b).left]
           step == [b \in D |-> [m \in V |-> IF b \in stop THEN AllRead ELSE Put(ReadField(b).value, m)]]
           Is(g, b) == IF b = <<>> THEN [ok |-> TRUE, fields |-> <<>>]
                       ELSE Ahead(ReadField(b), g)
<1>0. AllRead \in Parse /\ NotRead \in Parse /\ <<>> \in D
  BY DEF AllRead, NotRead, Parse
<1>a. ASSUME NEW b \in D, b # <<>>, ReadField(b).ok
      PROVE  /\ ReadField(b).left \in D /\ ReadField(b).value \in Field
             /\ Len(ReadField(b).left) < Len(b) /\ b \notin stop
  BY <1>a, FieldReads, ReadsAre
<1>1. Descends(D, V, size, stop, base, prev, step)
  <2>1. size \in [D -> Nat] /\ stop \in SUBSET D
    OBVIOUS
  <2>2. base \in [D -> V] /\ V # {}
    BY <1>0
  <2>3. prev \in [D -> D]
    BY <1>0, <1>a
  <2>4. step \in [D -> [V -> V]]
    <3>1. ASSUME NEW b \in D, NEW m \in V
          PROVE  (IF b \in stop THEN AllRead ELSE Put(ReadField(b).value, m)) \in V
      BY <1>0, <1>a, PutIs
    <3> QED BY <3>1
  <2>5. \A d \in D \ stop : size[prev[d]] < size[d]
    BY <1>a
  <2> HIDE DEF D, V, size, stop, base, prev, step
  <2> QED BY <2>1, <2>2, <2>3, <2>4, <2>5 DEF Descends
<1>2. PICK f \in [D -> V] : \A d \in D : f[d] = At(f, d, stop, base, prev, step)
  <2> HIDE DEF D, V, size, stop, base, prev, step
  <2> QED BY <1>1, Recursion
<1>3. ASSUME NEW b \in D
      PROVE  /\ b = <<>> => f[b] = AllRead
             /\ b # <<>> /\ ~ReadField(b).ok => f[b] = NotRead
             /\ b # <<>> /\ ReadField(b).ok =>
                  f[b] = Put(ReadField(b).value, f[ReadField(b).left])
  <2>1. CASE b = <<>>
    BY <1>2, <2>1 DEF At
  <2>2. CASE b # <<>> /\ ~ReadField(b).ok
    BY <1>2, <2>2 DEF At
  <2>3. CASE b # <<>> /\ ReadField(b).ok
    <3>1. ReadField(b).left \in D /\ b \notin stop
      BY <2>3, <1>a
    <3>2. f[b] = step[b][f[prev[b]]] /\ prev[b] = ReadField(b).left
      <4> HIDE DEF stop, step, base
      <4> QED BY <1>2, <3>1 DEF At
    <3>3. f[ReadField(b).left] \in V
      BY <3>1
    <3> HIDE DEF stop, prev, D, V
    <3> QED BY <3>1, <3>2, <3>3, <2>3
  <2> QED BY <2>1, <2>2, <2>3
<1>4. ASSUME NEW g, NEW b \in D
      PROVE  /\ b = <<>> => Is(g, b) = AllRead
             /\ b # <<>> /\ ~ReadField(b).ok => Is(g, b) = NotRead
             /\ b # <<>> /\ ReadField(b).ok =>
                  Is(g, b) = Put(ReadField(b).value, g[ReadField(b).left])
  BY DEF Ahead, AllRead, NotRead, Put
<1>5. \A b \in D : f[b] = Is(f, b)
  <2> HIDE DEF D, Is
  <2> QED BY <1>3, <1>4
<1>6. f = [b \in D |-> Is(f, b)]
  BY <1>5
<1>7. Fields = [b \in D |-> Is(Fields, b)]
  BY <1>6 DEF Fields
<1>8. \A b \in D : Fields[b] = Is(Fields, b)
  BY <1>7
<1>9. \A b \in D : Fields[b] = f[b]
  <2> DEFINE T == {b \in D : Fields[b] = f[b]}
  <2>1. ASSUME NEW b \in D, \A e \in D : size[e] < size[b] => e \in T PROVE b \in T
    <3>1. CASE b = <<>> \/ ~ReadField(b).ok
      <4> HIDE DEF D, Is
      <4> QED BY <3>1, <1>3, <1>4, <1>8
    <3>2. CASE b # <<>> /\ ReadField(b).ok
      <4>1. ReadField(b).left \in T
        BY <3>2, <1>a, <2>1
      <4>2. Fields[ReadField(b).left] = f[ReadField(b).left]
        BY <4>1
      <4> HIDE DEF D, Is
      <4> QED BY <4>2, <3>2, <1>3, <1>4, <1>8
    <3> QED BY <3>1, <3>2
  <2>2. size \in [D -> Nat]
    OBVIOUS
  <2>3. D \subseteq T
    <3> HIDE DEF D, size, T
    <3> QED BY <2>1, <2>2, Induction
  <2> QED BY <2>3
<1>10. bytes \in D
  OBVIOUS
<1>11. Fields[bytes] = f[bytes] /\ f[bytes] \in V
  BY <1>9, <1>10
<1>12. bytes # <<>> /\ ReadField(bytes).ok => Fields[ReadField(bytes).left] = f[ReadField(bytes).left]
  BY <1>a, <1>9
<1>13. bytes # <<>> /\ ReadField(bytes).ok =>
         ReadField(bytes).left \in Seq(Byte) /\ ReadField(bytes).value \in Field
  BY <1>a
<1>14. Fields[bytes] \in Parse
  BY <1>11
<1> HIDE DEF D, V, stop, size, base, prev, step
<1> QED BY <1>3, <1>10, <1>11, <1>12, <1>13, <1>14

-----------------------------------------------------------------------------
(* Sequences, and sequences of them one behind the other.                  *)

LEMMA AppendInduction ==
  ASSUME NEW S, NEW T, <<>> \in T, \A s \in Seq(S), e \in S : s \in T => Append(s, e) \in T
  PROVE  \A s \in Seq(S) : s \in T
<1> DEFINE D == Seq(S)
           size == [s \in D |-> Len(s)]
<1>1. ASSUME NEW d \in D, \A e \in D : size[e] < size[d] => e \in T PROVE d \in T
  <2>1. CASE d = <<>>
    BY <2>1
  <2>2. CASE d # <<>>
    <3>1. PICK s \in Seq(S), e \in S : d = Append(s, e)
      BY <2>2, SequenceEmptyOrAppend
    <3>2. Len(s) < Len(d)
      BY <3>1
    <3>3. s \in T
      BY <3>2, <1>1
    <3> QED BY <3>1, <3>3
  <2> QED BY <2>1, <2>2
<1>2. size \in [D -> Nat]
  OBVIOUS
<1>3. D \subseteq T
  <2> HIDE DEF D, size
  <2> QED BY <1>1, <1>2, Induction
<1> QED BY <1>3

LEMMA FrontInduction ==
  ASSUME NEW S, NEW T, <<>> \in T, \A s \in Seq(S), e \in S : s \in T => <<e>> \o s \in T
  PROVE  \A s \in Seq(S) : s \in T
<1> DEFINE D == Seq(S)
           size == [s \in D |-> Len(s)]
<1>1. ASSUME NEW d \in D, \A e \in D : size[e] < size[d] => e \in T PROVE d \in T
  <2>1. CASE d = <<>>
    BY <2>1
  <2>2. CASE d # <<>>
    <3>1. Head(d) \in S /\ Tail(d) \in Seq(S) /\ Len(Tail(d)) < Len(d) /\ d = <<Head(d)>> \o Tail(d)
      BY <2>2
    <3>2. Tail(d) \in T
      BY <3>1, <1>1
    <3> QED BY <3>1, <3>2
  <2> QED BY <2>1, <2>2
<1>2. size \in [D -> Nat]
  OBVIOUS
<1>3. D \subseteq T
  <2> HIDE DEF D, size
  <2> QED BY <1>1, <1>2, Induction
<1> QED BY <1>3

(* What FlattenSeq goes through. *)
LEMMA FlattenExists ==
  ASSUME NEW S, NEW seqs \in Seq(Seq(S)), Len(seqs) # 0
  PROVE  \E f \in [1..Len(seqs) -> Seq(S)] :
           \A i \in 1..Len(seqs) : f[i] = IF i = 1 THEN seqs[i] ELSE f[i - 1] \o seqs[i]
<1> DEFINE D == 1..Len(seqs)
           V == Seq(S)
           size == [i \in D |-> i]
           stop == {1}
           base == [i \in D |-> seqs[i]]
           prev == [i \in D |-> IF i = 1 THEN 1 ELSE i - 1]
           step == [i \in D |-> [s \in V |-> s \o seqs[i]]]
<1>1. Descends(D, V, size, stop, base, prev, step)
  <2>1. size \in [D -> Nat] /\ stop \in SUBSET D /\ prev \in [D -> D]
    OBVIOUS
  <2>2. base \in [D -> V]
    OBVIOUS
  <2>3. V # {}
    <3>1. <<>> \in V
      OBVIOUS
    <3> QED BY <3>1
  <2>4. step \in [D -> [V -> V]]
    OBVIOUS
  <2>5. \A d \in D \ stop : size[prev[d]] < size[d]
    OBVIOUS
  <2> HIDE DEF D, V, size, stop, base, prev, step
  <2> QED BY <2>1, <2>2, <2>3, <2>4, <2>5 DEF Descends
<1>2. PICK f \in [D -> V] : \A d \in D : f[d] = At(f, d, stop, base, prev, step)
  <2> HIDE DEF D, V, size, stop, base, prev, step
  <2> QED BY <1>1, Recursion
<1>3. ASSUME NEW i \in D
      PROVE  f[i] = IF i = 1 THEN seqs[i] ELSE f[i - 1] \o seqs[i]
  <2>1. CASE i = 1
    BY <1>2, <2>1 DEF At
  <2>2. CASE i # 1
    <3>1. i - 1 \in D
      BY <2>2
    <3>2. f[i] = step[i][f[prev[i]]] /\ prev[i] = i - 1
      BY <1>2, <2>2 DEF At
    <3>3. f[i - 1] \in V
      BY <3>1
    <3>4. step[i][f[i - 1]] = f[i - 1] \o seqs[i]
      BY <3>3
    <3> QED BY <3>2, <3>4, <2>2
  <2> QED BY <2>1, <2>2
<1> QED BY <1>3

LEMMA ConcatIs ==
  ASSUME NEW S, NEW seqs \in Seq(Seq(S))
  PROVE  /\ seqs = <<>> => Concat(seqs) = <<>>
         /\ seqs # <<>> =>
              \E f \in [1..Len(seqs) -> Seq(S)] :
                /\ \A i \in 1..Len(seqs) : f[i] = IF i = 1 THEN seqs[i] ELSE f[i - 1] \o seqs[i]
                /\ Concat(seqs) = f[Len(seqs)]
<1>1. CASE seqs = <<>>
  BY <1>1 DEF Concat, Seqs!FlattenSeq
<1>2. CASE seqs # <<>>
  <2> DEFINE D == 1..Len(seqs)
             Is(g, i) == IF i = 1 THEN seqs[i] ELSE g[i - 1] \o seqs[i]
             F == CHOOSE g : g = [i \in D |-> Is(g, i)]
  <2>1. Len(seqs) # 0 /\ Len(seqs) \in Nat /\ Len(seqs) \in D
    BY <1>2
  <2>2. PICK f \in [D -> Seq(S)] : \A i \in D : f[i] = Is(f, i)
    BY <2>1, FlattenExists
  <2>3. f = [i \in D |-> Is(f, i)]
    BY <2>2
  <2>4. F = [i \in D |-> Is(F, i)]
    BY <2>3
  <2>5. Concat(seqs) = F[Len(seqs)]
    BY <2>1 DEF Concat, Seqs!FlattenSeq
  <2> HIDE DEF F
  <2>6. \A i \in D : F[i] = Is(F, i)
    BY <2>4
  <2>7. \A i \in Nat : i \in {j \in Nat : j \in D => F[j] = f[j]}
    <3> DEFINE T == {j \in Nat : j \in D => F[j] = f[j]}
    <3>1. ASSUME NEW i \in Nat, \A j \in Nat : j < i => j \in T PROVE i \in T
      <4>1. CASE i \notin D
        BY <4>1
      <4>2. CASE i = 1
        BY <4>2, <2>2, <2>6, <2>1
      <4>3. CASE i \in D /\ i # 1
        <5>1. i - 1 \in D /\ i - 1 \in Nat /\ i - 1 < i
          BY <4>3, <2>1
        <5>2. F[i - 1] = f[i - 1]
          BY <5>1, <3>1
        <5> QED BY <5>2, <4>3, <2>2, <2>6
      <4> QED BY <4>1, <4>2, <4>3
    <3> HIDE DEF T
    <3>2. \A i \in Nat : i \in T
      BY <3>1, NumbersInduction
    <3> QED BY <3>2 DEF T
  <2>8. F[Len(seqs)] = f[Len(seqs)]
    BY <2>7, <2>1
  <2> QED BY <2>2, <2>5, <2>8, <1>2
<1> QED BY <1>1, <1>2

LEMMA ConcatAppend ==
  ASSUME NEW S, NEW seqs \in Seq(Seq(S)), NEW x \in Seq(S)
  PROVE  /\ Concat(seqs) \in Seq(S)
         /\ Concat(Append(seqs, x)) = Concat(seqs) \o x
<1>1. <<>> \in Seq(S) /\ Append(seqs, x) \in Seq(Seq(S)) /\ Append(seqs, x) # <<>>
  <2> DEFINE E == Seq(S)
  <2>1. <<>> \in Seq(S)
    OBVIOUS
  <2>2. seqs \in Seq(E) /\ x \in E
    OBVIOUS
  <2> HIDE DEF E
  <2>3. Append(seqs, x) \in Seq(E) /\ Append(seqs, x) # <<>>
    BY <2>2
  <2> QED BY <2>1, <2>3 DEF E
<1> DEFINE n == Len(seqs)
           more == Append(seqs, x)
<1>2. Len(more) = n + 1 /\ n \in Nat /\ (\A i \in 1..n : more[i] = seqs[i]) /\ more[n + 1] = x
  OBVIOUS
<1>3. PICK g \in [1..(n + 1) -> Seq(S)] :
        /\ \A i \in 1..(n + 1) : g[i] = IF i = 1 THEN more[i] ELSE g[i - 1] \o more[i]
        /\ Concat(more) = g[n + 1]
  <2> HIDE DEF more, n
  <2>1. more \in Seq(Seq(S)) /\ more # <<>>
    BY <1>1 DEF more
  <2>2. \E f \in [1..Len(more) -> Seq(S)] :
          /\ \A i \in 1..Len(more) : f[i] = IF i = 1 THEN more[i] ELSE f[i - 1] \o more[i]
          /\ Concat(more) = f[Len(more)]
    BY <2>1, ConcatIs
  <2>3. Len(more) = n + 1
    BY <1>2
  <2> QED BY <2>2, <2>3
<1>4. CASE seqs = <<>>
  <2>1. Concat(seqs) = <<>> /\ n = 0
    BY <1>4, ConcatIs
  <2>2. Concat(more) = x
    BY <2>1, <1>2, <1>3
  <2> QED BY <2>1, <2>2, <1>1
<1>5. CASE seqs # <<>>
  <2>1. PICK f \in [1..n -> Seq(S)] :
          /\ \A i \in 1..n : f[i] = IF i = 1 THEN seqs[i] ELSE f[i - 1] \o seqs[i]
          /\ Concat(seqs) = f[n]
    BY <1>5, ConcatIs
  <2>2. n \in 1..n /\ n # 0 /\ n + 1 # 1 /\ (n + 1) - 1 = n /\ n + 1 \in 1..(n + 1)
    BY <1>5, <1>2
  <2> HIDE DEF n, more
  <2>3. \A i \in Nat : i \in {j \in Nat : j \in 1..n => g[j] = f[j]}
    <3> DEFINE T == {j \in Nat : j \in 1..n => g[j] = f[j]}
    <3>1. ASSUME NEW i \in Nat, \A j \in Nat : j < i => j \in T PROVE i \in T
      <4>1. CASE i \notin 1..n
        BY <4>1
      <4>2. CASE i = 1 /\ i \in 1..n
        <5>1. 1 \in 1..n /\ 1 \in 1..(n + 1)
          BY <4>2, <1>2
        <5>2. g[1] = more[1] /\ more[1] = seqs[1] /\ f[1] = seqs[1]
          BY <5>1, <1>2, <1>3, <2>1
        <5> QED BY <5>2, <4>2
      <4>3. CASE i \in 1..n /\ i # 1
        <5>1. i - 1 \in 1..n /\ i - 1 \in Nat /\ i - 1 < i /\ i \in 1..(n + 1)
          BY <4>3, <1>2
        <5>2. g[i - 1] = f[i - 1]
          BY <5>1, <3>1
        <5>3. g[i] = g[i - 1] \o seqs[i]
          BY <5>1, <4>3, <1>2, <1>3
        <5> QED BY <5>2, <5>3, <4>3, <2>1
      <4> QED BY <4>1, <4>2, <4>3
    <3> HIDE DEF T
    <3>2. \A i \in Nat : i \in T
      BY <3>1, NumbersInduction
    <3> QED BY <3>2 DEF T
  <2>4. g[n] = f[n]
    BY <2>2, <2>3, <1>2
  <2>5. g[n + 1] = g[n] \o x
    BY <2>2, <1>2, <1>3
  <2> QED BY <2>1, <2>2, <2>4, <2>5, <1>3 DEF more
<1> QED BY <1>4, <1>5

LEMMA ConcatJoin ==
  ASSUME NEW S, NEW a \in Seq(Seq(S)), NEW b \in Seq(Seq(S))
  PROVE  /\ Concat(a \o b) = Concat(a) \o Concat(b)
         /\ Concat(a) \in Seq(S) /\ Concat(b) \in Seq(S)
<1> DEFINE T == {c \in Seq(Seq(S)) : Concat(a \o c) = Concat(a) \o Concat(c)}
<1>0. \A s \in Seq(Seq(S)) : Concat(s) \in Seq(S)
  <2> TAKE s \in Seq(Seq(S))
  <2>1. <<>> \in Seq(S)
    OBVIOUS
  <2> QED BY <2>1, ConcatAppend
<1>1. <<>> \in T
  <2>0. <<>> \in Seq(Seq(S))
    OBVIOUS
  <2>1. Concat(<<>>) = <<>>
    BY <2>0, ConcatIs
  <2>2. a \o <<>> = a /\ Concat(a) \o <<>> = Concat(a)
    BY <1>0
  <2> QED BY <2>0, <2>1, <2>2
<1>2. ASSUME NEW s \in Seq(Seq(S)), NEW e \in Seq(S), s \in T PROVE Append(s, e) \in T
  <2>1. a \o Append(s, e) = Append(a \o s, e) /\ a \o s \in Seq(Seq(S)) /\ Append(s, e) \in Seq(Seq(S))
    OBVIOUS
  <2>2. Concat(Append(a \o s, e)) = Concat(a \o s) \o e
    BY <2>1, ConcatAppend
  <2>3. Concat(Append(s, e)) = Concat(s) \o e
    BY ConcatAppend
  <2>4. Concat(a \o s) = Concat(a) \o Concat(s)
    BY <1>2
  <2>5. (Concat(a) \o Concat(s)) \o e = Concat(a) \o (Concat(s) \o e)
    <3>1. Concat(a) \in Seq(S) /\ Concat(s) \in Seq(S) /\ e \in Seq(S)
      BY <1>0
    <3> HIDE DEF T
    <3> QED BY SMTT(40), <3>1
  <2> QED BY <2>1, <2>2, <2>3, <2>4, <2>5
<1> HIDE DEF T
<1>3. b \in T
  <2> DEFINE E == Seq(S)
  <2>1. \A s \in Seq(E), e \in E : s \in T => Append(s, e) \in T
    BY <1>2
  <2>2. b \in Seq(E)
    OBVIOUS
  <2> HIDE DEF E
  <2> QED BY <1>1, <2>1, <2>2, AppendInduction
<1> QED BY <1>3, <1>0 DEF T

LEMMA ConcatOne ==
  ASSUME NEW S, NEW x \in Seq(S)
  PROVE  Concat(<<x>>) = x /\ <<x>> \in Seq(Seq(S))
<1>1. <<>> \in Seq(Seq(S)) /\ <<x>> = Append(<<>>, x) /\ <<>> \o x = x /\ <<x>> \in Seq(Seq(S))
  OBVIOUS
<1>2. Concat(<<>>) = <<>>
  BY <1>1, ConcatIs
<1>3. Concat(Append(<<>>, x)) = Concat(<<>>) \o x
  BY <1>1, ConcatAppend
<1> QED BY <1>1, <1>2, <1>3

LEMMA ConcatFirst ==
  ASSUME NEW S, NEW x \in Seq(S), NEW a \in Seq(Seq(S))
  PROVE  Concat(<<x>> \o a) = x \o Concat(a) /\ <<x>> \o a \in Seq(Seq(S)) /\ Concat(a) \in Seq(S)
<1>1. <<x>> \in Seq(Seq(S)) /\ Concat(<<x>>) = x
  BY ConcatOne
<1>2. <<x>> \o a \in Seq(Seq(S))
  BY <1>1
<1> QED BY <1>1, <1>2, ConcatJoin

LEMMA Joined ==
  ASSUME NEW S, NEW a \in Seq(S), NEW b \in Seq(S)
  PROVE  /\ a \o b \in Seq(S) /\ Len(a \o b) = Len(a) + Len(b)
         /\ a \o <<>> = a /\ <<>> \o a = a
         /\ \A k \in Nat : k <= Len(a) => SubSeq(a \o b, 1, k) = SubSeq(a, 1, k)
         /\ \A k \in Nat : k <= Len(b) => SubSeq(a \o b, 1, Len(a) + k) = a \o SubSeq(b, 1, k)
         /\ SubSeq(a, 1, Len(a)) = a /\ SubSeq(a, 1, 0) = <<>>
         /\ \A k \in Nat : k <= Len(a) => SubSeq(a, 1, k) \in Seq(S)
OBVIOUS

LEMMA SplitAt ==
  ASSUME NEW S, NEW s \in Seq(S), NEW i \in 1..Len(s)
  PROVE  /\ s = SubSeq(s, 1, i - 1) \o <<s[i]>> \o SubSeq(s, i + 1, Len(s))
         /\ SubSeq(s, 1, i - 1) \in Seq(S) /\ SubSeq(s, i + 1, Len(s)) \in Seq(S) /\ s[i] \in S
         /\ Len(SubSeq(s, 1, i - 1)) = i - 1
<1> DEFINE a == SubSeq(s, 1, i - 1)
           b == SubSeq(s, i + 1, Len(s))
<1>0. Len(s) \in Nat
  OBVIOUS
<1>1. a \in Seq(S) /\ b \in Seq(S) /\ s[i] \in S /\ Len(a) = i - 1 /\ Len(b) = Len(s) - i
  OBVIOUS
<1>2. /\ \A j \in 1..(i - 1) : a[j] = s[j]
      /\ \A j \in 1..(Len(s) - i) : b[j] = s[i + j]
  BY SMTT(40)
<1> HIDE DEF a, b
<1>3. (a \o <<s[i]>>) \o b \in Seq(S) /\ Len((a \o <<s[i]>>) \o b) = Len(s)
  BY SMTT(40), <1>1
<1>4. ASSUME NEW j \in 1..Len(s) PROVE ((a \o <<s[i]>>) \o b)[j] = s[j]
  <2>1. CASE j < i
    BY <2>1, <1>1, <1>2
  <2>2. CASE j = i
    <3>1. (a \o <<s[i]>>) \in Seq(S) /\ Len(a \o <<s[i]>>) = i /\ (a \o <<s[i]>>)[i] = s[i]
      BY <1>1
    <3>2. \A x, y \in Seq(S) : i \in 1..Len(x) => (x \o y)[i] = x[i]
      OBVIOUS
    <3> QED BY <2>2, <1>1, <3>1, <3>2
  <2>3. CASE j > i
    <3>1. j - i \in 1..(Len(s) - i) /\ ((a \o <<s[i]>>) \o b)[j] = b[j - i]
      BY <2>3, <1>1
    <3>2. b[j - i] = s[i + (j - i)]
      BY <3>1, <1>2
    <3>3. i + (j - i) = j
      BY <1>0
    <3> QED BY <3>1, <3>2, <3>3
  <2>4. j < i \/ j = i \/ j > i
    BY <1>0
  <2> QED BY <2>1, <2>2, <2>3, <2>4, Zenon
<1>5. s = (a \o <<s[i]>>) \o b
  BY <1>3, <1>4, SeqEqual
<1> QED BY <1>1, <1>5 DEF a, b

LEMMA SplitBefore ==
  ASSUME NEW S, NEW s \in Seq(S), NEW i \in 1..(Len(s) + 1)
  PROVE  /\ s = SubSeq(s, 1, i - 1) \o SubSeq(s, i, Len(s))
         /\ SubSeq(s, 1, i - 1) \in Seq(S) /\ SubSeq(s, i, Len(s)) \in Seq(S)
         /\ Len(SubSeq(s, 1, i - 1)) = i - 1
<1> DEFINE a == SubSeq(s, 1, i - 1)
           b == SubSeq(s, i, Len(s))
<1>0. Len(s) \in Nat
  OBVIOUS
<1>1. a \in Seq(S) /\ b \in Seq(S) /\ Len(a) = i - 1 /\ Len(b) = Len(s) - (i - 1)
  OBVIOUS
<1>2. /\ \A j \in 1..(i - 1) : a[j] = s[j]
      /\ \A j \in 1..Len(b) : b[j] = s[(i - 1) + j]
  OBVIOUS
<1> HIDE DEF a, b
<1>3. a \o b \in Seq(S) /\ Len(a \o b) = Len(s)
  BY <1>1
<1>4. ASSUME NEW j \in 1..Len(s) PROVE (a \o b)[j] = s[j]
  <2>1. CASE j < i
    BY <2>1, <1>1, <1>2
  <2>2. CASE j >= i
    <3>1. j - (i - 1) \in 1..Len(b) /\ (a \o b)[j] = b[j - (i - 1)]
      BY <2>2, <1>1
    <3>2. b[j - (i - 1)] = s[(i - 1) + (j - (i - 1))]
      BY <3>1, <1>2
    <3>3. (i - 1) + (j - (i - 1)) = j
      BY <1>0
    <3> QED BY <3>1, <3>2, <3>3
  <2>4. j < i \/ j >= i
    BY <1>0
  <2> QED BY <2>1, <2>2, <2>4, Zenon
<1>5. s = a \o b
  BY <1>3, <1>4, SeqEqual
<1> QED BY <1>1, <1>5 DEF a, b

(* Part is how a field is written: it is read back before whatever         *)
(* follows, and from less of it nothing is.                                *)
Carries(part, f) ==
  /\ part \in Seq(Byte) /\ part # <<>> /\ f \in Field
  /\ \A rest \in Seq(Byte) : ReadField(part \o rest) = Got(f, rest)
  /\ \A k \in Nat : k < Len(part) => ~ReadField(SubSeq(part, 1, k)).ok

LEMMA TagIs ==
  ASSUME NEW n \in 1..9, NEW t \in 0..7
  PROVE  /\ n * 8 + t \in 0..(Longs - 1)
         /\ (n * 8 + t) \div 8 = n /\ (n * 8 + t) % 8 = t
         /\ UInt32(n) = n /\ n # 0
         /\ WriteTag(n, t) = WriteVarint(n * 8 + t)
<1>1. n * 8 + t < Longs /\ n < Ints
  BY WidthsAssumption
<1>2. (n * 8 + t) \div 8 = n /\ (n * 8 + t) % 8 = t
  OBVIOUS
<1>3. n % Ints = n
  BY <1>1, WidthsAssumption
<1> QED BY <1>1, <1>2, <1>3, WidthsAssumption DEF UInt32, WriteTag

(* A tag and a value after it that is read back make a field. *)
LEMMA TagCarries ==
  ASSUME NEW n \in 1..9, NEW t \in 0..7, NEW value \in Content, NEW body \in Seq(Byte), body # <<>> \/ t = LengthDelimited,
         \A rest \in Seq(Byte) : ReadValue(t, body \o rest) = Got(value, rest),
         \A k \in Nat : k < Len(body) => ~ReadValue(t, SubSeq(body, 1, k)).ok
  PROVE  Carries(WriteTag(n, t) \o body, [number |-> n, type |-> t, value |-> value])
<1> DEFINE tag == WriteTag(n, t)
           f == [number |-> n, type |-> t, value |-> value]
           raw == n * 8 + t
<1>1. /\ tag \in Seq(Byte) /\ tag # <<>>
      /\ \A rest \in Seq(Byte) : ReadVarint(tag \o rest) = Got(raw, rest)
      /\ \A k \in Nat : k < Len(tag) => ReadVarint(SubSeq(tag, 1, k)) = Failed
  <2>1. raw \in 0..(Longs - 1) /\ tag = WriteVarint(raw)
    BY TagIs
  <2> HIDE DEF raw, tag
  <2> QED BY <2>1, VarintIsRead
<1>2. f \in Field
  BY DEF Field
<1>3. tag \o body \in Seq(Byte) /\ tag \o body # <<>> /\ Len(tag \o body) = Len(tag) + Len(body)
  BY <1>1
<1>4. ASSUME NEW rest \in Seq(Byte)
      PROVE  ReadField(tag \o rest) = FieldOf(raw, ReadValue(t, rest))
  <2>1. ReadVarint(tag \o rest) = Got(raw, rest)
    BY <1>1
  <2>2. ReadField(tag \o rest) = FieldAfter(Got(raw, rest))
    BY <2>1 DEF ReadField
  <2>3. UInt32(raw \div 8) # 0 /\ raw % 8 = t
    BY TagIs
  <2> HIDE DEF raw, tag
  <2>4. FieldAfter(Got(raw, rest)) = FieldOf(raw, ReadValue(raw % 8, rest))
    BY <2>3, GotIs DEF FieldAfter
  <2> QED BY <2>2, <2>3, <2>4
<1>5. UInt32(raw \div 8) = n /\ raw % 8 = t
  BY TagIs
<1> HIDE DEF tag, raw
<1>6. ASSUME NEW rest \in Seq(Byte) PROVE ReadField((tag \o body) \o rest) = Got(f, rest)
  <2>1. (tag \o body) \o rest = tag \o (body \o rest) /\ body \o rest \in Seq(Byte)
    BY <1>1, Associative
  <2>2. ReadField(tag \o (body \o rest)) = FieldOf(raw, Got(value, rest))
    BY <2>1, <1>4
  <2> QED BY <2>1, <2>2, <1>5, GotIs DEF FieldOf
<1>7. ASSUME NEW k \in Nat, k < Len(tag \o body) PROVE ~ReadField(SubSeq(tag \o body, 1, k)).ok
  <2>1. CASE k < Len(tag)
    <3>1. SubSeq(tag \o body, 1, k) = SubSeq(tag, 1, k)
      BY <2>1, <1>1, Joined
    <3>2. ReadVarint(SubSeq(tag, 1, k)) = Failed
      BY <2>1, <1>1
    <3> QED BY <3>1, <3>2, GotIs DEF ReadField, FieldAfter
  <2>2. CASE k >= Len(tag)
    <3> DEFINE j == k - Len(tag)
    <3>1. j \in Nat /\ j < Len(body) /\ k = Len(tag) + j
      BY <2>2, <1>7, <1>3, <1>1
    <3> HIDE DEF j
    <3>2. SubSeq(tag \o body, 1, k) = tag \o SubSeq(body, 1, j) /\ SubSeq(body, 1, j) \in Seq(Byte)
      BY <3>1, <1>1, Joined
    <3>3. ReadField(tag \o SubSeq(body, 1, j)) = FieldOf(raw, ReadValue(t, SubSeq(body, 1, j)))
      BY <3>2, <1>4
    <3>4. ~ReadValue(t, SubSeq(body, 1, j)).ok
      BY <3>1
    <3>5. FieldOf(raw, ReadValue(t, SubSeq(body, 1, j))) = Failed
      BY <3>4 DEF FieldOf
    <3> DEFINE cut == SubSeq(tag \o body, 1, k)
               all == tag \o SubSeq(body, 1, j)
    <3>6. cut = all /\ ReadField(all) = Failed
      BY <3>2, <3>3, <3>5
    <3> HIDE DEF cut, all
    <3>7. ~ReadField(cut).ok
      BY <3>6, GotIs
    <3> QED BY <3>7 DEF cut
  <2> QED BY <2>1, <2>2, <1>1
<1> QED BY <1>2, <1>3, <1>6, <1>7 DEF Carries, tag

LEMMA VarintCarries ==
  ASSUME NEW n \in 1..9, NEW v \in 0..(Longs - 1)
  PROVE  Carries(WriteTag(n, Varint) \o WriteVarint(v), [number |-> n, type |-> Varint, value |-> v])
<1>1. \A bytes : ReadValue(Varint, bytes) = ReadVarint(bytes)
  BY DEF ReadValue, Fixed32, Fixed64, Varint, LengthDelimited
<1>2. v \in Content /\ Varint \in 0..7
  BY WidthsAssumption DEF Content, Varint
<1>3. /\ WriteVarint(v) \in Seq(Byte) /\ WriteVarint(v) # <<>>
      /\ \A rest \in Seq(Byte) : ReadValue(Varint, WriteVarint(v) \o rest) = Got(v, rest)
      /\ \A k \in Nat : k < Len(WriteVarint(v)) => ~ReadValue(Varint, SubSeq(WriteVarint(v), 1, k)).ok
  BY <1>1, VarintIsRead, GotIs
<1> QED BY <1>2, <1>3, TagCarries

LEMMA PastIs ==
  ASSUME NEW body \in Seq(Byte)
  PROVE  /\ \A rest \in Seq(Byte) : Past(body \o rest, Len(body)) = Got(body, rest)
         /\ \A k \in Nat : k < Len(body) => ~Past(SubSeq(body, 1, k), Len(body)).ok
<1>1. ASSUME NEW rest \in Seq(Byte) PROVE Past(body \o rest, Len(body)) = Got(body, rest)
  <2>1. SubSeq(body \o rest, 1, Len(body)) = body /\ Len(body \o rest) = Len(body) + Len(rest)
    OBVIOUS
  <2>2. SubSeq(body \o rest, Len(body) + 1, Len(body \o rest)) = rest
    OBVIOUS
  <2>3. Len(body) <= Len(body \o rest)
    BY <2>1
  <2> QED BY <2>1, <2>2, <2>3 DEF Past, From
<1>2. ASSUME NEW k \in Nat, k < Len(body) PROVE ~Past(SubSeq(body, 1, k), Len(body)).ok
  <2>1. Len(SubSeq(body, 1, k)) = k
    BY <1>2
  <2> QED BY <2>1, <1>2, GotIs DEF Past
<1> QED BY <1>1, <1>2

LEMMA NoBytes == \A bytes : bytes = <<>> => Len(bytes) = 0
OBVIOUS

LEMMA FixedCarries ==
  ASSUME NEW n \in 1..9, NEW body \in Seq(Byte)
  PROVE  /\ Len(body) = 8 => Carries(WriteTag(n, Fixed64) \o body,
                                     [number |-> n, type |-> Fixed64, value |-> body])
         /\ Len(body) = 4 => Carries(WriteTag(n, Fixed32) \o body,
                                     [number |-> n, type |-> Fixed32, value |-> body])
<1>1. /\ \A bytes : ReadValue(Fixed64, bytes) = Past(bytes, 8)
      /\ \A bytes : ReadValue(Fixed32, bytes) = Past(bytes, 4)
  BY DEF ReadValue, Fixed32, Fixed64, Varint, LengthDelimited
<1>2. body \in Content /\ Fixed32 \in 0..7 /\ Fixed64 \in 0..7
  BY DEF Content, Fixed32, Fixed64
<1>3. ASSUME Len(body) = 8
      PROVE  Carries(WriteTag(n, Fixed64) \o body, [number |-> n, type |-> Fixed64, value |-> body])
  <2>1. body # <<>>
    <3>1. 8 # 0
      OBVIOUS
    <3> QED BY <3>1, <1>3, NoBytes, Zenon
  <2>2. /\ \A rest \in Seq(Byte) : ReadValue(Fixed64, body \o rest) = Got(body, rest)
        /\ \A k \in Nat : k < Len(body) => ~ReadValue(Fixed64, SubSeq(body, 1, k)).ok
    BY <1>1, <1>3, PastIs
  <2> QED BY <1>2, <1>3, <2>1, <2>2, TagCarries
<1>4. ASSUME Len(body) = 4
      PROVE  Carries(WriteTag(n, Fixed32) \o body, [number |-> n, type |-> Fixed32, value |-> body])
  <2>1. body # <<>>
    <3>1. 4 # 0
      OBVIOUS
    <3> QED BY <3>1, <1>4, NoBytes, Zenon
  <2>2. /\ \A rest \in Seq(Byte) : ReadValue(Fixed32, body \o rest) = Got(body, rest)
        /\ \A k \in Nat : k < Len(body) => ~ReadValue(Fixed32, SubSeq(body, 1, k)).ok
    BY <1>1, <1>4, PastIs
  <2> QED BY <1>2, <1>4, <2>1, <2>2, TagCarries
<1> QED BY <1>3, <1>4

(* A message, its length before it. *)
LEMMA MessageCarries ==
  ASSUME NEW n \in 1..9, NEW body \in Seq(Byte), Len(body) < Longs
  PROVE  /\ Carries(WriteMessage(n, body), [number |-> n, type |-> LengthDelimited, value |-> body])
         /\ WriteMessage(n, body) \in Seq(Byte) /\ Len(body) < Len(WriteMessage(n, body))
<1> DEFINE size == WriteVarint(Len(body))
<1>1. Len(body) \in 0..(Longs - 1)
  BY WidthsAssumption
<1>2. /\ size \in Seq(Byte) /\ size # <<>>
      /\ \A rest \in Seq(Byte) : ReadVarint(size \o rest) = Got(Len(body), rest)
      /\ \A k \in Nat : k < Len(size) => ReadVarint(SubSeq(size, 1, k)) = Failed
  BY <1>1, VarintIsRead
<1>3. \A bytes : ReadValue(LengthDelimited, bytes) = ReadMessage(bytes)
  BY DEF ReadValue, Fixed32, Fixed64, Varint, LengthDelimited
<1> HIDE DEF size
<1>4. size \o body \in Seq(Byte) /\ Len(size \o body) = Len(size) + Len(body)
  BY <1>2
<1>5. ASSUME NEW rest \in Seq(Byte)
      PROVE  ReadValue(LengthDelimited, (size \o body) \o rest) = Got(body, rest)
  <2>1. (size \o body) \o rest = size \o (body \o rest) /\ body \o rest \in Seq(Byte)
    BY <1>2, Associative
  <2>2. ReadVarint(size \o (body \o rest)) = Got(Len(body), body \o rest)
    BY <2>1, <1>2
  <2>3. ReadMessage((size \o body) \o rest) = Past(body \o rest, Len(body))
    BY <2>1, <2>2, GotIs DEF ReadMessage, Counted
  <2> QED BY <2>3, <1>3, PastIs
<1>6. ASSUME NEW k \in Nat, k < Len(size \o body)
      PROVE  ~ReadValue(LengthDelimited, SubSeq(size \o body, 1, k)).ok
  <2>1. CASE k < Len(size)
    <3>1. SubSeq(size \o body, 1, k) = SubSeq(size, 1, k)
      BY <2>1, <1>2, Joined
    <3>2. ReadVarint(SubSeq(size, 1, k)) = Failed
      BY <2>1, <1>2
    <3>3. ReadMessage(SubSeq(size \o body, 1, k)) = Failed
      BY <3>1, <3>2, GotIs DEF ReadMessage, Counted
    <3> QED BY <3>3, <1>3, GotIs
  <2>2. CASE k >= Len(size)
    <3> DEFINE j == k - Len(size)
    <3>1. j \in Nat /\ j < Len(body) /\ k = Len(size) + j
      BY <2>2, <1>6, <1>4, <1>2
    <3> HIDE DEF j
    <3>2. SubSeq(size \o body, 1, k) = size \o SubSeq(body, 1, j) /\ SubSeq(body, 1, j) \in Seq(Byte)
      BY SMTT(40), <3>1, <1>2, Joined
    <3>3. ReadVarint(size \o SubSeq(body, 1, j)) = Got(Len(body), SubSeq(body, 1, j))
      BY <3>2, <1>2
    <3> DEFINE cut == SubSeq(size \o body, 1, k)
               part == SubSeq(body, 1, j)
               all == size \o part
    <3>4. cut = all /\ ReadVarint(all) = Got(Len(body), part) /\ ~Past(part, Len(body)).ok
      BY <3>1, <3>2, <3>3, PastIs
    <3> HIDE DEF cut, part, all
    <3>5. ReadMessage(cut) = Past(part, Len(body))
      BY <3>4, GotIs DEF ReadMessage, Counted
    <3>6. ~ReadValue(LengthDelimited, cut).ok
      BY <3>4, <3>5, <1>3
    <3> QED BY <3>6 DEF cut
  <2> QED BY <2>1, <2>2, <1>2
<1>7. body \in Content /\ LengthDelimited \in 0..7
  BY DEF Content, LengthDelimited
<1>8. Carries(WriteTag(n, LengthDelimited) \o (size \o body),
              [number |-> n, type |-> LengthDelimited, value |-> body])
  BY <1>4, <1>5, <1>6, <1>7, TagCarries
<1>9. WriteTag(n, LengthDelimited) \in Seq(Byte)
  BY ZenonT(40), <1>7, TagIs, VarintIsRead
<1>10. WriteMessage(n, body) = WriteTag(n, LengthDelimited) \o (size \o body)
  BY SMTT(40), <1>9, <1>2, Associative DEF WriteMessage, size
<1>11. Len(body) < Len(WriteMessage(n, body)) /\ WriteMessage(n, body) \in Seq(Byte)
  BY <1>10, <1>9, <1>4, <1>2
<1> QED BY <1>8, <1>10, <1>11

(* Bytes are how fields are written: they are read back before whatever    *)
(* follows, and less of the bytes is read, if at all, as the first of the  *)
(* fields.                                                                 *)
Leads(some, fs) == some \in Seq(Field) /\ \E more \in Seq(Field) : fs = some \o more

Bears(bytes, fs) ==
  /\ bytes \in Seq(Byte) /\ fs \in Seq(Field)
  /\ \A rest \in Seq(Byte) : /\ Fields[bytes \o rest].ok = Fields[rest].ok
                             /\ Fields[bytes \o rest].fields = fs \o Fields[rest].fields
  /\ \A k \in Nat : k < Len(bytes) /\ Fields[SubSeq(bytes, 1, k)].ok =>
                      Leads(Fields[SubSeq(bytes, 1, k)].fields, fs)

LEMMA LeadsIs ==
  ASSUME NEW fs \in Seq(Field), NEW gs \in Seq(Field)
  PROVE  /\ Leads(<<>>, fs) /\ Leads(fs, fs)
         /\ \A some : Leads(some, fs) => Leads(some, fs \o gs)
         /\ \A some : Leads(some, gs) => Leads(fs \o some, fs \o gs)
<1>1. <<>> \in Seq(Field) /\ fs = <<>> \o fs /\ fs = fs \o <<>>
  OBVIOUS
<1>2. ASSUME NEW some, Leads(some, fs) PROVE Leads(some, fs \o gs)
  <2>1. PICK more \in Seq(Field) : some \in Seq(Field) /\ fs = some \o more
    BY <1>2 DEF Leads
  <2>2. fs \o gs = some \o (more \o gs) /\ more \o gs \in Seq(Field)
    BY <2>1
  <2> QED BY <2>1, <2>2 DEF Leads
<1>3. ASSUME NEW some, Leads(some, gs) PROVE Leads(fs \o some, fs \o gs)
  <2>1. PICK more \in Seq(Field) : some \in Seq(Field) /\ gs = some \o more
    BY <1>3 DEF Leads
  <2>2. fs \o gs = (fs \o some) \o more /\ fs \o some \in Seq(Field)
    BY SMTT(40), <2>1
  <2> QED BY <2>1, <2>2 DEF Leads
<1> QED BY <1>1, <1>2, <1>3 DEF Leads

LEMMA NoFields ==
  ASSUME NEW bytes \in Seq(Byte)
  PROVE  /\ Fields[bytes] \in Parse /\ Fields[bytes].fields \in Seq(Field) /\ Fields[bytes].ok \in BOOLEAN
         /\ bytes = <<>> => Fields[bytes].ok /\ Fields[bytes].fields = <<>>
BY FieldsAre DEF Parse, AllRead

LEMMA BearsNothing == Bears(<<>>, <<>>)
<1>1. <<>> \in Seq(Byte) /\ <<>> \in Seq(Field) /\ ~(\E k \in Nat : k < Len(<<>>))
  OBVIOUS
<1>2. ASSUME NEW rest \in Seq(Byte)
      PROVE  <<>> \o rest = rest /\ <<>> \o Fields[rest].fields = Fields[rest].fields
  BY NoFields
<1> QED BY <1>1, <1>2 DEF Bears

LEMMA BearsOne ==
  ASSUME NEW part, NEW f, Carries(part, f)
  PROVE  Bears(part, <<f>>)
<1>1. /\ part \in Seq(Byte) /\ part # <<>> /\ f \in Field
      /\ \A rest \in Seq(Byte) : ReadField(part \o rest) = Got(f, rest)
      /\ \A k \in Nat : k < Len(part) => ~ReadField(SubSeq(part, 1, k)).ok
  BY DEF Carries
<1>2. <<f>> \in Seq(Field)
  BY <1>1
<1>3. ASSUME NEW rest \in Seq(Byte)
      PROVE  /\ Fields[part \o rest].ok = Fields[rest].ok
             /\ Fields[part \o rest].fields = <<f>> \o Fields[rest].fields
  <2> DEFINE all == part \o rest
  <2>1. all \in Seq(Byte) /\ all # <<>>
    BY <1>1
  <2>2. ReadField(all) = Got(f, rest)
    BY <1>1
  <2> HIDE DEF all
  <2>3. Fields[all] = Put(f, Fields[rest])
    BY <2>1, <2>2, FieldsAre, GotIs
  <2>4. Fields[rest] \in Parse
    BY FieldsAre
  <2>5. /\ Put(f, Fields[rest]).ok = Fields[rest].ok
        /\ Put(f, Fields[rest]).fields = <<f>> \o Fields[rest].fields
    BY Zenon, <2>4, <1>1, PutIs
  <2> QED BY Zenon, <2>3, <2>5 DEF all
<1>4. ASSUME NEW k \in Nat, k < Len(part), Fields[SubSeq(part, 1, k)].ok
      PROVE  Leads(Fields[SubSeq(part, 1, k)].fields, <<f>>)
  <2> DEFINE cut == SubSeq(part, 1, k)
  <2>1. cut \in Seq(Byte) /\ ~ReadField(cut).ok
    BY <1>1, <1>4
  <2> HIDE DEF cut
  <2>2. CASE cut = <<>>
    <3>1. Fields[cut].fields = <<>>
      BY <2>1, <2>2, NoFields
    <3> QED BY <3>1, <1>2, LeadsIs DEF cut
  <2>3. CASE cut # <<>>
    <3>1. Fields[cut] = NotRead
      BY <2>1, <2>3, FieldsAre
    <3> QED BY <3>1, <1>4 DEF NotRead, cut
  <2> QED BY <2>2, <2>3
<1> QED BY <1>1, <1>2, <1>3, <1>4 DEF Bears

LEMMA BearsJoin ==
  ASSUME NEW a, NEW fs, Bears(a, fs), NEW b, NEW gs, Bears(b, gs)
  PROVE  Bears(a \o b, fs \o gs)
<1>1. /\ a \in Seq(Byte) /\ b \in Seq(Byte) /\ fs \in Seq(Field) /\ gs \in Seq(Field)
      /\ a \o b \in Seq(Byte) /\ fs \o gs \in Seq(Field) /\ Len(a \o b) = Len(a) + Len(b)
  BY DEF Bears
<1>2. ASSUME NEW rest \in Seq(Byte)
      PROVE  /\ Fields[(a \o b) \o rest].ok = Fields[rest].ok
             /\ Fields[(a \o b) \o rest].fields = (fs \o gs) \o Fields[rest].fields
  <2> DEFINE after == b \o rest
             left == Fields[rest].fields
  <2>1. (a \o b) \o rest = a \o after /\ after \in Seq(Byte)
    BY <1>1
  <2>2. Fields[after].ok = Fields[rest].ok /\ Fields[after].fields = gs \o left
    BY DEF Bears
  <2> HIDE DEF after
  <2>3. Fields[a \o after].ok = Fields[after].ok /\ Fields[a \o after].fields = fs \o Fields[after].fields
    BY <2>1 DEF Bears
  <2>4. left \in Seq(Field)
    BY NoFields
  <2> HIDE DEF left
  <2>5. fs \o (gs \o left) = (fs \o gs) \o left
    BY <1>1, <2>4
  <2> QED BY <2>1, <2>2, <2>3, <2>5 DEF left
<1>3. ASSUME NEW k \in Nat, k < Len(a \o b), Fields[SubSeq(a \o b, 1, k)].ok
      PROVE  Leads(Fields[SubSeq(a \o b, 1, k)].fields, fs \o gs)
  <2>1. CASE k < Len(a)
    <3> DEFINE cut == SubSeq(a, 1, k)
    <3>1. SubSeq(a \o b, 1, k) = cut
      BY <2>1, <1>1, Joined
    <3>2. Fields[cut].ok
      BY <3>1, <1>3
    <3>3. Leads(Fields[cut].fields, fs)
      BY <3>2, <2>1 DEF Bears
    <3> HIDE DEF cut
    <3> QED BY <3>1, <3>3, <1>1, LeadsIs
  <2>2. CASE k >= Len(a)
    <3> DEFINE j == k - Len(a)
               cut == SubSeq(b, 1, j)
               all == SubSeq(a \o b, 1, k)
    <3>1. j \in Nat /\ j < Len(b) /\ k = Len(a) + j
      BY <2>2, <1>3, <1>1
    <3> HIDE DEF j
    <3>2. all = a \o cut /\ cut \in Seq(Byte)
      BY <3>1, <1>1, Joined
    <3>3. Fields[cut].ok => Leads(Fields[cut].fields, gs)
      BY <3>1 DEF Bears
    <3>4. Fields[all].ok
      BY <1>3
    <3> HIDE DEF cut, all
    <3>5. Fields[all].ok = Fields[cut].ok /\ Fields[all].fields = fs \o Fields[cut].fields
      BY <3>2 DEF Bears
    <3>6. Leads(fs \o Fields[cut].fields, fs \o gs)
      BY <3>3, <3>4, <3>5, <1>1, LeadsIs
    <3> QED BY <3>5, <3>6 DEF all
  <2> QED BY <2>1, <2>2, <1>1
<1> QED BY <1>1, <1>2, <1>3 DEF Bears

BearsAll(parts, fss) ==
  /\ parts \in Seq(Seq(Byte)) /\ fss \in Seq(Seq(Field)) /\ Len(parts) = Len(fss)
  /\ \A i \in 1..Len(parts) : Bears(parts[i], fss[i])

LEMMA BearsAllJoin ==
  ASSUME NEW a, NEW fa, BearsAll(a, fa), NEW b, NEW fb, BearsAll(b, fb)
  PROVE  BearsAll(a \o b, fa \o fb)
<1> DEFINE P == Seq(Byte)
           F == Seq(Field)
<1>0. /\ a \in Seq(P) /\ fa \in Seq(F) /\ Len(a) = Len(fa) /\ \A i \in 1..Len(a) : Bears(a[i], fa[i])
      /\ b \in Seq(P) /\ fb \in Seq(F) /\ Len(b) = Len(fb) /\ \A i \in 1..Len(b) : Bears(b[i], fb[i])
  BY DEF BearsAll
<1> HIDE DEF P, F
<1>1. /\ a \o b \in Seq(P) /\ fa \o fb \in Seq(F)
      /\ Len(a \o b) = Len(a) + Len(b) /\ Len(fa \o fb) = Len(fa) + Len(fb)
  BY <1>0
<1>2. ASSUME NEW i \in 1..Len(a \o b) PROVE Bears((a \o b)[i], (fa \o fb)[i])
  <2>1. CASE i <= Len(a)
    <3>1. i \in 1..Len(a) /\ (a \o b)[i] = a[i] /\ (fa \o fb)[i] = fa[i]
      BY <2>1, <1>0, <1>1
    <3> QED BY <3>1, <1>0
  <2>2. CASE i > Len(a)
    <3>1. i - Len(a) \in 1..Len(b) /\ (a \o b)[i] = b[i - Len(a)] /\ (fa \o fb)[i] = fb[i - Len(a)]
      BY <2>2, <1>0, <1>1
    <3> QED BY <3>1, <1>0
  <2>3. i <= Len(a) \/ i > Len(a)
    BY <1>0, <1>1
  <2> QED BY <2>1, <2>2, <2>3, Zenon
<1> QED BY <1>0, <1>1, <1>2 DEF BearsAll, P, F

LEMMA BearsAllOne ==
  ASSUME NEW part, NEW fs, Bears(part, fs)
  PROVE  BearsAll(<<part>>, <<fs>>)
<1>1. part \in Seq(Byte) /\ fs \in Seq(Field)
  BY DEF Bears
<1>2. <<part>> \in Seq(Seq(Byte)) /\ <<fs>> \in Seq(Seq(Field)) /\ Len(<<part>>) = 1 /\ Len(<<fs>>) = 1
  BY <1>1, ConcatOne
<1> QED BY <1>2 DEF BearsAll

LEMMA BearsAllFirst ==
  ASSUME NEW parts, NEW fss, BearsAll(parts, fss), NEW i \in 1..(Len(parts) + 1)
  PROVE  /\ BearsAll(SubSeq(parts, 1, i - 1), SubSeq(fss, 1, i - 1))
         /\ BearsAll(SubSeq(parts, i, Len(parts)), SubSeq(fss, i, Len(fss)))
<1> DEFINE P == Seq(Byte)
           F == Seq(Field)
           n == Len(parts)
<1>0. /\ parts \in Seq(P) /\ fss \in Seq(F) /\ n = Len(fss) /\ n \in Nat
      /\ \A j \in 1..n : Bears(parts[j], fss[j])
  BY DEF BearsAll
<1> HIDE DEF P, F
<1> DEFINE a == SubSeq(parts, 1, i - 1)
           fa == SubSeq(fss, 1, i - 1)
           b == SubSeq(parts, i, n)
           fb == SubSeq(fss, i, n)
<1>1. /\ a \in Seq(P) /\ fa \in Seq(F) /\ Len(a) = i - 1 /\ Len(fa) = i - 1
      /\ b \in Seq(P) /\ fb \in Seq(F) /\ Len(b) = n - i + 1 /\ Len(fb) = n - i + 1
  BY <1>0
<1>2. /\ \A j \in 1..(i - 1) : a[j] = parts[j] /\ fa[j] = fss[j] /\ j \in 1..n
      /\ \A j \in 1..(n - i + 1) : b[j] = parts[i + j - 1] /\ fb[j] = fss[i + j - 1] /\ i + j - 1 \in 1..n
  BY <1>0
<1> HIDE DEF a, fa, b, fb, n
<1>3. /\ \A j \in 1..Len(a) : Bears(a[j], fa[j])
      /\ \A j \in 1..Len(b) : Bears(b[j], fb[j])
  BY <1>0, <1>1, <1>2
<1>4. BearsAll(a, fa) /\ BearsAll(b, fb)
  BY <1>1, <1>3 DEF BearsAll, P, F
<1> QED BY <1>4, <1>0 DEF a, fa, b, fb, n

LEMMA BearsConcat ==
  ASSUME NEW parts, NEW fss, BearsAll(parts, fss)
  PROVE  Bears(Concat(parts), Concat(fss))
<1> DEFINE T == {n \in Nat : \A ps, gss : BearsAll(ps, gss) /\ Len(ps) = n =>
                                Bears(Concat(ps), Concat(gss))}
<1>1. ASSUME NEW n \in Nat, \A m \in Nat : m < n => m \in T PROVE n \in T
  <2> SUFFICES ASSUME NEW ps, NEW gss, BearsAll(ps, gss), Len(ps) = n
               PROVE  Bears(Concat(ps), Concat(gss))
    OBVIOUS
  <2>0. /\ ps \in Seq(Seq(Byte)) /\ gss \in Seq(Seq(Field)) /\ Len(gss) = n
        /\ \A i \in 1..n : Bears(ps[i], gss[i])
    BY DEF BearsAll
  <2>1. CASE n = 0
    <3>1. ps = <<>> /\ gss = <<>>
      BY <2>0, <2>1
    <3>2. Concat(ps) = <<>> /\ Concat(gss) = <<>>
      BY <3>1, <2>0, ConcatIs
    <3> QED BY <3>2, BearsNothing
  <2>2. CASE n # 0
    <3>1. PICK qs \in Seq(Seq(Byte)), p \in Seq(Byte) : ps = Append(qs, p)
      <4> DEFINE P == Seq(Byte)
      <4>1. ps \in Seq(P) /\ ps # <<>>
        BY <2>0, <2>2
      <4> HIDE DEF P
      <4>2. \E qs \in Seq(P), p \in P : ps = Append(qs, p)
        BY <4>1, SequenceEmptyOrAppend
      <4> QED BY <4>2 DEF P
    <3>2. PICK hss \in Seq(Seq(Field)), hs \in Seq(Field) : gss = Append(hss, hs)
      <4> DEFINE F == Seq(Field)
      <4>1. gss \in Seq(F) /\ gss # <<>>
        BY <2>0, <2>2
      <4> HIDE DEF F
      <4>2. \E hss \in Seq(F), hs \in F : gss = Append(hss, hs)
        BY <4>1, SequenceEmptyOrAppend
      <4> QED BY <4>2 DEF F
    <3>3. /\ Len(qs) = n - 1 /\ Len(hss) = n - 1
          /\ \A i \in 1..(n - 1) : ps[i] = qs[i] /\ gss[i] = hss[i]
          /\ ps[n] = p /\ gss[n] = hs
      BY <3>1, <3>2, <2>0
    <3>4. BearsAll(qs, hss) /\ n - 1 \in T /\ Bears(p, hs)
      <4>1. \A i \in 1..(n - 1) : i \in 1..n
        BY <2>2
      <4>2. \A i \in 1..Len(qs) : Bears(qs[i], hss[i])
        BY <4>1, <3>3, <2>0
      <4>3. n - 1 \in T /\ n \in 1..n
        BY <1>1, <2>2
      <4>4. BearsAll(qs, hss)
        BY <4>2, <3>3, <3>1, <3>2 DEF BearsAll
      <4> QED BY <4>3, <4>4, <3>3, <2>0
    <3>5. Bears(Concat(qs), Concat(hss))
      BY <3>3, <3>4
    <3>6. Concat(ps) = Concat(qs) \o p /\ Concat(gss) = Concat(hss) \o hs
      BY <3>1, <3>2, ConcatAppend
    <3> QED BY <3>4, <3>5, <3>6, BearsJoin
  <2> QED BY <2>1, <2>2
<1>2. Len(parts) \in Nat
  BY DEF BearsAll
<1> HIDE DEF T
<1>3. \A n \in Nat : n \in T
  BY <1>1, NumbersInduction
<1> QED BY <1>2, <1>3 DEF T

LEMMA LenConcat ==
  ASSUME NEW S, NEW parts \in Seq(Seq(S)), NEW i \in 1..Len(parts)
  PROVE  Len(parts[i]) <= Len(Concat(parts)) /\ Len(Concat(parts)) \in Nat
<1> DEFINE P == Seq(S)
           a == SubSeq(parts, 1, i - 1)
           b == SubSeq(parts, i + 1, Len(parts))
           p == parts[i]
<1>1. parts = (a \o <<p>>) \o b /\ a \in Seq(P) /\ b \in Seq(P) /\ p \in P
  <2> HIDE DEF P
  <2>1. parts \in Seq(P)
    BY DEF P
  <2> QED BY <2>1, SplitAt
<1> HIDE DEF a, b, p
<1>2. <<p>> \in Seq(Seq(S)) /\ Concat(<<p>>) = p
  BY <1>1, ConcatOne
<1>3. a \o <<p>> \in Seq(P)
  <2>1. <<p>> \in Seq(P)
    BY <1>2
  <2> HIDE DEF P
  <2> QED BY <1>1, <2>1
<1>4. Concat(parts) = (Concat(a) \o p) \o Concat(b) /\ Concat(a) \in Seq(S) /\ Concat(b) \in Seq(S)
  <2>1. Concat((a \o <<p>>) \o b) = Concat(a \o <<p>>) \o Concat(b) /\ Concat(b) \in Seq(S)
    BY <1>1, <1>3, ConcatJoin
  <2>2. Concat(a \o <<p>>) = Concat(a) \o Concat(<<p>>) /\ Concat(a) \in Seq(S)
    BY <1>1, <1>2, ConcatJoin
  <2> QED BY <2>1, <2>2, <1>1, <1>2
<1> DEFINE x == Concat(a)
           y == Concat(b)
<1>5. x \in Seq(S) /\ y \in Seq(S) /\ p \in Seq(S) /\ Concat(parts) = (x \o p) \o y
  BY <1>1, <1>4
<1> HIDE DEF x, y
<1>6. Len((x \o p) \o y) = Len(x) + Len(p) + Len(y)
  BY <1>5
<1>7. Len(x) \in Nat /\ Len(p) \in Nat /\ Len(y) \in Nat
  BY <1>5
<1> QED BY <1>5, <1>6, <1>7 DEF p

Mark(n, t, v) == [number |-> n, type |-> t, value |-> v]

Marks(n, t, vs) == [i \in DOMAIN vs |-> <<Mark(n, t, vs[i])>>]

Same(f, n, t) == f.number = n /\ f.type = t

LEMMA ValueOfIs ==
  ASSUME NEW f \in Field, NEW n, NEW t
  PROVE  /\ ValueOf(f, n, t) \in Seq(Content)
         /\ Same(f, n, t) => ValueOf(f, n, t) = <<f.value>>
         /\ ~Same(f, n, t) => ValueOf(f, n, t) = <<>>
<1>1. f.value \in Content
  BY DEF Field
<1>2. <<f.value>> \in Seq(Content) /\ <<>> \in Seq(Content)
  BY <1>1
<1> QED BY <1>2 DEF ValueOf, Same

LEMMA ValuesAre ==
  ASSUME NEW n, NEW t
  PROVE  /\ Values(<<>>, n, t) = <<>>
         /\ \A f \in Field : Values(<<f>>, n, t) = ValueOf(f, n, t)
         /\ \A a \in Seq(Field) : Values(a, n, t) \in Seq(Content)
         /\ \A a, b \in Seq(Field) : Values(a \o b, n, t) = Values(a, n, t) \o Values(b, n, t)
<1> DEFINE V(a) == [i \in DOMAIN a |-> ValueOf(a[i], n, t)]
           C == Seq(Content)
<1>0. \A a : Values(a, n, t) = Concat(V(a))
  BY DEF Values
<1>1. ASSUME NEW a \in Seq(Field) PROVE V(a) \in Seq(C) /\ Len(V(a)) = Len(a)
  <2>1. ASSUME NEW i \in 1..Len(a) PROVE ValueOf(a[i], n, t) \in C
    BY ValueOfIs
  <2> HIDE DEF C
  <2> QED BY <2>1
<1>2. <<>> \in Seq(Seq(Content)) /\ V(<<>>) = <<>>
  OBVIOUS
<1>3. Concat(<<>>) = <<>>
  BY <1>2, ConcatIs
<1>4. ASSUME NEW f \in Field PROVE Values(<<f>>, n, t) = ValueOf(f, n, t)
  <2>1. V(<<f>>) = <<ValueOf(f, n, t)>>
    OBVIOUS
  <2>2. Concat(<<ValueOf(f, n, t)>>) = ValueOf(f, n, t)
    BY ValueOfIs, ConcatOne
  <2> QED BY <1>0, <2>1, <2>2
<1>5. ASSUME NEW a \in Seq(Field) PROVE Values(a, n, t) \in Seq(Content)
  <2> DEFINE va == V(a)
  <2>1. va \in Seq(Seq(Content))
    BY <1>1
  <2> HIDE DEF va
  <2>2. Concat(va) \in Seq(Content)
    BY <2>1, <1>2, ConcatJoin
  <2> QED BY <2>2, <1>0 DEF va
<1>6. ASSUME NEW a \in Seq(Field), NEW b \in Seq(Field)
      PROVE  Values(a \o b, n, t) = Values(a, n, t) \o Values(b, n, t)
  <2> DEFINE va == V(a)
             vb == V(b)
             vab == V(a \o b)
  <2>1. /\ va \in Seq(C) /\ Len(va) = Len(a) /\ vb \in Seq(C) /\ Len(vb) = Len(b)
        /\ vab \in Seq(C) /\ Len(vab) = Len(a) + Len(b)
    BY <1>1
  <2>2. ASSUME NEW i \in 1..(Len(a) + Len(b)) PROVE vab[i] = (va \o vb)[i]
    <3>0. Len(a) \in Nat /\ Len(b) \in Nat
      OBVIOUS
    <3>1. vab[i] = ValueOf((a \o b)[i], n, t)
      BY <3>0
    <3>2. CASE i <= Len(a)
      <4>1. (a \o b)[i] = a[i] /\ va[i] = ValueOf(a[i], n, t) /\ (va \o vb)[i] = va[i]
        <5>1. (a \o b)[i] = a[i] /\ i \in DOMAIN a
          BY <3>2
        <5>2. va[i] = ValueOf(a[i], n, t)
          BY <5>1
        <5> HIDE DEF va, vb, C
        <5> QED BY <5>1, <5>2, <3>2, <2>1
      <4> QED BY <3>1, <4>1
    <3>3. CASE i > Len(a)
      <4>1. (a \o b)[i] = b[i - Len(a)] /\ i - Len(a) \in DOMAIN b
        BY <3>3, <3>0
      <4>2. vb[i - Len(a)] = ValueOf(b[i - Len(a)], n, t)
        BY <4>1
      <4>3. (va \o vb)[i] = vb[i - Len(a)]
        <5> HIDE DEF va, vb, C
        <5> QED BY <3>3, <2>1, <3>0
      <4> QED BY <3>1, <4>1, <4>2, <4>3
    <3>4. i <= Len(a) \/ i > Len(a)
      BY <3>0
    <3> QED BY <3>2, <3>3, <3>4, Zenon
  <2> HIDE DEF va, vb, vab, C
  <2>3. vab = va \o vb
    <3>1. va \o vb \in Seq(C) /\ Len(va \o vb) = Len(va) + Len(vb)
      BY <2>1, ConcatProperties
    <3>2. Len(va \o vb) = Len(a) + Len(b)
      BY <3>1, <2>1
    <3> QED BY <3>1, <3>2, <2>1, <2>2, SeqEqual
  <2>4. Concat(va \o vb) = Concat(va) \o Concat(vb)
    BY <2>1, ConcatJoin DEF C
  <2>5. Values(a \o b, n, t) = Concat(vab) /\ Values(a, n, t) = Concat(va) /\ Values(b, n, t) = Concat(vb)
    BY <1>0 DEF va, vb, vab
  <2> QED BY <2>3, <2>4, <2>5
<1>7. Values(<<>>, n, t) = <<>>
  BY <1>0, <1>2, <1>3
<1> QED BY <1>4, <1>5, <1>6, <1>7

LEMMA MarksAppend ==
  ASSUME NEW n \in Nat, NEW t \in Nat, NEW vs \in Seq(Content), NEW v \in Content
  PROVE  /\ Marks(n, t, vs) \in Seq(Seq(Field)) /\ Len(Marks(n, t, vs)) = Len(vs)
         /\ <<Mark(n, t, v)>> \in Seq(Field) /\ Mark(n, t, v) \in Field
         /\ Marks(n, t, Append(vs, v)) = Append(Marks(n, t, vs), <<Mark(n, t, v)>>)
<1> DEFINE F == Seq(Field)
           m == <<Mark(n, t, v)>>
           all == Append(vs, v)
<1>1. \A w \in Content : Mark(n, t, w) \in Field
  BY DEF Mark, Field
<1>2. \A w \in Content : <<Mark(n, t, w)>> \in F
  BY <1>1
<1>3. ASSUME NEW ws \in Seq(Content) PROVE Marks(n, t, ws) \in Seq(F) /\ Len(Marks(n, t, ws)) = Len(ws)
  <2> HIDE DEF F
  <2>1. \A i \in 1..Len(ws) : <<Mark(n, t, ws[i])>> \in F
    BY <1>2
  <2> QED BY <2>1 DEF Marks
<1>4. /\ all \in Seq(Content) /\ Len(all) = Len(vs) + 1 /\ all[Len(vs) + 1] = v
      /\ \A i \in 1..Len(vs) : all[i] = vs[i]
  OBVIOUS
<1>5. m \in F
  BY <1>2
<1> HIDE DEF m, F, all
<1> DEFINE some == Marks(n, t, vs)
           more == Marks(n, t, all)
<1>6. some \in Seq(F) /\ Len(some) = Len(vs) /\ more \in Seq(F) /\ Len(more) = Len(vs) + 1
  BY <1>3, <1>4
<1>7. ASSUME NEW i \in 1..(Len(vs) + 1) PROVE more[i] = Append(some, m)[i]
  <2>0. Len(vs) \in Nat
    OBVIOUS
  <2>1. more[i] = <<Mark(n, t, all[i])>>
    BY <1>4 DEF Marks
  <2>2. CASE i = Len(vs) + 1
    <3>1. Append(some, m)[i] = m
      <4> HIDE DEF some
      <4> QED BY <2>2, <1>5, <1>6
    <3> QED BY <2>1, <2>2, <3>1, <1>4 DEF m
  <2>3. CASE i \in 1..Len(vs)
    <3>1. Append(some, m)[i] = some[i]
      <4> HIDE DEF some
      <4> QED BY <2>3, <1>5, <1>6
    <3>2. some[i] = <<Mark(n, t, vs[i])>>
      BY <2>3 DEF Marks
    <3> QED BY <2>1, <2>3, <3>1, <3>2, <1>4
  <2>4. i = Len(vs) + 1 \/ i \in 1..Len(vs)
    BY <2>0
  <2> QED BY <2>2, <2>3, <2>4, Zenon
<1> HIDE DEF some, more
<1>8. more = Append(some, m)
  <2>1. Append(some, m) \in Seq(F) /\ Len(Append(some, m)) = Len(vs) + 1
    BY <1>5, <1>6
  <2> QED BY <2>1, <1>6, <1>7, SeqEqual
<1> QED BY <1>1, <1>5, <1>6, <1>8 DEF some, more, m, F, all

LEMMA ValuesOfMarks ==
  ASSUME NEW n \in Nat, NEW t \in Nat, NEW vs \in Seq(Content)
  PROVE  /\ Concat(Marks(n, t, vs)) \in Seq(Field)
         /\ Values(Concat(Marks(n, t, vs)), n, t) = vs
         /\ \A m, u : m # n \/ u # t => Values(Concat(Marks(n, t, vs)), m, u) = <<>>
<1> DEFINE T == {ws \in Seq(Content) :
                   /\ Values(Concat(Marks(n, t, ws)), n, t) = ws
                   /\ \A m, u : m # n \/ u # t => Values(Concat(Marks(n, t, ws)), m, u) = <<>>}
<1>1. <<>> \in T
  <2>1. Marks(n, t, <<>>) = <<>> /\ <<>> \in Seq(Seq(Field)) /\ <<>> \in Seq(Content)
    BY DEF Marks
  <2>2. Concat(<<>>) = <<>>
    BY <2>1, ConcatIs
  <2> QED BY <2>1, <2>2, ValuesAre
<1>2. ASSUME NEW ws \in Seq(Content), NEW w \in Content, ws \in T PROVE Append(ws, w) \in T
  <2> DEFINE some == Concat(Marks(n, t, ws))
             f == Mark(n, t, w)
  <2>1. Concat(Marks(n, t, Append(ws, w))) = some \o <<f>> /\ some \in Seq(Field) /\ <<f>> \in Seq(Field) /\ f \in Field
    BY ZenonT(40), MarksAppend, ConcatAppend
  <2>2. ASSUME NEW m, NEW u PROVE Values(some \o <<f>>, m, u) = Values(some, m, u) \o ValueOf(f, m, u)
    <3> DEFINE one == <<f>>
    <3>1. some \in Seq(Field) /\ one \in Seq(Field) /\ f \in Field
      BY <2>1
    <3> HIDE DEF some, f, one
    <3>2. Values(some \o one, m, u) = Values(some, m, u) \o Values(one, m, u)
      BY <3>1, ValuesAre
    <3> HIDE DEF T
    <3>3. Values(<<f>>, m, u) = ValueOf(f, m, u)
      BY <3>1, ValuesAre
    <3> QED BY <3>2, <3>3 DEF one
  <2>3. Values(some, n, t) = ws /\ \A m, u : m # n \/ u # t => Values(some, m, u) = <<>>
    BY <1>2
  <2>4. ValueOf(f, n, t) = <<w>> /\ \A m, u : m # n \/ u # t => ValueOf(f, m, u) = <<>>
    BY DEF Mark, ValueOf
  <2>5. ws \o <<w>> = Append(ws, w) /\ <<>> \o <<>> = <<>> /\ Append(ws, w) \in Seq(Content)
    OBVIOUS
  <2> HIDE DEF some, f
  <2>6. Values(some \o <<f>>, n, t) = Append(ws, w)
    BY <2>2, <2>3, <2>4, <2>5
  <2>7. ASSUME NEW m, NEW u, m # n \/ u # t PROVE Values(some \o <<f>>, m, u) = <<>>
    BY <2>2, <2>3, <2>4, <2>5, <2>7
  <2> DEFINE more == Concat(Marks(n, t, Append(ws, w)))
             longer == Append(ws, w)
  <2>8. more = some \o <<f>> /\ longer \in Seq(Content)
    BY <2>1, <2>5
  <2> HIDE DEF more
  <2>9. Values(more, n, t) = longer /\ \A m, u : m # n \/ u # t => Values(more, m, u) = <<>>
    BY <2>6, <2>7, <2>8
  <2> HIDE DEF longer
  <2> QED BY <2>8, <2>9 DEF more, longer
<1> HIDE DEF T
<1>3. vs \in T
  BY <1>1, <1>2, AppendInduction
<1>4. Concat(Marks(n, t, vs)) \in Seq(Field)
  <2>1. Marks(n, t, vs) \in Seq(Seq(Field)) /\ <<>> \in Seq(Seq(Field))
    <3>1. 0 \in Content
      BY DEF Content
    <3> QED BY <3>1, MarksAppend
  <2> QED BY <2>1, ConcatJoin
<1> QED BY <1>3, <1>4 DEF T

IntMarks(n, raw) == IF raw = 0 THEN <<>> ELSE <<Mark(n, Varint, raw)>>

TextMarks(n, s) == IF s = <<>> THEN <<>> ELSE <<Mark(n, LengthDelimited, s)>>

LEMMA MessageIsLonger ==
  ASSUME NEW n \in 1..9, NEW body \in Seq(Byte)
  PROVE  WriteMessage(n, body) \in Seq(Byte) /\ Len(body) < Len(WriteMessage(n, body))
<1> DEFINE tag == WriteTag(n, LengthDelimited)
           size == WriteVarint(Len(body))
<1>1. tag \in Seq(Byte) /\ tag # <<>>
  <2>1. LengthDelimited \in 0..7
    BY DEF LengthDelimited
  <2> QED BY ZenonT(40), <2>1, TagIs, VarintIsRead
<1>2. size \in Seq(Byte)
  <2>1. Len(body) \in Nat
    OBVIOUS
  <2> QED BY <2>1, SeptetsAre DEF WriteVarint
<1> HIDE DEF tag, size
<1>3. Len(tag) > 0 /\ Len(size) \in Nat /\ Len(body) \in Nat
  BY <1>1, <1>2
<1>4. (tag \o size) \o body \in Seq(Byte) /\ Len((tag \o size) \o body) = Len(tag) + Len(size) + Len(body)
  BY <1>1, <1>2
<1> QED BY <1>3, <1>4 DEF WriteMessage, tag, size

LEMMA StringIs ==
  ASSUME NEW n \in 1..9, NEW s \in Texts
  PROVE  /\ WriteString(n, s) \in Seq(Byte) /\ Len(s) <= Len(WriteString(n, s))
         /\ Len(s) < Longs => Bears(WriteString(n, s), TextMarks(n, s))
<1> USE DEF Texts
<1>1. CASE s = <<>>
  <2>1. WriteString(n, s) = <<>> /\ TextMarks(n, s) = <<>>
    BY <1>1 DEF WriteString, TextMarks
  <2>2. <<>> \in Seq(Byte) /\ Len(<<>>) <= Len(<<>>)
    OBVIOUS
  <2> QED BY <1>1, <2>1, <2>2, BearsNothing
<1>2. CASE s # <<>>
  <2>1. WriteString(n, s) = WriteMessage(n, s) /\ TextMarks(n, s) = <<Mark(n, LengthDelimited, s)>>
    BY <1>2 DEF WriteString, TextMarks
  <2>2. WriteMessage(n, s) \in Seq(Byte) /\ Len(s) < Len(WriteMessage(n, s))
    BY MessageIsLonger
  <2>3. Len(s) < Longs => Carries(WriteMessage(n, s), Mark(n, LengthDelimited, s))
    BY MessageCarries DEF Mark
  <2>4. Len(s) < Longs => Bears(WriteMessage(n, s), <<Mark(n, LengthDelimited, s)>>)
    BY <2>3, BearsOne
  <2>5. Len(s) \in Nat /\ Len(WriteMessage(n, s)) \in Nat
    BY <2>2
  <2>6. Len(s) <= Len(WriteMessage(n, s))
    BY <2>2, <2>5
  <2> QED BY <2>1, <2>2, <2>4, <2>6
<1> QED BY <1>1, <1>2

LEMMA VarintBears ==
  ASSUME NEW n \in 1..9, NEW v \in 0..(Longs - 1)
  PROVE  /\ v # 0 => Bears(WriteTag(n, Varint) \o WriteVarint(v), IntMarks(n, v))
         /\ v = 0 => IntMarks(n, v) = <<>>
<1>1. Carries(WriteTag(n, Varint) \o WriteVarint(v), Mark(n, Varint, v))
  BY VarintCarries DEF Mark
<1>2. Bears(WriteTag(n, Varint) \o WriteVarint(v), <<Mark(n, Varint, v)>>)
  BY <1>1, BearsOne
<1> QED BY <1>2 DEF IntMarks

LEMMA UInt32Is ==
  ASSUME NEW n \in 1..9, NEW v \in 0..(Ints - 1)
  PROVE  Bears(WriteUInt32(n, v), IntMarks(n, v)) /\ UInt32(v) = v
<1>1. v \in 0..(Longs - 1) /\ v % Ints = v
  BY WidthsAssumption
<1>2. CASE v = 0
  <2>1. WriteUInt32(n, v) = <<>> /\ IntMarks(n, v) = <<>>
    BY <1>2 DEF WriteUInt32, IntMarks
  <2> QED BY <2>1, <1>1, BearsNothing DEF UInt32
<1>3. CASE v # 0
  <2>1. WriteUInt32(n, v) = WriteTag(n, Varint) \o WriteVarint(v)
    BY <1>3 DEF WriteUInt32
  <2> QED BY <2>1, <1>1, <1>3, VarintBears DEF UInt32
<1> QED BY <1>2, <1>3

LEMMA Remainder ==
  ASSUME NEW b \in Nat \ {0}, NEW k \in Int, NEW r \in 0..(b - 1), NEW a \in Int, a = b * k + r
  PROVE  a % b = r
<1> DEFINE d == a \div b
           s == a % b
<1>1. d \in Int /\ s \in 0..(b - 1) /\ a = b * d + s
  OBVIOUS
<1> HIDE DEF d, s
<1>2. b * d \in Int /\ b * k \in Int /\ b * d - b * k = r - s
  BY <1>1
<1>3. ~(d > k)
  <2> SUFFICES ASSUME d > k PROVE FALSE
    OBVIOUS
  <2> DEFINE e == d - k - 1
  <2>1. e \in Nat /\ d = k + e + 1
    BY <1>1
  <2> HIDE DEF e
  <2>2. b * e \in Nat /\ b * (k + e + 1) = b * k + b * e + b
    BY <2>1
  <2> QED BY <2>1, <2>2, <1>1, <1>2
<1>4. ~(d < k)
  <2> SUFFICES ASSUME d < k PROVE FALSE
    OBVIOUS
  <2> DEFINE e == k - d - 1
  <2>1. e \in Nat /\ k = d + e + 1
    BY <1>1
  <2> HIDE DEF e
  <2>2. b * e \in Nat /\ b * (d + e + 1) = b * d + b * e + b
    BY <2>1, <1>1
  <2> QED BY <2>1, <2>2, <1>1, <1>2
<1>5. d = k
  BY <1>1, <1>3, <1>4
<1>6. s = r
  BY <1>1, <1>2, <1>5
<1> QED BY <1>6 DEF s

LEMMA ScoreIsKept ==
  ASSUME NEW v \in Scores
  PROVE  v % Longs \in 0..(Longs - 1) /\ Int32(v % Longs) = v /\ (v % Longs = 0 <=> v = 0)
<1> DEFINE h == Ints \div 2
           q == Longs \div Ints
           raw == v % Longs
<1>1. Ints = 2 * h /\ h \in Nat /\ h > 0 /\ Ints \in Nat /\ Ints <= Longs /\ Longs \in Nat
  BY WidthsAssumption
<1>2. Longs = Ints * q /\ q \in Nat
  BY WidthsAssumption
<1>3. v \in (-h)..(h - 1)
  BY DEF Scores
<1>4. Int32(raw) = IF raw % Ints < h THEN raw % Ints ELSE (raw % Ints) - Ints
  BY DEF Int32, UInt32
<1> HIDE DEF h, q
<1>5. CASE v >= 0
  <2>1. v \in 0..(Longs - 1) /\ v \in 0..(Ints - 1) /\ Longs \in Nat \ {0} /\ Ints \in Nat \ {0}
    BY <1>1, <1>3, <1>5
  <2>2. v = Longs * 0 + v /\ v = Ints * 0 + v
    BY <2>1
  <2>3. v % Longs = v
    BY <2>1, <2>2, Remainder
  <2>4. v % Ints = v
    BY <2>1, <2>2, Remainder
  <2>5. v < h
    BY <1>1, <1>3
  <2> QED BY <2>1, <2>3, <2>4, <2>5, <1>4
<1>6. CASE v < 0
  <2>1. v + Longs \in 0..(Longs - 1) /\ v + Ints \in 0..(Ints - 1) /\ v \in Int /\ v + Longs \in Int
        /\ Longs \in Nat \ {0} /\ Ints \in Nat \ {0} /\ v + Longs # 0 /\ v # 0
    BY <1>1, <1>3, <1>6
  <2>2. v = Longs * (-1) + (v + Longs)
    BY <2>1
  <2>3. v % Longs = v + Longs
    <3>1. -1 \in Int
      OBVIOUS
    <3> QED BY <2>1, <2>2, <3>1, Remainder
  <2>4. v + Longs = Ints * (q - 1) + (v + Ints)
    <3>1. Ints * (q - 1) = Ints * q - Ints
      BY <1>1, <1>2
    <3>2. Ints * q \in Nat
      BY <1>1, <1>2
    <3> QED BY <3>1, <3>2, <1>2, <1>1, <2>1
  <2>5. (v + Longs) % Ints = v + Ints
    <3>1. q - 1 \in Int
      BY <1>2
    <3> DEFINE a == v + Longs
               r == v + Ints
               k == q - 1
    <3>2. Ints \in Nat \ {0} /\ k \in Int /\ r \in 0..(Ints - 1) /\ a \in Int /\ a = Ints * k + r
      BY <2>1, <2>4, <3>1
    <3> HIDE DEF a, r, k
    <3>3. a % Ints = r
      BY <3>2, Remainder
    <3> QED BY <3>3 DEF a, r
  <2>6. ~(v + Ints < h) /\ (v + Ints) - Ints = v
    BY <1>1, <1>3, <2>1
  <2> QED BY <2>1, <2>3, <2>5, <2>6, <1>4
<1>7. v >= 0 \/ v < 0
  BY <1>1, <1>3
<1> QED BY <1>5, <1>6, <1>7, Zenon

LEMMA Int32Is ==
  ASSUME NEW n \in 1..9, NEW v \in Scores
  PROVE  Bears(WriteInt32(n, v), IntMarks(n, v % Longs))
<1>1. v % Longs \in 0..(Longs - 1) /\ (v % Longs = 0 <=> v = 0)
  BY ScoreIsKept
<1>2. CASE v = 0
  <2>1. WriteInt32(n, v) = <<>> /\ IntMarks(n, v % Longs) = <<>>
    BY <1>1, <1>2 DEF WriteInt32, IntMarks
  <2> QED BY <2>1, BearsNothing
<1>3. CASE v # 0
  <2>1. WriteInt32(n, v) = WriteTag(n, Varint) \o WriteVarint(v % Longs)
    BY <1>3 DEF WriteInt32
  <2> QED BY <2>1, <1>1, <1>3, VarintBears
<1> QED BY <1>2, <1>3

(* Fields that no reader of a reply looks for. *)
Alien(f) ==
  /\ f \in Field
  /\ \/ f.number \in {7, 8, 9}
     \/ f.number = 1 /\ f.type = Varint

LEMMA UnknownIs ==
  ASSUME NEW u \in Unknown
  PROVE  \E f : Alien(f) /\ Bears(u, <<f>>)
<1>0. /\ 5 \in 0..(Longs - 1) /\ 1 \in 0..(Longs - 1) /\ 1 < Longs
      /\ 2 * Base - 1 \in Byte /\ 1 \in Byte /\ 0 \in Byte
  BY WidthsAssumption DEF Byte
<1> DEFINE ones == [i \in 1..8 |-> 2 * Base - 1]
           zeros == [i \in 1..4 |-> 0]
<1>1. CASE u = WriteUInt32(9, 5)
  <2>1. u = WriteTag(9, Varint) \o WriteVarint(5)
    BY <1>1 DEF WriteUInt32
  <2>2. Carries(u, Mark(9, Varint, 5))
    BY <2>1, <1>0, VarintCarries DEF Mark
  <2>3. Alien(Mark(9, Varint, 5))
    BY <2>2 DEF Alien, Carries, Mark
  <2> QED BY <2>2, <2>3, BearsOne
<1>2. CASE u = WriteMessage(7, <<1>>)
  <2>1. <<1>> \in Seq(Byte) /\ Len(<<1>>) < Longs
    BY <1>0
  <2>2. Carries(u, Mark(7, LengthDelimited, <<1>>))
    <3> DEFINE one == <<1>>
    <3>1. one \in Seq(Byte) /\ Len(one) < Longs /\ 7 \in 1..9 /\ u = WriteMessage(7, one)
      BY <2>1, <1>2
    <3> HIDE DEF one
    <3>2. Carries(WriteMessage(7, one), Mark(7, LengthDelimited, one))
      BY <3>1, MessageCarries DEF Mark
    <3> QED BY <3>1, <3>2 DEF one
  <2>3. Alien(Mark(7, LengthDelimited, <<1>>))
    BY <2>2 DEF Alien, Carries, Mark
  <2> QED BY <2>2, <2>3, BearsOne
<1>3. CASE u = WriteUInt32(1, 1)
  <2>1. u = WriteTag(1, Varint) \o WriteVarint(1)
    BY <1>3 DEF WriteUInt32
  <2>2. Carries(u, Mark(1, Varint, 1))
    BY <2>1, <1>0, VarintCarries DEF Mark
  <2>3. Alien(Mark(1, Varint, 1))
    BY <2>2 DEF Alien, Carries, Mark
  <2> QED BY <2>2, <2>3, BearsOne
<1>4. CASE u = WriteTag(8, Fixed64) \o ones
  <2>1. ones \in Seq(Byte) /\ Len(ones) = 8
    BY <1>0
  <2> HIDE DEF ones
  <2>2. Carries(u, Mark(8, Fixed64, ones))
    <3>1. 8 \in 1..9
      OBVIOUS
    <3>2. Carries(WriteTag(8, Fixed64) \o ones, Mark(8, Fixed64, ones))
      BY <2>1, <3>1, FixedCarries DEF Mark
    <3> QED BY <3>2, <1>4
  <2>3. Alien(Mark(8, Fixed64, ones))
    BY <2>2 DEF Alien, Carries, Mark
  <2> QED BY <2>2, <2>3, BearsOne
<1>5. CASE u = WriteTag(8, Fixed32) \o zeros
  <2>1. zeros \in Seq(Byte) /\ Len(zeros) = 4
    BY <1>0
  <2> HIDE DEF zeros
  <2>2. Carries(u, Mark(8, Fixed32, zeros))
    <3>1. 8 \in 1..9
      OBVIOUS
    <3>2. Carries(WriteTag(8, Fixed32) \o zeros, Mark(8, Fixed32, zeros))
      BY <2>1, <3>1, FixedCarries DEF Mark
    <3> QED BY <3>2, <1>5
  <2>3. Alien(Mark(8, Fixed32, zeros))
    BY <2>2 DEF Alien, Carries, Mark
  <2> QED BY <2>2, <2>3, BearsOne
<1> HIDE DEF ones, zeros
<1>6. \/ u = WriteUInt32(9, 5) \/ u = WriteMessage(7, <<1>>) \/ u = WriteUInt32(1, 1)
      \/ u = WriteTag(8, Fixed64) \o ones \/ u = WriteTag(8, Fixed32) \o zeros
  BY DEF Unknown, ones, zeros
<1> QED BY <1>1, <1>2, <1>3, <1>4, <1>5, <1>6

TakesField(parts, fss, u, f, i) ==
  BearsAll(parts, fss) /\ Bears(u, <<f>>) /\ i \in 1..(Len(parts) + 1)

TakenField(parts, fss, u, f, i, a, b) ==
  /\ a \in Seq(Field) /\ b \in Seq(Field) /\ Concat(fss) = a \o b
  /\ Bears(With(parts, u, i), (a \o <<f>>) \o b)
  /\ i > 1 => \E more \in Seq(Field) : a = fss[1] \o more

(* A field more, among the parts. *)
LEMMA WithBears ==
  ASSUME NEW parts, NEW fss, NEW u, NEW f, NEW i, TakesField(parts, fss, u, f, i)
  PROVE  /\ With(parts, u, i) \in Seq(Byte)
         /\ Len(Concat(parts)) <= Len(With(parts, u, i))
         /\ \E a, b : TakenField(parts, fss, u, f, i, a, b)
<1> DEFINE P == Seq(Byte)
           F == Seq(Field)
           pre == SubSeq(parts, 1, i - 1)
           post == SubSeq(parts, i, Len(parts))
           fpre == SubSeq(fss, 1, i - 1)
           fpost == SubSeq(fss, i, Len(fss))
<1>0. BearsAll(parts, fss) /\ Bears(u, <<f>>) /\ i \in 1..(Len(parts) + 1)
  BY DEF TakesField
<1>1. BearsAll(pre, fpre) /\ BearsAll(post, fpost)
  BY <1>0, BearsAllFirst
<1>2. parts \in Seq(P) /\ fss \in Seq(F) /\ Len(parts) = Len(fss) /\ i \in 1..(Len(fss) + 1)
  BY <1>0 DEF BearsAll
<1>3. parts = pre \o post /\ fss = fpre \o fpost /\ Len(fpre) = i - 1
  <2> HIDE DEF P, F
  <2> QED BY <1>2, SplitBefore
<1>4. /\ pre \in Seq(P) /\ post \in Seq(P) /\ fpre \in Seq(F) /\ fpost \in Seq(F)
      /\ u \in P /\ <<f>> \in F
  BY <1>0, <1>1 DEF BearsAll, Bears
<1>5. With(parts, u, i) = Concat((pre \o <<u>>) \o post)
  BY DEF With, Seqs!InsertAt
<1> DEFINE a == Concat(fpre)
           b == Concat(fpost)
           x == Concat(pre)
           y == Concat(post)
<1> HIDE DEF pre, post, fpre, fpost
<1>6. /\ Concat(fss) = a \o b /\ a \in F /\ b \in F
      /\ Concat(parts) = x \o y /\ x \in P /\ y \in P
  BY <1>3, <1>4, ConcatJoin
<1>7. With(parts, u, i) = (x \o u) \o y
  <2>1. <<u>> \in Seq(P) /\ Concat(<<u>>) = u
    BY <1>4, ConcatOne
  <2>2. pre \o <<u>> \in Seq(P)
    <3> HIDE DEF P
    <3> QED BY <2>1, <1>4
  <2>3. Concat((pre \o <<u>>) \o post) = Concat(pre \o <<u>>) \o y
    BY <2>2, <1>4, ConcatJoin
  <2>4. Concat(pre \o <<u>>) = x \o Concat(<<u>>)
    BY <2>1, <1>4, ConcatJoin
  <2> QED BY <1>5, <2>1, <2>3, <2>4
<1>8. Bears(x, a) /\ Bears(y, b)
  BY <1>1, BearsConcat
<1>9. Bears((x \o u) \o y, (a \o <<f>>) \o b)
  <2> HIDE DEF x, y, a, b
  <2>1. Bears(x \o u, a \o <<f>>)
    BY <1>0, <1>8, BearsJoin
  <2> QED BY <2>1, <1>8, BearsJoin
<1>10. Len(x \o y) <= Len((x \o u) \o y) /\ (x \o u) \o y \in P
  <2> HIDE DEF x, y
  <2> QED BY <1>4, <1>6
<1>11. ASSUME i > 1 PROVE \E more \in Seq(Field) : a = fss[1] \o more
  <2>1. fpre # <<>> /\ Len(fpre) > 0 /\ i - 1 \in Nat
    BY <1>0, <1>3, <1>11, NoBytes
  <2>2. Head(fpre) = fss[1]
    <3> HIDE DEF F
    <3> QED BY <2>1, <1>2, <1>3, <1>4
  <2>3. fpre = <<Head(fpre)>> \o Tail(fpre) /\ Tail(fpre) \in Seq(F) /\ Head(fpre) \in F
    <3> HIDE DEF F
    <3> QED BY <2>1, <1>4
  <2>4. a = Head(fpre) \o Concat(Tail(fpre)) /\ Concat(Tail(fpre)) \in F
    BY <2>3, ConcatFirst
  <2> QED BY <2>2, <2>4
<1> HIDE DEF a, b, x, y
<1>12. TakenField(parts, fss, u, f, i, a, b)
  BY <1>6, <1>7, <1>9, <1>11 DEF TakenField
<1> QED BY <1>6, <1>7, <1>10, <1>12

KeptText(s) == IF s = <<>> THEN <<>> ELSE <<s>>

KeptInt(raw) == IF raw = 0 THEN <<>> ELSE <<raw>>

LEMMA ValuesOfTexts ==
  ASSUME NEW n \in 1..9, NEW s \in Seq(Byte)
  PROVE  /\ TextMarks(n, s) \in Seq(Field)
         /\ Values(TextMarks(n, s), n, LengthDelimited) = KeptText(s)
         /\ \A m, t : m # n \/ t # LengthDelimited => Values(TextMarks(n, s), m, t) = <<>>
<1> DEFINE f == Mark(n, LengthDelimited, s)
<1>1. f \in Field
  BY DEF Mark, Field, Content, LengthDelimited
<1>2. ValueOf(f, n, LengthDelimited) = <<s>>
  BY DEF Mark, ValueOf
<1>3. \A m, t : m # n \/ t # LengthDelimited => ValueOf(f, m, t) = <<>>
  BY DEF Mark, ValueOf
<1> HIDE DEF f
<1>4. <<f>> \in Seq(Field) /\ <<>> \in Seq(Field)
  BY <1>1
<1>5. CASE s = <<>>
  <2>1. TextMarks(n, s) = <<>> /\ KeptText(s) = <<>>
    BY <1>5 DEF TextMarks, KeptText
  <2>2. \A m, t : Values(<<>>, m, t) = <<>>
    BY ValuesAre
  <2> QED BY <1>4, <2>1, <2>2
<1>6. CASE s # <<>>
  <2>1. TextMarks(n, s) = <<f>> /\ KeptText(s) = <<s>>
    BY <1>6 DEF TextMarks, KeptText, f
  <2>2. \A m, t : Values(<<f>>, m, t) = ValueOf(f, m, t)
    BY <1>1, ValuesAre
  <2> QED BY <1>2, <1>3, <1>4, <2>1, <2>2
<1> QED BY <1>5, <1>6

LEMMA ValuesOfInts ==
  ASSUME NEW n \in 1..9, NEW raw \in Nat
  PROVE  /\ IntMarks(n, raw) \in Seq(Field)
         /\ Values(IntMarks(n, raw), n, Varint) = KeptInt(raw)
         /\ \A m, t : m # n \/ t # Varint => Values(IntMarks(n, raw), m, t) = <<>>
<1> DEFINE f == Mark(n, Varint, raw)
<1>1. f \in Field
  BY DEF Mark, Field, Content, Varint
<1>2. ValueOf(f, n, Varint) = <<raw>>
  BY DEF Mark, ValueOf
<1>3. \A m, t : m # n \/ t # Varint => ValueOf(f, m, t) = <<>>
  BY DEF Mark, ValueOf
<1> HIDE DEF f
<1>4. <<f>> \in Seq(Field) /\ <<>> \in Seq(Field)
  BY <1>1
<1>5. CASE raw = 0
  <2>1. IntMarks(n, raw) = <<>> /\ KeptInt(raw) = <<>>
    BY <1>5 DEF IntMarks, KeptInt
  <2>2. \A m, t : Values(<<>>, m, t) = <<>>
    BY ValuesAre
  <2> QED BY <1>4, <2>1, <2>2
<1>6. CASE raw # 0
  <2>1. IntMarks(n, raw) = <<f>> /\ KeptInt(raw) = <<raw>>
    BY <1>6 DEF IntMarks, KeptInt, f
  <2>2. \A m, t : Values(<<f>>, m, t) = ValueOf(f, m, t)
    BY <1>1, ValuesAre
  <2> QED BY <1>2, <1>3, <1>4, <2>1, <2>2
<1> QED BY <1>5, <1>6

LEMMA ScalarIs ==
  ASSUME NEW fs, NEW n
  PROVE  /\ \A s : Values(fs, n, LengthDelimited) = KeptText(s) => Text(fs, n) = s
         /\ \A v \in Scores : Values(fs, n, Varint) = KeptInt(v % Longs) => Integer(fs, n) = v
         /\ \A v \in BOOLEAN : Values(fs, n, Varint) = KeptInt(IF v THEN 1 ELSE 0) => Flag(fs, n) = v
<1>0. \A x : <<x>> # <<>> /\ Seqs!Last(<<x>>) = x
  BY DEF Seqs!Last
<1>1. ASSUME NEW s, Values(fs, n, LengthDelimited) = KeptText(s) PROVE Text(fs, n) = s
  BY <1>0, <1>1 DEF Text, Scalar, KeptText
<1>2. ASSUME NEW raw, Values(fs, n, Varint) = KeptInt(raw) PROVE Scalar(fs, n, Varint, 0) = raw
  BY <1>0, <1>2 DEF Scalar, KeptInt
<1>3. ASSUME NEW v \in Scores, Values(fs, n, Varint) = KeptInt(v % Longs) PROVE Integer(fs, n) = v
  <2>1. Scalar(fs, n, Varint, 0) = v % Longs
    BY <1>2, <1>3
  <2> QED BY <2>1, ScoreIsKept DEF Integer
<1>4. ASSUME NEW v \in BOOLEAN, Values(fs, n, Varint) = KeptInt(IF v THEN 1 ELSE 0) PROVE Flag(fs, n) = v
  <2>1. Scalar(fs, n, Varint, 0) = IF v THEN 1 ELSE 0
    BY <1>2, <1>4
  <2>2. 1 # 0
    OBVIOUS
  <2> QED BY <2>1, <2>2 DEF Flag
<1> QED BY <1>1, <1>3, <1>4

LEMMA BearsWhole ==
  ASSUME NEW bytes, NEW fs, Bears(bytes, fs)
  PROVE  bytes \in Seq(Byte) /\ Fields[bytes].ok /\ Fields[bytes].fields = fs /\ fs \in Seq(Field)
<1>1. bytes \in Seq(Byte) /\ fs \in Seq(Field) /\ <<>> \in Seq(Byte)
  BY DEF Bears
<1>2. bytes \o <<>> = bytes /\ fs \o <<>> = fs
  BY <1>1
<1>3. Fields[<<>>].ok /\ Fields[<<>>].fields = <<>>
  BY <1>1, NoFields
<1>4. /\ Fields[bytes \o <<>>].ok = Fields[<<>>].ok
      /\ Fields[bytes \o <<>>].fields = fs \o Fields[<<>>].fields
  BY <1>1 DEF Bears
<1> QED BY <1>1, <1>2, <1>3, <1>4

(* All of a list of nested messages. *)
LEMMA AllOfIs ==
  ASSUME NEW S, NEW xs \in Seq(S), NEW each, DOMAIN each = DOMAIN xs,
         \A i \in DOMAIN xs : each[i] = Parsed(TRUE, xs[i])
  PROVE  AllOf(each) = Parsed(TRUE, xs)
<1>1. \A i \in DOMAIN xs : each[i].ok /\ each[i].value = xs[i]
  BY DEF Parsed
<1>2. [i \in DOMAIN each |-> each[i].value] = xs
  BY <1>1
<1>3. (\A i \in DOMAIN each : each[i].ok) = TRUE
  BY <1>1
<1> QED BY <1>2, <1>3 DEF AllOf

LEMMA SegmentIsRead ==
  ASSUME NEW s \in Segments
  PROVE  /\ WriteSegment(s) \in Seq(Byte)
         /\ Len(WriteSegment(s)) < Longs => ParseSegment(WriteSegment(s)) = Parsed(TRUE, s)
<1> DEFINE a == WriteString(1, s.text)
           b == WriteString(2, s.reading)
           fs == TextMarks(1, s.text)
           gs == TextMarks(2, s.reading)
<1>1. s.text \in Seq(Byte) /\ s.reading \in Seq(Byte) /\ s = [text |-> s.text, reading |-> s.reading]
  BY DEF Segments, Texts
<1>2. 1 \in 1..9 /\ 2 \in 1..9
  OBVIOUS
<1>3. /\ a \in Seq(Byte) /\ Len(s.text) <= Len(a) /\ (Len(s.text) < Longs => Bears(a, fs))
      /\ b \in Seq(Byte) /\ Len(s.reading) <= Len(b) /\ (Len(s.reading) < Longs => Bears(b, gs))
  BY <1>1, <1>2, StringIs DEF Texts
<1>4. /\ fs \in Seq(Field) /\ gs \in Seq(Field)
      /\ Values(fs, 1, LengthDelimited) = KeptText(s.text) /\ Values(gs, 1, LengthDelimited) = <<>>
      /\ Values(fs, 2, LengthDelimited) = <<>> /\ Values(gs, 2, LengthDelimited) = KeptText(s.reading)
  <2>1. 1 # 2 /\ 2 # 1
    OBVIOUS
  <2>2. /\ fs \in Seq(Field) /\ Values(fs, 1, LengthDelimited) = KeptText(s.text)
        /\ \A m, t : m # 1 \/ t # LengthDelimited => Values(fs, m, t) = <<>>
    BY <1>1, <1>2, ValuesOfTexts
  <2>3. /\ gs \in Seq(Field) /\ Values(gs, 2, LengthDelimited) = KeptText(s.reading)
        /\ \A m, t : m # 2 \/ t # LengthDelimited => Values(gs, m, t) = <<>>
    BY <1>1, <1>2, ValuesOfTexts
  <2> HIDE DEF fs, gs
  <2> QED BY <2>1, <2>2, <2>3
<1>5. WriteSegment(s) = a \o b
  BY DEF WriteSegment
<1> HIDE DEF a, b, fs, gs
<1>6. a \o b \in Seq(Byte) /\ Len(a \o b) = Len(a) + Len(b)
  BY <1>3
<1>7. ASSUME Len(a \o b) < Longs PROVE ParseSegment(a \o b) = Parsed(TRUE, s)
  <2>1. Len(s.text) < Longs /\ Len(s.reading) < Longs
    <3>1. Len(s.text) \in Nat /\ Len(s.reading) \in Nat /\ Len(a) \in Nat /\ Len(b) \in Nat
      BY <1>1, <1>3
    <3> QED BY <3>1, <1>3, <1>6, <1>7, WidthsAssumption
  <2>2. Bears(a \o b, fs \o gs)
    BY <2>1, <1>3, BearsJoin
  <2> DEFINE all == fs \o gs
             m == Fields[a \o b]
  <2>3. m.ok /\ m.fields = all
    BY <2>2, BearsWhole
  <2>4. /\ Values(all, 1, LengthDelimited) = KeptText(s.text) \o <<>>
        /\ Values(all, 2, LengthDelimited) = <<>> \o KeptText(s.reading)
    <3>1. \A n : Values(fs \o gs, n, LengthDelimited) =
                   Values(fs, n, LengthDelimited) \o Values(gs, n, LengthDelimited)
      BY <1>4, ValuesAre
    <3> QED BY <1>4, <3>1
  <2>5. \A x : KeptText(x) \o <<>> = KeptText(x) /\ <<>> \o KeptText(x) = KeptText(x)
    BY DEF KeptText
  <2> HIDE DEF all, m
  <2>6. Text(all, 1) = s.text /\ Text(all, 2) = s.reading
    BY <2>4, <2>5, ScalarIs
  <2>7. ParseSegment(a \o b) = SegmentOf(m)
    BY DEF ParseSegment, m
  <2>8. SegmentOf(m) = Parsed(m.ok, [text |-> s.text, reading |-> s.reading])
    BY <2>3, <2>6 DEF SegmentOf
  <2>9. m.ok = TRUE
    <3>1. m.ok \in BOOLEAN
      BY <1>6, NoFields DEF m
    <3> QED BY <3>1, <2>3
  <2> QED BY <2>7, <2>8, <2>9, <1>1
<1> QED BY <1>5, <1>6, <1>7

Messages(n, bodies) == [i \in DOMAIN bodies |-> WriteMessage(n, bodies[i])]

LEMMA MessagesBear ==
  ASSUME NEW n \in 1..9, NEW bodies \in Seq(Seq(Byte))
  PROVE  /\ Messages(n, bodies) \in Seq(Seq(Byte)) /\ Len(Messages(n, bodies)) = Len(bodies)
         /\ \A i \in 1..Len(bodies) : Len(bodies[i]) < Len(Messages(n, bodies)[i])
         /\ (\A i \in 1..Len(bodies) : Len(bodies[i]) < Longs) =>
              BearsAll(Messages(n, bodies), Marks(n, LengthDelimited, bodies))
<1> DEFINE P == Seq(Byte)
           F == Seq(Field)
           all == Messages(n, bodies)
           fss == Marks(n, LengthDelimited, bodies)
<1>1. ASSUME NEW i \in 1..Len(bodies)
      PROVE  /\ bodies[i] \in P /\ all[i] = WriteMessage(n, bodies[i])
             /\ all[i] \in P /\ Len(bodies[i]) < Len(all[i])
             /\ fss[i] = <<Mark(n, LengthDelimited, bodies[i])>> /\ fss[i] \in F
             /\ Len(bodies[i]) < Longs => Bears(all[i], fss[i])
  <2>1. bodies[i] \in P
    OBVIOUS
  <2>2. all[i] = WriteMessage(n, bodies[i]) /\ fss[i] = <<Mark(n, LengthDelimited, bodies[i])>>
    BY DEF Messages, Marks
  <2>3. WriteMessage(n, bodies[i]) \in P /\ Len(bodies[i]) < Len(WriteMessage(n, bodies[i]))
    BY <2>1, MessageIsLonger
  <2>4. Len(bodies[i]) < Longs => Carries(WriteMessage(n, bodies[i]), Mark(n, LengthDelimited, bodies[i]))
    BY <2>1, MessageCarries DEF Mark
  <2>5. Mark(n, LengthDelimited, bodies[i]) \in Field
    BY <2>1 DEF Mark, Field, Content, LengthDelimited
  <2>6. <<Mark(n, LengthDelimited, bodies[i])>> \in F
    BY <2>5
  <2> HIDE DEF P, F, all, fss
  <2> QED BY <2>1, <2>2, <2>3, <2>4, <2>6, BearsOne
<1>2. DOMAIN all = 1..Len(bodies) /\ DOMAIN fss = 1..Len(bodies)
  BY DEF Messages, Marks
<1>3. all = [i \in 1..Len(bodies) |-> all[i]] /\ fss = [i \in 1..Len(bodies) |-> fss[i]] /\ Len(bodies) \in Nat
  BY DEF Messages, Marks
<1> HIDE DEF P, F, all, fss
<1>4. all \in Seq(P) /\ Len(all) = Len(bodies) /\ fss \in Seq(F) /\ Len(fss) = Len(bodies)
  BY <1>1, <1>3, IsASeq, LenProperties
<1> QED BY <1>1, <1>4 DEF BearsAll, P, F, all, fss

Three(x, y, z) == (x \o y) \o z

LEMMA ConcatThree ==
  ASSUME NEW S, NEW x \in Seq(S), NEW y \in Seq(S), NEW z \in Seq(S)
  PROVE  <<x, y, z>> \in Seq(Seq(S)) /\ Concat(<<x, y, z>>) = Three(x, y, z)
<1> DEFINE P == Seq(S)
<1>1. /\ <<x>> \in Seq(P) /\ <<x, y>> \in Seq(P) /\ <<x, y, z>> \in Seq(P)
      /\ <<x, y>> = Append(<<x>>, y) /\ <<x, y, z>> = Append(<<x, y>>, z)
  <2>1. x \in P /\ y \in P /\ z \in P
    OBVIOUS
  <2> HIDE DEF P
  <2> QED BY <2>1
<1>2. Concat(<<x>>) = x
  BY ConcatOne
<1>3. Concat(Append(<<x>>, y)) = Concat(<<x>>) \o y
  BY <1>1, ConcatAppend
<1>4. Concat(Append(<<x, y>>, z)) = Concat(<<x, y>>) \o z
  BY <1>1, ConcatAppend
<1> QED BY <1>1, <1>2, <1>3, <1>4 DEF Three

LEMMA BearsAllThree ==
  ASSUME NEW a, NEW fa, Bears(a, fa), NEW b, NEW fb, Bears(b, fb), NEW c, NEW fc, Bears(c, fc)
  PROVE  BearsAll(<<a, b, c>>, <<fa, fb, fc>>)
<1>1. a \in Seq(Byte) /\ b \in Seq(Byte) /\ c \in Seq(Byte) /\ fa \in Seq(Field) /\ fb \in Seq(Field) /\ fc \in Seq(Field)
  BY DEF Bears
<1>2. <<a, b, c>> \in Seq(Seq(Byte)) /\ <<fa, fb, fc>> \in Seq(Seq(Field))
  BY <1>1, ConcatThree
<1>3. Len(<<a, b, c>>) = 3 /\ Len(<<fa, fb, fc>>) = 3
  OBVIOUS
<1>4. \A i \in 1..3 : Bears(<<a, b, c>>[i], <<fa, fb, fc>>[i])
  <2>1. 1..3 = {1, 2, 3}
    OBVIOUS
  <2> QED BY <2>1
<1> QED BY <1>2, <1>3, <1>4 DEF BearsAll

SegmentBodies(c) == [i \in DOMAIN c.segments |-> WriteSegment(c.segments[i])]

CandidateMarks(c) ==
  <<TextMarks(1, c.text), TextMarks(2, c.reading), IntMarks(3, c.score % Longs)>>
    \o Marks(4, LengthDelimited, SegmentBodies(c))

(* What a reader of a candidate looks for. *)
CandidateMeans(fs, c) ==
  /\ Values(fs, 1, LengthDelimited) = KeptText(c.text)
  /\ Values(fs, 2, LengthDelimited) = KeptText(c.reading)
  /\ Values(fs, 3, Varint) = KeptInt(c.score % Longs)
  /\ Values(fs, 4, LengthDelimited) = SegmentBodies(c)

LEMMA SegmentBodiesAre ==
  ASSUME NEW c \in Candidates
  PROVE  /\ SegmentBodies(c) \in Seq(Seq(Byte)) /\ Len(SegmentBodies(c)) = Len(c.segments)
         /\ DOMAIN SegmentBodies(c) = 1..Len(c.segments) /\ DOMAIN c.segments = 1..Len(c.segments)
         /\ SegmentBodies(c) \in Seq(Content)
         /\ c.segments \in Seq(Segments) /\ c.text \in Seq(Byte) /\ c.reading \in Seq(Byte)
         /\ c.score \in Scores /\ c.score % Longs \in 0..(Longs - 1)
         /\ c = [text |-> c.text, reading |-> c.reading, score |-> c.score, segments |-> c.segments]
<1>1. /\ c.segments \in Seq(Segments) /\ c.text \in Seq(Byte) /\ c.reading \in Seq(Byte)
      /\ c.score \in Scores
      /\ c = [text |-> c.text, reading |-> c.reading, score |-> c.score, segments |-> c.segments]
  BY DEF Candidates, Texts
<1>2. c.score % Longs \in 0..(Longs - 1)
  BY <1>1, ScoreIsKept
<1> DEFINE P == Seq(Byte)
<1>3. ASSUME NEW i \in 1..Len(c.segments) PROVE WriteSegment(c.segments[i]) \in P
  <2>1. c.segments[i] \in Segments
    <3> HIDE DEF P
    <3> QED BY <1>1
  <2> QED BY <2>1, SegmentIsRead
<1>4. SegmentBodies(c) = [i \in 1..Len(c.segments) |-> WriteSegment(c.segments[i])] /\ Len(c.segments) \in Nat
      /\ DOMAIN c.segments = 1..Len(c.segments)
  BY <1>1 DEF SegmentBodies
<1>5. SegmentBodies(c) \in Seq(P) /\ Len(SegmentBodies(c)) = Len(c.segments)
  <2> HIDE DEF P
  <2> QED BY <1>3, <1>4, IsASeq, LenProperties
<1>6. P \subseteq Content
  BY DEF Content
<1>7. SegmentBodies(c) \in Seq(Content)
  <2> HIDE DEF P
  <2> QED BY <1>5, <1>6
<1> QED BY <1>1, <1>2, <1>4, <1>5, <1>7

LEMMA CandidateParts ==
  ASSUME NEW c \in Candidates
  PROVE  /\ CandidateFields(c) \in Seq(Seq(Byte))
         /\ Len(Concat(CandidateFields(c))) < Longs =>
              /\ BearsAll(CandidateFields(c), CandidateMarks(c))
              /\ \A i \in DOMAIN c.segments :
                   ParseSegment(SegmentBodies(c)[i]) = Parsed(TRUE, c.segments[i])
<1> DEFINE P == Seq(Byte)
           a == WriteString(1, c.text)
           b == WriteString(2, c.reading)
           d == WriteInt32(3, c.score)
           bodies == SegmentBodies(c)
           msgs == Messages(4, bodies)
           parts == <<a, b, d>> \o msgs
           F == Seq(Field)
<1>0. 1 \in 1..9 /\ 2 \in 1..9 /\ 3 \in 1..9 /\ 4 \in 1..9
  OBVIOUS
<1>1. /\ a \in P /\ Len(c.text) <= Len(a) /\ (Len(c.text) < Longs => Bears(a, TextMarks(1, c.text)))
      /\ b \in P /\ Len(c.reading) <= Len(b) /\ (Len(c.reading) < Longs => Bears(b, TextMarks(2, c.reading)))
  BY <1>0, SegmentBodiesAre, StringIs DEF Texts
<1>2. Bears(d, IntMarks(3, c.score % Longs)) /\ d \in P
  BY <1>0, SegmentBodiesAre, Int32Is DEF Bears
<1>3. /\ msgs \in Seq(P) /\ Len(msgs) = Len(bodies) /\ bodies \in Seq(P)
      /\ \A i \in 1..Len(bodies) : Len(bodies[i]) < Len(msgs[i])
      /\ (\A i \in 1..Len(bodies) : Len(bodies[i]) < Longs) =>
              BearsAll(msgs, Marks(4, LengthDelimited, bodies))
  BY <1>0, SegmentBodiesAre, MessagesBear
<1>4. CandidateFields(c) = parts
  BY DEF CandidateFields, Messages, SegmentBodies
<1>5. <<a, b, d>> \in Seq(P)
  BY <1>1, <1>2, ConcatThree
<1>6. DOMAIN c.segments = 1..Len(bodies)
  BY SegmentBodiesAre
<1>7. ASSUME NEW i \in 1..Len(bodies) PROVE bodies[i] = WriteSegment(c.segments[i]) /\ c.segments[i] \in Segments
  BY <1>6, SegmentBodiesAre DEF SegmentBodies
<1>8. CandidateMarks(c) = <<TextMarks(1, c.text), TextMarks(2, c.reading), IntMarks(3, c.score % Longs)>>
                            \o Marks(4, LengthDelimited, bodies)
  BY DEF CandidateMarks
<1> HIDE DEF P, a, b, d, bodies, msgs
<1>9. parts \in Seq(P) /\ Len(parts) = 3 + Len(msgs) /\ parts[1] = a /\ parts[2] = b
      /\ \A i \in 1..Len(msgs) : parts[3 + i] = msgs[i]
  BY <1>3, <1>5
<1> HIDE DEF parts
<1>10. ASSUME Len(Concat(parts)) < Longs
       PROVE  /\ BearsAll(parts, CandidateMarks(c))
              /\ \A i \in DOMAIN c.segments : ParseSegment(bodies[i]) = Parsed(TRUE, c.segments[i])
  <2>1. ASSUME NEW j \in 1..Len(parts), NEW n \in Nat, n <= Len(parts[j]) PROVE n < Longs
    <3>1. Len(parts[j]) <= Len(Concat(parts)) /\ Len(Concat(parts)) \in Nat /\ parts[j] \in P
      BY <1>9, LenConcat DEF P
    <3>2. Len(parts[j]) \in Nat
      BY <3>1 DEF P
    <3> QED BY <3>1, <3>2, <2>1, <1>10, WidthsAssumption
  <2>2. Len(msgs) \in Nat /\ 1 \in 1..Len(parts) /\ 2 \in 1..Len(parts)
    BY <1>3, <1>9
  <2>3. Len(c.text) < Longs /\ Len(c.reading) < Longs
    <3>1. Len(c.text) \in Nat /\ Len(c.reading) \in Nat
      BY SegmentBodiesAre
    <3> QED BY <3>1, <2>1, <2>2, <1>1, <1>9
  <2>4. ASSUME NEW i \in 1..Len(bodies) PROVE Len(bodies[i]) < Longs
    <3>1. 3 + i \in 1..Len(parts) /\ parts[3 + i] = msgs[i]
      BY <1>3, <1>9, <2>2
    <3>2. bodies[i] \in P /\ msgs[i] \in P
      BY <1>3
    <3>3. Len(bodies[i]) \in Nat /\ Len(msgs[i]) \in Nat
      BY <3>2 DEF P
    <3>4. Len(bodies[i]) < Len(msgs[i])
      BY <1>3
    <3>5. Len(bodies[i]) <= Len(parts[3 + i])
      BY <3>1, <3>3, <3>4
    <3> QED BY <3>1, <3>3, <3>5, <2>1
  <2>5. BearsAll(<<a, b, d>>, <<TextMarks(1, c.text), TextMarks(2, c.reading), IntMarks(3, c.score % Longs)>>)
    BY <2>3, <1>1, <1>2, BearsAllThree
  <2>6. BearsAll(msgs, Marks(4, LengthDelimited, bodies))
    BY <2>4, <1>3
  <2>7. BearsAll(parts, CandidateMarks(c))
    BY <2>5, <2>6, <1>8, BearsAllJoin DEF parts
  <2>8. ASSUME NEW i \in DOMAIN c.segments PROVE ParseSegment(bodies[i]) = Parsed(TRUE, c.segments[i])
    BY <2>4, <1>6, <1>7, SegmentIsRead
  <2> QED BY <2>7, <2>8
<1> QED BY <1>4, <1>9, <1>10 DEF bodies, P

LEMMA MarksMeanCandidate ==
  ASSUME NEW c \in Candidates
  PROVE  Concat(CandidateMarks(c)) \in Seq(Field) /\ CandidateMeans(Concat(CandidateMarks(c)), c)
<1> DEFINE F == Seq(Field)
           x == TextMarks(1, c.text)
           y == TextMarks(2, c.reading)
           z == IntMarks(3, c.score % Longs)
           bodies == SegmentBodies(c)
           w == Marks(4, LengthDelimited, bodies)
           LD == LengthDelimited
           raw == c.score % Longs
<1>0. 1 \in 1..9 /\ 2 \in 1..9 /\ 3 \in 1..9 /\ 4 \in Nat /\ LD \in Nat /\ raw \in Nat /\ LD # Varint
  BY SegmentBodiesAre, WidthsAssumption DEF LengthDelimited, Varint
<1>1. x \in F /\ Values(x, 1, LD) = KeptText(c.text) /\ \A m, t : m # 1 \/ t # LD => Values(x, m, t) = <<>>
  BY <1>0, SegmentBodiesAre, ValuesOfTexts
<1>2. y \in F /\ Values(y, 2, LD) = KeptText(c.reading) /\ \A m, t : m # 2 \/ t # LD => Values(y, m, t) = <<>>
  BY <1>0, SegmentBodiesAre, ValuesOfTexts
<1>3. z \in F /\ Values(z, 3, Varint) = KeptInt(raw) /\ \A m, t : m # 3 \/ t # Varint => Values(z, m, t) = <<>>
  <2> HIDE DEF raw
  <2> QED BY <1>0, ValuesOfInts DEF raw
<1>4. /\ Concat(w) \in F /\ Values(Concat(w), 4, LD) = bodies
      /\ \A m, t : m # 4 \/ t # LD => Values(Concat(w), m, t) = <<>>
  BY <1>0, SegmentBodiesAre, ValuesOfMarks
<1>5. w \in Seq(F)
  <2>1. 0 \in Content
    BY DEF Content
  <2> QED BY <2>1, <1>0, SegmentBodiesAre, MarksAppend
<1>6. CandidateMarks(c) = <<x, y, z>> \o w
  BY DEF CandidateMarks
<1> HIDE DEF x, y, z, w, bodies, raw
<1> DEFINE v == Concat(w)
<1>7. <<x, y, z>> \in Seq(F) /\ Concat(<<x, y, z>>) = (x \o y) \o z
  <2>1. x \in Seq(Field) /\ y \in Seq(Field) /\ z \in Seq(Field)
    BY <1>1, <1>2, <1>3
  <2> HIDE DEF F
  <2>2. <<x, y, z>> \in Seq(Seq(Field)) /\ Concat(<<x, y, z>>) = Three(x, y, z)
    BY <2>1, ConcatThree
  <2> QED BY <2>2 DEF F, Three
<1>8. Concat(CandidateMarks(c)) = ((x \o y) \o z) \o v
  BY <1>5, <1>6, <1>7, ConcatJoin
<1>9. x \o y \in F /\ (x \o y) \o z \in F /\ ((x \o y) \o z) \o v \in F
  BY <1>1, <1>2, <1>3, <1>4
<1> HIDE DEF v, F
<1>10. \A m, t : Values(((x \o y) \o z) \o v, m, t) =
                   ((Values(x, m, t) \o Values(y, m, t)) \o Values(z, m, t)) \o Values(v, m, t)
  <2> TAKE m, t
  <2>1. Values(x \o y, m, t) = Values(x, m, t) \o Values(y, m, t)
    BY <1>1, <1>2, ValuesAre DEF F
  <2>2. Values((x \o y) \o z, m, t) = Values(x \o y, m, t) \o Values(z, m, t)
    BY ZenonT(40), <1>9, <1>3, ValuesAre DEF F
  <2>3. Values(((x \o y) \o z) \o v, m, t) = Values((x \o y) \o z, m, t) \o Values(v, m, t)
    BY <1>9, <1>4, ValuesAre DEF F, v
  <2> QED BY <2>1, <2>2, <2>3
<1>11. \A s \in Seq(Content) : <<>> \o s = s /\ s \o <<>> = s
  OBVIOUS
<1>12. /\ KeptText(c.text) \in Seq(Content) /\ KeptText(c.reading) \in Seq(Content) /\ KeptInt(raw) \in Seq(Content)
       /\ bodies \in Seq(Content) /\ <<>> \in Seq(Content)
  <2>1. c.text \in Content /\ c.reading \in Content /\ raw \in Content
    BY <1>0, SegmentBodiesAre DEF Content
  <2> QED BY <2>1, SegmentBodiesAre DEF KeptText, KeptInt, bodies
<1>13. 1 # 2 /\ 1 # 3 /\ 1 # 4 /\ 2 # 1 /\ 2 # 3 /\ 2 # 4 /\ 3 # 1 /\ 3 # 2 /\ 3 # 4 /\ 4 # 1 /\ 4 # 2 /\ 4 # 3
  OBVIOUS
<1> DEFINE all == ((x \o y) \o z) \o v
<1> HIDE DEF all, LD
<1>14. Values(all, 1, LD) = KeptText(c.text)
  <2>1. Values(x, 1, LD) = KeptText(c.text) /\ Values(y, 1, LD) = <<>>
    BY <1>0, <1>1, <1>2, <1>13
  <2>2. Values(z, 1, LD) = <<>> /\ Values(v, 1, LD) = <<>>
    BY <1>0, <1>3, <1>4, <1>13 DEF v
  <2>3. Values(all, 1, LD) =
          ((Values(x, 1, LD) \o Values(y, 1, LD)) \o Values(z, 1, LD)) \o Values(v, 1, LD)
    BY <1>10 DEF all
  <2>4. Values(all, 1, LD) = ((KeptText(c.text) \o <<>>) \o <<>>) \o <<>>
    BY <2>1, <2>2, <2>3
  <2> QED BY <2>4, <1>11, <1>12
<1>15. Values(all, 2, LD) = KeptText(c.reading)
  <2>1. Values(x, 2, LD) = <<>> /\ Values(y, 2, LD) = KeptText(c.reading)
    BY <1>0, <1>1, <1>2, <1>13
  <2>2. Values(z, 2, LD) = <<>> /\ Values(v, 2, LD) = <<>>
    BY <1>0, <1>3, <1>4, <1>13 DEF v
  <2>3. Values(all, 2, LD) =
          ((Values(x, 2, LD) \o Values(y, 2, LD)) \o Values(z, 2, LD)) \o Values(v, 2, LD)
    BY <1>10 DEF all
  <2>4. Values(all, 2, LD) = ((<<>> \o KeptText(c.reading)) \o <<>>) \o <<>>
    BY <2>1, <2>2, <2>3
  <2> QED BY <2>4, <1>11, <1>12
<1>16. Values(all, 3, Varint) = KeptInt(raw)
  <2>1. Values(x, 3, Varint) = <<>> /\ Values(y, 3, Varint) = <<>>
    BY <1>0, <1>1, <1>2, <1>13
  <2>2. Values(z, 3, Varint) = KeptInt(raw) /\ Values(v, 3, Varint) = <<>>
    BY <1>0, <1>3, <1>4, <1>13 DEF v
  <2>3. Values(all, 3, Varint) =
          ((Values(x, 3, Varint) \o Values(y, 3, Varint)) \o Values(z, 3, Varint)) \o Values(v, 3, Varint)
    BY <1>10 DEF all
  <2>4. Values(all, 3, Varint) = ((<<>> \o <<>>) \o KeptInt(raw)) \o <<>>
    BY <2>1, <2>2, <2>3
  <2> QED BY <2>4, <1>11, <1>12
<1>17. Values(all, 4, LD) = bodies
  <2>1. Values(x, 4, LD) = <<>> /\ Values(y, 4, LD) = <<>>
    BY <1>0, <1>1, <1>2, <1>13
  <2>2. Values(z, 4, LD) = <<>> /\ Values(v, 4, LD) = bodies
    BY <1>0, <1>3, <1>4, <1>13 DEF v
  <2>3. Values(all, 4, LD) =
          ((Values(x, 4, LD) \o Values(y, 4, LD)) \o Values(z, 4, LD)) \o Values(v, 4, LD)
    BY <1>10 DEF all
  <2>4. Values(all, 4, LD) = ((<<>> \o <<>>) \o <<>>) \o bodies
    BY <2>1, <2>2, <2>3
  <2> QED BY <2>4, <1>11, <1>12
<1>18. all = Concat(CandidateMarks(c)) /\ all \in Seq(Field)
  BY <1>8, <1>9 DEF all, F
<1> QED BY <1>14, <1>15, <1>16, <1>17, <1>18 DEF CandidateMeans, LD, raw, bodies

(* A field that nobody looks for changes nothing. *)
LEMMA AlienIsPassed ==
  ASSUME NEW a \in Seq(Field), NEW b \in Seq(Field), NEW f, Alien(f), NEW n, NEW t,
         ~Same(f, n, t)
  PROVE  Values((a \o <<f>>) \o b, n, t) = Values(a \o b, n, t)
<1> DEFINE one == <<f>>
<1>1. f \in Field
  BY DEF Alien
<1>2. one \in Seq(Field) /\ Values(one, n, t) = <<>>
  <2>1. Values(<<f>>, n, t) = ValueOf(f, n, t)
    BY <1>1, ValuesAre
  <2>2. ValueOf(f, n, t) = <<>>
    BY <1>1, ValueOfIs
  <2> QED BY <1>1, <2>1, <2>2
<1> HIDE DEF one
<1>3. a \o one \in Seq(Field)
  BY <1>2
<1>4. /\ Values(a \o one, n, t) = Values(a, n, t) \o Values(one, n, t)
      /\ Values((a \o one) \o b, n, t) = Values(a \o one, n, t) \o Values(b, n, t)
      /\ Values(a \o b, n, t) = Values(a, n, t) \o Values(b, n, t)
      /\ Values(a, n, t) \in Seq(Content)
  BY ZenonT(40), <1>2, <1>3, ValuesAre
<1>5. Values(a, n, t) \o <<>> = Values(a, n, t)
  BY <1>4
<1> QED BY <1>2, <1>4, <1>5 DEF one

LEMMA AlienIsNoCandidate ==
  ASSUME NEW c, NEW a \in Seq(Field), NEW b \in Seq(Field), CandidateMeans(a \o b, c), NEW f, Alien(f)
  PROVE  CandidateMeans((a \o <<f>>) \o b, c)
<1>1. /\ ~Same(f, 1, LengthDelimited) /\ ~Same(f, 2, LengthDelimited)
      /\ ~Same(f, 3, Varint) /\ ~Same(f, 4, LengthDelimited)
  BY DEF Alien, Same, Varint, LengthDelimited
<1> QED BY <1>1, AlienIsPassed DEF CandidateMeans

LEMMA CandidateParsed ==
  ASSUME NEW bytes, NEW fs, Bears(bytes, fs), NEW c \in Candidates, CandidateMeans(fs, c),
         \A i \in DOMAIN c.segments : ParseSegment(SegmentBodies(c)[i]) = Parsed(TRUE, c.segments[i])
  PROVE  ParseCandidate(bytes) = Parsed(TRUE, c)
<1> DEFINE m == Fields[bytes]
           bodies == SegmentBodies(c)
           each == [i \in DOMAIN bodies |-> ParseSegment(bodies[i])]
<1>1. m.ok = TRUE /\ m.fields = fs
  <2>1. m.ok \in BOOLEAN
    BY BearsWhole, NoFields
  <2> QED BY <2>1, BearsWhole
<1>2. Text(fs, 1) = c.text /\ Text(fs, 2) = c.reading /\ Integer(fs, 3) = c.score
  BY SegmentBodiesAre, ScalarIs DEF CandidateMeans
<1>3. DOMAIN each = DOMAIN c.segments
  BY SegmentBodiesAre
<1>4. AllOf(each) = Parsed(TRUE, c.segments)
  <2>1. \A i \in DOMAIN c.segments : each[i] = Parsed(TRUE, c.segments[i])
    BY <1>3
  <2> HIDE DEF each
  <2> QED BY <2>1, <1>3, SegmentBodiesAre, AllOfIs
<1>5. Nested(m.fields, 4, ParseSegment) = AllOf(each)
  BY <1>1 DEF Nested, EachOf, CandidateMeans
<1>6. ParseCandidate(bytes) = CandidateOf(m, Nested(m.fields, 4, ParseSegment))
  BY DEF ParseCandidate, CandidateIn
<1> HIDE DEF m, each, bodies
<1>7. CandidateOf(m, Parsed(TRUE, c.segments)) =
        Parsed(TRUE, [text |-> c.text, reading |-> c.reading, score |-> c.score, segments |-> c.segments])
  BY <1>1, <1>2 DEF CandidateOf, Parsed
<1> QED BY <1>4, <1>5, <1>6, <1>7, SegmentBodiesAre

(* A candidate is read as it was written, with a field more or not. *)
LEMMA CandidateIsRead ==
  ASSUME NEW c \in Candidates
  PROVE  /\ Concat(CandidateFields(c)) \in Seq(Byte)
         /\ Len(Concat(CandidateFields(c))) < Longs =>
              /\ ParseCandidate(Concat(CandidateFields(c))) = Parsed(TRUE, c)
              /\ \A u \in Unknown, i \in Gaps(CandidateFields(c)) :
                   /\ With(CandidateFields(c), u, i) \in Seq(Byte)
                   /\ ParseCandidate(With(CandidateFields(c), u, i)) = Parsed(TRUE, c)
<1> DEFINE parts == CandidateFields(c)
           fss == CandidateMarks(c)
<1>1. /\ parts \in Seq(Seq(Byte))
      /\ Len(Concat(parts)) < Longs =>
           /\ BearsAll(parts, fss)
           /\ \A i \in DOMAIN c.segments : ParseSegment(SegmentBodies(c)[i]) = Parsed(TRUE, c.segments[i])
  BY CandidateParts
<1>2. Concat(fss) \in Seq(Field) /\ CandidateMeans(Concat(fss), c)
  BY MarksMeanCandidate
<1> HIDE DEF parts, fss
<1>3. Concat(parts) \in Seq(Byte)
  BY <1>1, ConcatJoin
<1>4. ASSUME Len(Concat(parts)) < Longs PROVE ParseCandidate(Concat(parts)) = Parsed(TRUE, c)
  <2>1. Bears(Concat(parts), Concat(fss))
    BY <1>1, <1>4, BearsConcat
  <2> QED BY <2>1, <1>1, <1>2, <1>4, CandidateParsed
<1>5. ASSUME Len(Concat(parts)) < Longs, NEW u \in Unknown, NEW i \in Gaps(parts)
      PROVE  With(parts, u, i) \in Seq(Byte) /\ ParseCandidate(With(parts, u, i)) = Parsed(TRUE, c)
  <2>1. PICK f : Alien(f) /\ Bears(u, <<f>>)
    BY <1>5, UnknownIs
  <2>2. TakesField(parts, fss, u, f, i)
    BY <2>1, <1>1, <1>5 DEF Gaps, TakesField
  <2>3. With(parts, u, i) \in Seq(Byte)
    BY <2>2, WithBears
  <2>4. PICK a, b : TakenField(parts, fss, u, f, i, a, b)
    BY <2>2, WithBears
  <2>5. CandidateMeans((a \o <<f>>) \o b, c)
    BY <2>1, <2>4, <1>2, AlienIsNoCandidate DEF TakenField
  <2>6. Bears(With(parts, u, i), (a \o <<f>>) \o b)
    BY <2>4 DEF TakenField
  <2> QED BY <2>3, <2>5, <2>6, <1>1, <1>5, CandidateParsed
<1> QED BY <1>3, <1>4, <1>5 DEF parts

LEMMA ConcatTwo ==
  ASSUME NEW S, NEW a \in Seq(Seq(S)), NEW x \in Seq(S)
  PROVE  a \o <<x>> \in Seq(Seq(S)) /\ Concat(a \o <<x>>) = Concat(a) \o x /\ Concat(a) \in Seq(S)
<1> DEFINE P == Seq(S)
<1>1. a \o <<x>> = Append(a, x) /\ Append(a, x) \in Seq(P)
  <2>1. a \in Seq(P) /\ x \in P
    OBVIOUS
  <2> HIDE DEF P
  <2> QED BY <2>1
<1>2. Concat(Append(a, x)) = Concat(a) \o x /\ Concat(a) \in Seq(S)
  BY ConcatAppend
<1> QED BY <1>1, <1>2

(* Candidates as they are written, and whether Zenzai was used. *)
ResultOf(bodies, z) == Messages(1, bodies) \o <<WriteBool(2, z)>>

ResultMarks(bodies, z) == Marks(1, LengthDelimited, bodies) \o <<IntMarks(2, IF z THEN 1 ELSE 0)>>

LEMMA ResultParts ==
  ASSUME NEW bodies \in Seq(Seq(Byte)), NEW z \in BOOLEAN
  PROVE  /\ ResultOf(bodies, z) \in Seq(Seq(Byte)) /\ Concat(ResultOf(bodies, z)) \in Seq(Byte)
         /\ Len(ResultOf(bodies, z)) = Len(bodies) + 1
         /\ \A i \in 1..Len(bodies) : ResultOf(bodies, z)[i] = WriteMessage(1, bodies[i])
         /\ ResultOf(bodies, z)[Len(bodies) + 1] = WriteBool(2, z)
         /\ Len(Concat(ResultOf(bodies, z))) < Longs =>
              /\ BearsAll(ResultOf(bodies, z), ResultMarks(bodies, z))
              /\ \A i \in 1..Len(bodies) : Len(bodies[i]) < Longs
<1> DEFINE P == Seq(Byte)
           msgs == Messages(1, bodies)
           raw == IF z THEN 1 ELSE 0
           last == WriteBool(2, z)
           parts == msgs \o <<last>>
<1>0. 1 \in 1..9 /\ 2 \in 1..9 /\ raw \in 0..(Ints - 1)
  BY WidthsAssumption
<1>1. /\ msgs \in Seq(P) /\ Len(msgs) = Len(bodies) /\ Len(bodies) \in Nat
      /\ \A i \in 1..Len(bodies) : Len(bodies[i]) < Len(msgs[i])
      /\ (\A i \in 1..Len(bodies) : Len(bodies[i]) < Longs) =>
              BearsAll(msgs, Marks(1, LengthDelimited, bodies))
      /\ \A i \in 1..Len(bodies) : msgs[i] = WriteMessage(1, bodies[i])
  <2>1. /\ msgs \in Seq(P) /\ Len(msgs) = Len(bodies) /\ Len(bodies) \in Nat
        /\ \A i \in 1..Len(bodies) : Len(bodies[i]) < Len(msgs[i])
        /\ (\A i \in 1..Len(bodies) : Len(bodies[i]) < Longs) =>
              BearsAll(msgs, Marks(1, LengthDelimited, bodies))
    BY <1>0, MessagesBear
  <2>2. \A i \in 1..Len(bodies) : msgs[i] = WriteMessage(1, bodies[i])
    BY DEF Messages
  <2> HIDE DEF msgs
  <2> QED BY <2>1, <2>2
<1>2. Bears(last, IntMarks(2, raw))
  <2> HIDE DEF raw
  <2> QED BY <1>0, UInt32Is DEF WriteBool, raw
<1>3. last \in P
  BY <1>2 DEF Bears
<1>4. ResultOf(bodies, z) = parts
  BY DEF ResultOf
<1>5. ResultMarks(bodies, z) = Marks(1, LengthDelimited, bodies) \o <<IntMarks(2, raw)>>
  BY DEF ResultMarks
<1> HIDE DEF msgs, last, raw
<1>6. parts \in Seq(P) /\ Concat(parts) \in P
  <2>1. parts \in Seq(P)
    BY <1>1, <1>3, ConcatTwo
  <2> HIDE DEF parts
  <2>2. <<>> \in Seq(P)
    OBVIOUS
  <2> QED BY <2>1, <2>2, ConcatJoin
<1>7. /\ Len(parts) = Len(bodies) + 1 /\ parts[Len(bodies) + 1] = last
      /\ \A i \in 1..Len(bodies) : parts[i] = msgs[i]
  <2> HIDE DEF P
  <2> QED BY <1>1, <1>3
<1> HIDE DEF parts
<1>8. ASSUME Len(Concat(parts)) < Longs
      PROVE  /\ BearsAll(parts, ResultMarks(bodies, z))
             /\ \A i \in 1..Len(bodies) : Len(bodies[i]) < Longs
  <2>1. ASSUME NEW i \in 1..Len(bodies) PROVE Len(bodies[i]) < Longs
    <3>1. i \in 1..Len(parts) /\ parts[i] = msgs[i]
      BY <1>1, <1>7
    <3>2. Len(parts[i]) <= Len(Concat(parts)) /\ Len(Concat(parts)) \in Nat
      BY <3>1, <1>6, LenConcat
    <3>3. bodies[i] \in P /\ msgs[i] \in P
      BY <1>1
    <3>4. Len(bodies[i]) \in Nat /\ Len(msgs[i]) \in Nat
      BY <3>3
    <3>5. Len(bodies[i]) < Len(msgs[i])
      BY <1>1
    <3> QED BY <3>1, <3>2, <3>4, <3>5, <1>8, WidthsAssumption
  <2>2. BearsAll(msgs, Marks(1, LengthDelimited, bodies))
    BY <2>1, <1>1
  <2>3. BearsAll(<<last>>, <<IntMarks(2, raw)>>)
    BY <1>2, BearsAllOne
  <2>4. BearsAll(parts, ResultMarks(bodies, z))
    BY <2>2, <2>3, <1>5, BearsAllJoin DEF parts
  <2> QED BY <2>1, <2>4
<1>9. \A i \in 1..Len(bodies) : parts[i] = WriteMessage(1, bodies[i])
  BY <1>1, <1>7
<1> QED BY <1>4, <1>6, <1>7, <1>8, <1>9 DEF P, last

LEMMA ValuesOfResult ==
  ASSUME NEW bodies \in Seq(Seq(Byte)), NEW z \in BOOLEAN
  PROVE  /\ Concat(ResultMarks(bodies, z)) \in Seq(Field)
         /\ Values(Concat(ResultMarks(bodies, z)), 1, LengthDelimited) = bodies
         /\ Values(Concat(ResultMarks(bodies, z)), 2, Varint) = KeptInt(IF z THEN 1 ELSE 0)
<1> DEFINE raw == IF z THEN 1 ELSE 0
           x == Marks(1, LengthDelimited, bodies)
           y == IntMarks(2, raw)
           v == Concat(x)
           C == Seq(Byte)
<1>0. /\ 1 \in Nat /\ 2 \in 1..9 /\ raw \in Nat /\ LengthDelimited \in Nat /\ LengthDelimited # Varint
      /\ 1 # 2 /\ 2 # 1
  BY DEF LengthDelimited, Varint
<1>1. C \subseteq Content /\ 0 \in Content
  BY DEF Content
<1>2. bodies \in Seq(Content)
  <2>1. bodies \in Seq(C)
    OBVIOUS
  <2> HIDE DEF C
  <2> QED BY <1>1, <2>1
<1>3. /\ v \in Seq(Field) /\ Values(v, 1, LengthDelimited) = bodies
      /\ \A m, u : m # 1 \/ u # LengthDelimited => Values(v, m, u) = <<>>
  BY <1>0, <1>2, ValuesOfMarks
<1>4. /\ y \in Seq(Field) /\ Values(y, 2, Varint) = KeptInt(raw)
      /\ \A m, u : m # 2 \/ u # Varint => Values(y, m, u) = <<>>
  <2> HIDE DEF raw
  <2> QED BY <1>0, ValuesOfInts
<1>5. x \in Seq(Seq(Field))
  BY <1>0, <1>1, <1>2, MarksAppend
<1>6. Concat(ResultMarks(bodies, z)) = v \o y
  <2>1. ResultMarks(bodies, z) = x \o <<y>>
    BY DEF ResultMarks
  <2> HIDE DEF x, y
  <2> QED BY <2>1, <1>4, <1>5, ConcatTwo
<1> HIDE DEF x, y, v
<1>7. v \o y \in Seq(Field)
  BY <1>3, <1>4
<1>8. \A m, u : Values(v \o y, m, u) = Values(v, m, u) \o Values(y, m, u)
  BY <1>3, <1>4, ValuesAre
<1>9. Values(v \o y, 1, LengthDelimited) = bodies \o <<>>
  <2>1. Values(v, 1, LengthDelimited) = bodies /\ Values(y, 1, LengthDelimited) = <<>>
    BY <1>0, <1>3, <1>4
  <2> QED BY <2>1, <1>8
<1>10. Values(v \o y, 2, Varint) = <<>> \o KeptInt(raw)
  <2>1. Values(v, 2, Varint) = <<>> /\ Values(y, 2, Varint) = KeptInt(raw)
    BY <1>0, <1>3, <1>4
  <2> QED BY <2>1, <1>8
<1>11. bodies \o <<>> = bodies
  BY <1>2
<1>12. <<>> \o KeptInt(raw) = KeptInt(raw)
  BY DEF KeptInt
<1> QED BY <1>6, <1>7, <1>9, <1>10, <1>11, <1>12

(* Bodies that are read as candidates, if they are not too long. *)
Spell(bodies, cs) ==
  /\ bodies \in Seq(Seq(Byte)) /\ cs \in Seq(Candidates) /\ Len(bodies) = Len(cs)
  /\ \A i \in 1..Len(bodies) : Len(bodies[i]) < Longs => ParseCandidate(bodies[i]) = Parsed(TRUE, cs[i])

LEMMA ResultIsRead ==
  ASSUME NEW bodies, NEW cs, Spell(bodies, cs), NEW z \in BOOLEAN,
         Len(Concat(ResultOf(bodies, z))) < Longs
  PROVE  ParseConvertResponse(Concat(ResultOf(bodies, z))) =
           Parsed(TRUE, [candidates |-> cs, zenzaiUsed |-> z])
<1> DEFINE bytes == Concat(ResultOf(bodies, z))
           fs == Concat(ResultMarks(bodies, z))
           m == Fields[bytes]
           each == [i \in DOMAIN bodies |-> ParseCandidate(bodies[i])]
<1>1. /\ bodies \in Seq(Seq(Byte)) /\ cs \in Seq(Candidates) /\ Len(bodies) = Len(cs)
      /\ \A i \in 1..Len(bodies) : Len(bodies[i]) < Longs => ParseCandidate(bodies[i]) = Parsed(TRUE, cs[i])
  BY DEF Spell
<1>2. BearsAll(ResultOf(bodies, z), ResultMarks(bodies, z)) /\ \A i \in 1..Len(bodies) : Len(bodies[i]) < Longs
  BY <1>1, ResultParts
<1>3. Bears(bytes, fs)
  BY <1>2, BearsConcat
<1>4. m.ok = TRUE /\ m.fields = fs
  <2>1. m.ok \in BOOLEAN
    BY <1>3, BearsWhole, NoFields
  <2> QED BY <2>1, <1>3, BearsWhole
<1>5. Values(fs, 1, LengthDelimited) = bodies /\ Values(fs, 2, Varint) = KeptInt(IF z THEN 1 ELSE 0)
  BY <1>1, ValuesOfResult
<1>6. Flag(fs, 2) = z
  BY <1>5, ScalarIs
<1>7. DOMAIN each = 1..Len(cs) /\ DOMAIN cs = 1..Len(cs) /\ DOMAIN bodies = 1..Len(cs)
  BY <1>1
<1>8. AllOf(each) = Parsed(TRUE, cs)
  <2>1. \A i \in DOMAIN cs : each[i] = Parsed(TRUE, cs[i])
    BY <1>1, <1>2, <1>7
  <2> HIDE DEF each
  <2> QED BY <2>1, <1>1, <1>7, AllOfIs
<1>9. Nested(m.fields, 1, ParseCandidate) = AllOf(each)
  BY <1>4, <1>5 DEF Nested, EachOf
<1>10. ParseConvertResponse(bytes) = ConvertOf(m, Nested(m.fields, 1, ParseCandidate))
  BY DEF ParseConvertResponse, ConvertIn
<1> HIDE DEF m, each, fs, bytes
<1>11. ConvertOf(m, Parsed(TRUE, cs)) = Parsed(TRUE, [candidates |-> cs, zenzaiUsed |-> z])
  BY <1>4, <1>6 DEF ConvertOf, Parsed
<1> QED BY <1>8, <1>9, <1>10, <1>11 DEF bytes

-----------------------------------------------------------------------------
(* The envelope. *)
ReplyParts(id, body) == <<WriteUInt32(1, id), WriteMessage(2, <<>>), WriteMessage(3, body)>>

ReplyMarks(id, body) ==
  <<IntMarks(1, id), <<Mark(2, LengthDelimited, <<>>)>>, <<Mark(3, LengthDelimited, body)>>>>

(* What a reader of a reply looks for. *)
ReplyMeans(fs, id, body) ==
  /\ FirstOf(Values(fs, 1, Varint)) = id /\ (id = 0 => Values(fs, 1, Varint) = <<>>)
  /\ Values(fs, 2, LengthDelimited) = << <<>> >>
  /\ Values(fs, 3, LengthDelimited) = <<body>>

LEMMA ReplyBears ==
  ASSUME NEW id \in 0..(Ints - 1), NEW body \in Seq(Byte)
  PROVE  /\ ReplyParts(id, body) \in Seq(Seq(Byte)) /\ Concat(ReplyParts(id, body)) \in Seq(Byte)
         /\ Len(body) < Len(Concat(ReplyParts(id, body)))
         /\ Len(body) < Longs => BearsAll(ReplyParts(id, body), ReplyMarks(id, body))
<1> DEFINE a == WriteUInt32(1, id)
           b == WriteMessage(2, <<>>)
           c == WriteMessage(3, body)
           parts == <<a, b, c>>
<1>0. 1 \in 1..9 /\ 2 \in 1..9 /\ 3 \in 1..9 /\ <<>> \in Seq(Byte) /\ Len(<<>>) = 0 /\ 0 < Longs
  BY WidthsAssumption
<1>1. Bears(a, IntMarks(1, id)) /\ a \in Seq(Byte)
  BY <1>0, UInt32Is DEF Bears
<1>2. Bears(b, <<Mark(2, LengthDelimited, <<>>)>>) /\ b \in Seq(Byte)
  <2>1. Carries(b, Mark(2, LengthDelimited, <<>>))
    BY <1>0, MessageCarries DEF Mark
  <2> QED BY <2>1, BearsOne DEF Bears
<1>3. c \in Seq(Byte) /\ Len(body) < Len(c)
  BY <1>0, MessageIsLonger
<1>4. ASSUME Len(body) < Longs PROVE Bears(c, <<Mark(3, LengthDelimited, body)>>)
  <2>1. Carries(c, Mark(3, LengthDelimited, body))
    BY <1>0, <1>4, MessageCarries DEF Mark
  <2> QED BY <2>1, BearsOne
<1>5. ReplyParts(id, body) = parts
  BY DEF ReplyParts
<1> HIDE DEF a, b, c
<1>6. parts \in Seq(Seq(Byte)) /\ Concat(parts) = Three(a, b, c)
  BY <1>1, <1>2, <1>3, ConcatThree
<1>7. Three(a, b, c) \in Seq(Byte) /\ Len(Three(a, b, c)) = Len(a) + Len(b) + Len(c)
  BY <1>1, <1>2, <1>3 DEF Three
<1>8. Len(a) \in Nat /\ Len(b) \in Nat /\ Len(c) \in Nat /\ Len(body) \in Nat
  BY <1>1, <1>2, <1>3
<1>9. Len(body) < Len(Three(a, b, c))
  BY <1>3, <1>7, <1>8
<1>10. ASSUME Len(body) < Longs PROVE BearsAll(parts, ReplyMarks(id, body))
  BY <1>1, <1>2, <1>4, <1>10, BearsAllThree DEF ReplyMarks
<1> QED BY <1>5, <1>6, <1>7, <1>9, <1>10

LEMMA ValuesOfReply ==
  ASSUME NEW id \in 0..(Ints - 1), NEW body \in Seq(Byte)
  PROVE  /\ ReplyMarks(id, body)[1] = IntMarks(1, id)
         /\ Concat(ReplyMarks(id, body)) \in Seq(Field)
         /\ Values(Concat(ReplyMarks(id, body)), 1, Varint) = KeptInt(id)
         /\ Values(Concat(ReplyMarks(id, body)), 2, LengthDelimited) = << <<>> >>
         /\ Values(Concat(ReplyMarks(id, body)), 3, LengthDelimited) = <<body>>
<1> DEFINE LD == LengthDelimited
           x == IntMarks(1, id)
           f == Mark(2, LD, <<>>)
           g == Mark(3, LD, body)
           y == <<f>>
           z == <<g>>
<1>0. 1 \in 1..9 /\ id \in Nat /\ LD \in Nat /\ LD # Varint
      /\ 1 # 2 /\ 1 # 3 /\ 2 # 1 /\ 2 # 3 /\ 3 # 1 /\ 3 # 2
  BY WidthsAssumption DEF LengthDelimited, Varint
<1>1. x \in Seq(Field) /\ Values(x, 1, Varint) = KeptInt(id) /\ \A m, t : m # 1 \/ t # Varint => Values(x, m, t) = <<>>
  BY <1>0, ValuesOfInts
<1>2. f \in Field /\ g \in Field
  BY <1>0 DEF Mark, Field, Content
<1>3. /\ ValueOf(f, 2, LD) = << <<>> >> /\ \A m, t : m # 2 \/ t # LD => ValueOf(f, m, t) = <<>>
      /\ ValueOf(g, 3, LD) = <<body>> /\ \A m, t : m # 3 \/ t # LD => ValueOf(g, m, t) = <<>>
  BY DEF ValueOf, Mark
<1>4. ReplyMarks(id, body) = <<x, y, z>> /\ <<x, y, z>>[1] = x
  BY DEF ReplyMarks
<1> HIDE DEF x, f, g
<1>5. /\ y \in Seq(Field) /\ z \in Seq(Field)
      /\ \A m, t : Values(y, m, t) = ValueOf(f, m, t) /\ Values(z, m, t) = ValueOf(g, m, t)
  <2>1. y \in Seq(Field) /\ z \in Seq(Field)
    BY <1>2
  <2>2. \A m, t : Values(<<f>>, m, t) = ValueOf(f, m, t)
    BY <1>2, ValuesAre
  <2>3. \A m, t : Values(<<g>>, m, t) = ValueOf(g, m, t)
    BY <1>2, ValuesAre
  <2> QED BY <2>1, <2>2, <2>3
<1> HIDE DEF y, z
<1>6. <<x, y, z>> \in Seq(Seq(Field)) /\ Concat(<<x, y, z>>) = Three(x, y, z)
  BY <1>1, <1>5, ConcatThree
<1>7. Three(x, y, z) \in Seq(Field) /\ x \o y \in Seq(Field)
  BY <1>1, <1>5 DEF Three
<1>8. ASSUME NEW m, NEW t
      PROVE  Values(Three(x, y, z), m, t) = (Values(x, m, t) \o Values(y, m, t)) \o Values(z, m, t)
  <2>1. Values(x \o y, m, t) = Values(x, m, t) \o Values(y, m, t)
    BY ZenonT(40), <1>1, <1>5, ValuesAre
  <2>2. Values((x \o y) \o z, m, t) = Values(x \o y, m, t) \o Values(z, m, t)
    BY ZenonT(40), <1>7, <1>5, ValuesAre
  <2> QED BY <2>1, <2>2 DEF Three
<1> DEFINE all == Three(x, y, z)
<1> HIDE DEF all, LD
<1>9. Values(all, 1, Varint) = KeptInt(id)
  <2>1. Values(x, 1, Varint) = KeptInt(id) /\ Values(y, 1, Varint) = <<>> /\ Values(z, 1, Varint) = <<>>
    BY <1>0, <1>1, <1>3, <1>5
  <2>2. Values(all, 1, Varint) = (KeptInt(id) \o <<>>) \o <<>>
    BY <2>1, <1>8 DEF all
  <2>3. (KeptInt(id) \o <<>>) \o <<>> = KeptInt(id)
    BY DEF KeptInt
  <2> QED BY <2>2, <2>3
<1>10. Values(all, 2, LD) = << <<>> >>
  <2>1. Values(x, 2, LD) = <<>> /\ Values(y, 2, LD) = << <<>> >> /\ Values(z, 2, LD) = <<>>
    BY <1>0, <1>1, <1>3, <1>5
  <2>2. Values(all, 2, LD) = (<<>> \o << <<>> >>) \o <<>>
    BY <2>1, <1>8 DEF all
  <2> QED BY <2>2
<1>11. Values(all, 3, LD) = <<body>>
  <2>1. Values(x, 3, LD) = <<>> /\ Values(y, 3, LD) = <<>> /\ Values(z, 3, LD) = <<body>>
    BY <1>0, <1>1, <1>3, <1>5
  <2>2. Values(all, 3, LD) = (<<>> \o <<>>) \o <<body>>
    BY <2>1, <1>8 DEF all
  <2> QED BY <2>2
<1> QED BY <1>4, <1>6, <1>7, <1>9, <1>10, <1>11 DEF all, LD, x

LEMMA FirstIs ==
  ASSUME NEW id \in 0..(Ints - 1)
  PROVE  /\ FirstOf(KeptInt(id)) = id
         /\ id # 0 => \A more \in Seq(Content) : FirstOf(<<id>> \o more) = id
<1>1. UInt32(id) = id
  BY WidthsAssumption DEF UInt32
<1>2. FirstOf(KeptInt(id)) = id
  BY <1>1 DEF FirstOf, KeptInt
<1>3. ASSUME NEW more \in Seq(Content) PROVE FirstOf(<<id>> \o more) = id
  <2>1. (<<id>> \o more)[1] = id
    OBVIOUS
  <2>2. <<id>> \o more # <<>>
    <3>1. id \in Content
      BY WidthsAssumption DEF Content
    <3> QED BY <3>1, FrontOfConcat
  <2> QED BY <2>1, <2>2, <1>1 DEF FirstOf
<1> QED BY <1>2, <1>3

Four(a, b, c, d) == ((a \o b) \o c) \o d

StartsWith(values, all) == \E rest \in Seq(Content) : all = values \o rest

LEMMA ValuesOfFirst ==
  ASSUME NEW mark \in Seq(Field), NEW more \in Seq(Field), NEW one \in Seq(Field), NEW b \in Seq(Field),
         NEW n, NEW t
  PROVE  StartsWith(Values(mark, n, t), Values(Four(mark, more, one, b), n, t))
<1> DEFINE joined == (more \o one) \o b
<1>1. Four(mark, more, one, b) = mark \o joined /\ joined \in Seq(Field)
  BY SMTT(40) DEF Four
<1> HIDE DEF joined
<1>2. Values(mark \o joined, n, t) = Values(mark, n, t) \o Values(joined, n, t)
  BY ZenonT(40), <1>1, ValuesAre
<1>3. Values(joined, n, t) \in Seq(Content)
  BY <1>1, ValuesAre
<1> QED BY <1>1, <1>2, <1>3 DEF StartsWith

AfterId(id, body, a, b) ==
  /\ a \in Seq(Field) /\ b \in Seq(Field) /\ Concat(ReplyMarks(id, body)) = a \o b
  /\ \E more \in Seq(Field) : a = IntMarks(1, id) \o more

(* The envelope with a field more, after the id. *)
LEMMA AlienIsNoReply ==
  ASSUME NEW id \in 1..(Ints - 1), NEW body \in Seq(Byte), NEW f, Alien(f),
         NEW a, NEW b, AfterId(id, body, a, b)
  PROVE  ReplyMeans((a \o <<f>>) \o b, id, body)
<1>1. ~Same(f, 2, LengthDelimited) /\ ~Same(f, 3, LengthDelimited)
  BY DEF Alien, Same, Varint, LengthDelimited
<1>2. id \in 0..(Ints - 1) /\ id # 0 /\ id \in Nat
  BY WidthsAssumption
<1> DEFINE all == (a \o <<f>>) \o b
           both == a \o b
<1>3. a \in Seq(Field) /\ b \in Seq(Field) /\ Concat(ReplyMarks(id, body)) = both
  BY DEF AfterId
<1>4. /\ Values(all, 2, LengthDelimited) = Values(both, 2, LengthDelimited)
      /\ Values(all, 3, LengthDelimited) = Values(both, 3, LengthDelimited)
  BY <1>1, <1>3, AlienIsPassed
<1>5. /\ Values(both, 2, LengthDelimited) = << <<>> >>
      /\ Values(both, 3, LengthDelimited) = <<body>>
  <2> HIDE DEF both
  <2> QED BY <1>2, <1>3, ValuesOfReply
<1>6. FirstOf(Values(all, 1, Varint)) = id
  <2> DEFINE mark == IntMarks(1, id)
             one == <<f>>
  <2>1. PICK more \in Seq(Field) : a = mark \o more
    BY DEF AfterId
  <2>2. mark \in Seq(Field) /\ Values(mark, 1, Varint) = <<id>>
    <3>1. 1 \in 1..9
      OBVIOUS
    <3>2. Values(mark, 1, Varint) = KeptInt(id) /\ mark \in Seq(Field)
      BY <1>2, <3>1, ValuesOfInts
    <3> QED BY <3>2, <1>2 DEF KeptInt
  <2>3. one \in Seq(Field)
    BY DEF Alien
  <2> HIDE DEF mark, one
  <2>4. StartsWith(Values(mark, 1, Varint), Values(Four(mark, more, one, b), 1, Varint))
    <3>1. mark \in Seq(Field) /\ one \in Seq(Field) /\ b \in Seq(Field)
      BY <2>2, <2>3, <1>3
    <3> HIDE DEF all, both
    <3> QED BY <3>1, ValuesOfFirst
  <2>5. all = Four(mark, more, one, b)
    BY <2>1 DEF one, Four
  <2> HIDE DEF all
  <2>6. PICK rest \in Seq(Content) : Values(all, 1, Varint) = <<id>> \o rest
    BY <2>2, <2>4, <2>5 DEF StartsWith
  <2> QED BY <2>6, <1>2, FirstIs
<1> QED BY <1>2, <1>4, <1>5, <1>6 DEF ReplyMeans

Part(values, x) == values = <<>> \/ values = <<x>>

LEMMA AllOfPart ==
  ASSUME NEW each, NEW x
  PROVE  /\ DOMAIN each = {} => AllOf(each) = Parsed(TRUE, <<>>)
         /\ DOMAIN each = {1} /\ each[1] = Parsed(TRUE, x) => AllOf(each) = Parsed(TRUE, <<x>>)
<1> DEFINE S == {x}
<1>1. <<>> \in Seq(S) /\ DOMAIN <<>> = {} /\ <<x>> \in Seq(S) /\ DOMAIN <<x>> = {1} /\ <<x>>[1] = x
  OBVIOUS
<1> HIDE DEF S
<1>2. ASSUME DOMAIN each = {} PROVE AllOf(each) = Parsed(TRUE, <<>>)
  <2>1. \A i \in DOMAIN <<>> : each[i] = Parsed(TRUE, <<>>[i])
    BY <1>1
  <2> QED BY <1>1, <1>2, <2>1, AllOfIs
<1>3. ASSUME DOMAIN each = {1}, each[1] = Parsed(TRUE, x) PROVE AllOf(each) = Parsed(TRUE, <<x>>)
  <2> DEFINE xs == <<x>>
  <2>1. xs \in Seq(S) /\ DOMAIN xs = {1} /\ xs[1] = x
    BY <1>1
  <2> HIDE DEF xs
  <2>2. \A i \in DOMAIN xs : each[i] = Parsed(TRUE, xs[i])
    BY <1>3, <2>1
  <2>3. AllOf(each) = Parsed(TRUE, xs)
    BY <1>3, <2>1, <2>2, AllOfIs
  <2> QED BY <2>3 DEF xs
<1> QED BY <1>2, <1>3

(* The status of a success is an empty message. *)
LEMMA StatusIsRead == ParseStatusMessage(<<>>) = Parsed(TRUE, 0)
<1>1. Fields[<<>>] = AllRead
  <2>1. <<>> \in Seq(Byte)
    OBVIOUS
  <2> QED BY <2>1, FieldsAre
<1>2. Values(<<>>, 1, Varint) = <<>>
  BY ValuesAre
<1>3. Integer(<<>>, 1) = 0
  <2>1. 0 \in Scores /\ KeptInt(0 % Longs) = <<>>
    BY WidthsAssumption DEF Scores, KeptInt
  <2> QED BY <1>2, <2>1, ScalarIs
<1>4. ParseStatusMessage(<<>>) = StatusOf(AllRead)
  BY <1>1 DEF ParseStatusMessage
<1>5. AllRead.ok = TRUE /\ AllRead.fields = <<>>
  BY DEF AllRead
<1>6. StatusOf(AllRead) = Parsed(TRUE, 0)
  BY <1>5, <1>3 DEF StatusOf
<1> QED BY <1>4, <1>6

(* What is made of the fields of a success's envelope, or of some of them. *)
LEMMA ResponseIs ==
  ASSUME NEW m \in Parse, NEW body, NEW r,
         Part(Values(m.fields, 2, LengthDelimited), <<>>),
         Part(Values(m.fields, 3, LengthDelimited), body),
         ParseConvertResponse(body) = Parsed(TRUE, r)
  PROVE  /\ m.ok /\ Values(m.fields, 3, LengthDelimited) = <<body>> =>
              ResponseIn(m, 0) = [result |-> "Ok", body |-> r]
         /\ ~m.ok \/ Values(m.fields, 3, LengthDelimited) = <<>> =>
              ResponseIn(m, 0) = [result |-> "BadResponse"]
<1> DEFINE v2 == Values(m.fields, 2, LengthDelimited)
           v3 == Values(m.fields, 3, LengthDelimited)
           e2 == [i \in DOMAIN v2 |-> ParseStatusMessage(v2[i])]
           e3 == [i \in DOMAIN v3 |-> ParseConvertResponse(v3[i])]
           st == Nested(m.fields, 2, ParseStatusMessage)
           bo == Nested(m.fields, 3, ParseConvertResponse)
<1>1. st = AllOf(e2) /\ bo = AllOf(e3) /\ ResponseIn(m, 0) = ResponseWith(m, st, bo, 0)
  BY DEF Nested, EachOf, ResponseIn
<1>2. (v2 = <<>> \/ v2 = << <<>> >>) /\ (v3 = <<>> \/ v3 = <<body>>)
  BY DEF Part
<1> HIDE DEF v2, v3
<1>3. /\ v2 = <<>> => DOMAIN e2 = {}
      /\ v2 = << <<>> >> => DOMAIN e2 = {1} /\ e2[1] = ParseStatusMessage(<<>>)
      /\ v3 = <<>> => DOMAIN e3 = {}
      /\ v3 = <<body>> => DOMAIN e3 = {1} /\ e3[1] = ParseConvertResponse(body)
  <2>1. /\ DOMAIN e2 = DOMAIN v2 /\ \A i \in DOMAIN v2 : e2[i] = ParseStatusMessage(v2[i])
        /\ DOMAIN e3 = DOMAIN v3 /\ \A i \in DOMAIN v3 : e3[i] = ParseConvertResponse(v3[i])
    OBVIOUS
  <2> HIDE DEF e2, e3
  <2>2. v2 = <<>> => DOMAIN v2 = {}
    OBVIOUS
  <2>3. v3 = <<>> => DOMAIN v3 = {}
    OBVIOUS
  <2>4. \A v, x : v = <<x>> => DOMAIN v = {1} /\ v[1] = x
    OBVIOUS
  <2> QED BY <2>1, <2>2, <2>3, <2>4
<1> HIDE DEF e2, e3, st, bo
<1>4. (v2 = <<>> => st = Parsed(TRUE, <<>>)) /\ (v2 = << <<>> >> => st = Parsed(TRUE, <<0>>))
  BY <1>1, <1>3, StatusIsRead, AllOfPart
<1>5. (v3 = <<>> => bo = Parsed(TRUE, <<>>)) /\ (v3 = <<body>> => bo = Parsed(TRUE, <<r>>))
  BY <1>1, <1>3, AllOfPart
<1>6. st.ok /\ CodeOf(st.value, 0) = 0
  <2>1. CodeOf(<<>>, 0) = 0 /\ CodeOf(<<0>>, 0) = 0
    BY DEF CodeOf, Seqs!Last
  <2>2. CASE v2 = <<>>
    BY <2>1, <2>2, <1>4 DEF Parsed
  <2>3. CASE v2 = << <<>> >>
    BY <2>1, <2>3, <1>4 DEF Parsed
  <2> QED BY <2>2, <2>3, <1>2
<1>7. m.ok \in BOOLEAN
  BY DEF Parse
<1>8. ResponseWith(m, st, bo, 0) = ResponseOf(m.ok /\ st.ok /\ bo.ok, 0, bo.value)
  BY <1>6 DEF ResponseWith
<1>9. ASSUME m.ok, v3 = <<body>> PROVE ResponseIn(m, 0) = [result |-> "Ok", body |-> r]
  <2>1. bo.ok /\ bo.value = <<r>>
    BY <1>5, <1>9 DEF Parsed
  <2>2. ResponseOf(TRUE, 0, <<r>>) = [result |-> "Ok", body |-> r]
    <3>1. <<r>> # <<>> /\ Seqs!Last(<<r>>) = r
      BY DEF Seqs!Last
    <3> QED BY <3>1 DEF ResponseOf
  <2>3. (m.ok /\ st.ok /\ bo.ok) = TRUE
    BY <1>9, <2>1, <1>6
  <2> QED BY <2>1, <2>2, <2>3, <1>1, <1>8
<1>10. ASSUME ~m.ok PROVE ResponseIn(m, 0) = [result |-> "BadResponse"]
  <2>1. (m.ok /\ st.ok /\ bo.ok) = FALSE
    BY <1>10
  <2>2. ResponseOf(FALSE, 0, bo.value) = [result |-> "BadResponse"]
    BY DEF ResponseOf
  <2> QED BY <2>1, <2>2, <1>1, <1>8
<1>11. ASSUME m.ok, v3 = <<>> PROVE ResponseIn(m, 0) = [result |-> "BadResponse"]
  <2>1. bo.ok /\ bo.value = <<>>
    BY <1>5, <1>11 DEF Parsed
  <2>2. ResponseOf(TRUE, 0, <<>>) = [result |-> "BadResponse"]
    BY DEF ResponseOf
  <2>3. (m.ok /\ st.ok /\ bo.ok) = TRUE
    BY <1>11, <2>1, <1>6
  <2> QED BY <2>1, <2>2, <2>3, <1>1, <1>8
<1> QED BY <1>9, <1>10, <1>11 DEF v3

LEMMA PartOfOne ==
  ASSUME NEW S, NEW a \in Seq(S), NEW b \in Seq(S), NEW x, a \o b = <<x>>
  PROVE  Part(a, x)
<1>1. Len(a) + Len(b) = 1 /\ Len(a) \in Nat /\ Len(b) \in Nat
  <2>1. Len(a \o b) = Len(a) + Len(b)
    OBVIOUS
  <2>2. Len(<<x>>) = 1
    OBVIOUS
  <2> QED BY <2>1, <2>2
<1>2. CASE Len(a) = 0
  <2>1. a = <<>>
    BY <1>2
  <2> QED BY <2>1 DEF Part
<1>3. CASE Len(a) = 1
  <2>1. Len(b) = 0
    BY <1>1, <1>3
  <2>2. b = <<>>
    BY <2>1
  <2>3. a \o <<>> = a
    OBVIOUS
  <2> QED BY <2>2, <2>3 DEF Part
<1>4. Len(a) = 0 \/ Len(a) = 1
  BY <1>1
<1> QED BY <1>2, <1>3, <1>4

LEMMA UnreadIsBad ==
  ASSUME NEW m \in Parse, ~m.ok
  PROVE  ResponseIn(m, 0) = [result |-> "BadResponse"]
<1> DEFINE st == Nested(m.fields, 2, ParseStatusMessage)
           bo == Nested(m.fields, 3, ParseConvertResponse)
<1>1. ResponseIn(m, 0) = ResponseWith(m, st, bo, 0)
  BY DEF ResponseIn
<1> HIDE DEF st, bo
<1>2. (m.ok /\ st.ok /\ bo.ok) = FALSE
  OBVIOUS
<1>3. ResponseOf(FALSE, CodeOf(st.value, 0), bo.value) = [result |-> "BadResponse"]
  BY DEF ResponseOf
<1> QED BY <1>1, <1>2, <1>3 DEF ResponseWith

Success(r) == [result |-> "Ok", body |-> r]

(* A success: its fields, and what its body is read as. *)
ReplyOf(bytes, fs, id, body, r) ==
  /\ Bears(bytes, fs) /\ ReplyMeans(fs, id, body)
  /\ ParseConvertResponse(body) = Parsed(TRUE, r)

LEMMA PartIsRead ==
  ASSUME NEW bytes, NEW fs, NEW id, NEW body, NEW r, ReplyOf(bytes, fs, id, body, r),
         NEW some, Leads(some, fs)
  PROVE  Part(Values(some, 2, LengthDelimited), <<>>) /\ Part(Values(some, 3, LengthDelimited), body)
<1>1. fs \in Seq(Field) /\ some \in Seq(Field)
  BY DEF ReplyOf, Bears, Leads
<1>2. PICK more \in Seq(Field) : fs = some \o more
  BY DEF Leads
<1>3. ASSUME NEW n, NEW x, Values(fs, n, LengthDelimited) = <<x>>
      PROVE  Part(Values(some, n, LengthDelimited), x)
  <2> DEFINE a == Values(some, n, LengthDelimited)
             b == Values(more, n, LengthDelimited)
  <2>1. Values(some \o more, n, LengthDelimited) = a \o b
    BY <1>1, ValuesAre
  <2>2. a \in Seq(Content) /\ b \in Seq(Content)
    BY <1>1, ValuesAre
  <2> HIDE DEF a, b
  <2>3. a \o b = <<x>>
    BY <2>1, <1>2, <1>3
  <2>4. Part(a, x)
    BY <2>2, <2>3, PartOfOne
  <2> QED BY <2>4 DEF a
<1>4. Values(fs, 2, LengthDelimited) = << <<>> >> /\ Values(fs, 3, LengthDelimited) = <<body>>
  BY DEF ReplyOf, ReplyMeans
<1>5. Part(Values(some, 2, LengthDelimited), <<>>)
  BY <1>4, <1>3
<1>6. Part(Values(some, 3, LengthDelimited), body)
  BY <1>4, <1>3
<1> QED BY <1>5, <1>6

(* A success is read by the call that has its id, and none of its cuts is  *)
(* read as another.                                                        *)
BadAnswer == [result |-> "BadResponse"]

OwnOrBad(read, q, id, r) ==
  Correlated(read, q) = BadAnswer \/ (q = id /\ Correlated(read, q) = Success(r))

LEMMA OnlyItsOwn ==
  ASSUME NEW fs, NEW id, NEW body, ReplyMeans(fs, id, body),
         NEW some, Leads(some, fs), fs \in Seq(Field),
         NEW read, read.id = IdSeen(Values(some, 1, Varint)), read.id.sawId
  PROVE  read.id.replyId = id
<1> DEFINE a == Values(some, 1, Varint)
<1>1. PICK more \in Seq(Field) : some \in Seq(Field) /\ fs = some \o more
  BY DEF Leads
<1> DEFINE b == Values(more, 1, Varint)
<1>2. Values(some \o more, 1, Varint) = a \o b /\ a \in Seq(Content) /\ b \in Seq(Content)
  BY <1>1, ValuesAre
<1>3. a # <<>> /\ read.id.replyId = FirstOf(a)
  <2> HIDE DEF a
  <2>1. read.id = IdSeen(a) /\ read.id.sawId
    BY DEF a
  <2>2. IdSeen(a).sawId = (a # <<>>) /\ IdSeen(a).replyId = FirstOf(a)
    BY DEF IdSeen
  <2> QED BY <2>1, <2>2
<1>4. FirstOf(Values(fs, 1, Varint)) = id
  BY DEF ReplyMeans
<1> HIDE DEF a, b
<1>5. a \o b # <<>> /\ (a \o b)[1] = a[1]
  BY <1>2, <1>3
<1>6. FirstOf(a \o b) = FirstOf(a)
  BY <1>3, <1>5 DEF FirstOf
<1> QED BY <1>1, <1>2, <1>3, <1>4, <1>6

LEMMA ReplyIsRead ==
  ASSUME NEW bytes, NEW fs, NEW id, NEW body, NEW r, ReplyOf(bytes, fs, id, body, r)
  PROVE  /\ bytes \in Seq(Byte)
         /\ Correlated(Read(bytes), id) = IF id = 0 THEN BadAnswer ELSE Success(r)
         /\ \A q : OwnOrBad(Read(bytes), q, id, r)
         /\ \A k \in Nat : k < Len(bytes) =>
              \A q : OwnOrBad(Read(SubSeq(bytes, 1, k)), q, id, r)
<1>1. /\ bytes \in Seq(Byte) /\ fs \in Seq(Field) /\ Bears(bytes, fs)
      /\ ReplyMeans(fs, id, body) /\ Values(fs, 3, LengthDelimited) = <<body>>
      /\ ParseConvertResponse(body) = Parsed(TRUE, r)
  BY DEF ReplyOf, Bears, ReplyMeans
<1>2. /\ Read(bytes).id = IdSeen(Values(fs, 1, Varint)) /\ Read(bytes).reply = Success(r)
      /\ Leads(fs, fs)
  <2> DEFINE m == Fields[bytes]
  <2>1. m \in Parse /\ m.ok /\ m.fields = fs
    BY <1>1, NoFields, BearsWhole
  <2>2. Leads(fs, fs)
    BY <1>1, LeadsIs
  <2>3. Part(Values(m.fields, 2, LengthDelimited), <<>>) /\ Part(Values(m.fields, 3, LengthDelimited), body)
    BY <2>1, <2>2, PartIsRead
  <2>4. ReadResponse(bytes, 0) = ResponseIn(m, 0) /\ ReplyId(bytes) = IdSeen(Values(m.fields, 1, Varint))
    BY DEF ReadResponse, ReplyId
  <2> HIDE DEF m
  <2>5. ResponseIn(m, 0) = [result |-> "Ok", body |-> r]
    <3>1. m.ok /\ Values(m.fields, 3, LengthDelimited) = <<body>>
      BY <2>1, <1>1
    <3> QED BY <2>1, <2>3, <3>1, <1>1, ResponseIs
  <2> QED BY <2>1, <2>2, <2>4, <2>5 DEF Read, Success
<1>3. ASSUME NEW q PROVE OwnOrBad(Read(bytes), q, id, r)
  <2>1. Read(bytes).id.sawId => Read(bytes).id.replyId = id
    BY <1>1, <1>2, OnlyItsOwn
  <2> QED BY <1>2, <2>1 DEF OwnOrBad, Correlated, BadAnswer
<1>4. Correlated(Read(bytes), id) = IF id = 0 THEN BadAnswer ELSE Success(r)
  <2> DEFINE ids == Values(fs, 1, Varint)
  <2>1. FirstOf(ids) = id /\ (id = 0 => ids = <<>>)
    BY <1>1 DEF ReplyMeans
  <2>2. IdSeen(ids).sawId <=> id # 0
    <3> HIDE DEF ids
    <3> QED BY <2>1 DEF FirstOf, IdSeen
  <2>3. IdSeen(ids).replyId = id
    BY <2>1 DEF IdSeen
  <2> HIDE DEF ids
  <2> QED BY <1>2, <2>2, <2>3 DEF Correlated, BadAnswer, ids
<1>5. ASSUME NEW k \in Nat, k < Len(bytes), NEW q
      PROVE  OwnOrBad(Read(SubSeq(bytes, 1, k)), q, id, r)
  <2> DEFINE cut == SubSeq(bytes, 1, k)
             m == Fields[cut]
             read == Read(cut)
  <2>1. cut \in Seq(Byte)
    BY <1>1, <1>5
  <2>2. m \in Parse
    BY <2>1, NoFields
  <2>3. m.ok => Leads(m.fields, fs)
    BY <1>1, <1>5 DEF Bears
  <2>4. read.reply = ResponseIn(m, 0) /\ read.id = IdSeen(Values(m.fields, 1, Varint))
    BY DEF Read, ReadResponse, ReplyId
  <2> HIDE DEF cut, m, read
  <2>5. ASSUME ~m.ok PROVE ResponseIn(m, 0) = BadAnswer
    BY <2>2, <2>5, UnreadIsBad DEF BadAnswer
  <2>6. ASSUME m.ok PROVE ResponseIn(m, 0) \in {BadAnswer, Success(r)}
    <3> DEFINE v3 == Values(m.fields, 3, LengthDelimited)
    <3>1. Part(Values(m.fields, 2, LengthDelimited), <<>>) /\ Part(v3, body)
      BY <2>3, <2>6, PartIsRead
    <3>2. v3 = <<body>> => ResponseIn(m, 0) = [result |-> "Ok", body |-> r]
      BY <2>2, <2>6, <3>1, <1>1, ResponseIs
    <3>3. v3 = <<>> => ResponseIn(m, 0) = [result |-> "BadResponse"]
      BY <2>2, <2>6, <3>1, <1>1, ResponseIs
    <3> HIDE DEF v3
    <3> QED BY <3>1, <3>2, <3>3 DEF Part, Success, BadAnswer
  <2>7. ASSUME m.ok, read.id.sawId PROVE read.id.replyId = id
    BY <2>3, <2>4, <2>7, <1>1, OnlyItsOwn
  <2>8. OwnOrBad(read, q, id, r)
    <3>1. CASE ~m.ok
      BY <3>1, <2>4, <2>5 DEF OwnOrBad, Correlated, BadAnswer
    <3>2. CASE m.ok
      BY <3>2, <2>4, <2>6, <2>7 DEF OwnOrBad, Correlated, BadAnswer
    <3> QED BY <3>1, <3>2
  <2> QED BY <2>8 DEF read, cut
<1> QED BY <1>1, <1>3, <1>4, <1>5

IsReply(bytes, id, r) == \E fs, body : ReplyOf(bytes, fs, id, body, r)

Shape == [candidates : Seq(Candidates), zenzaiUsed : BOOLEAN]

BodiesOf(r) == [i \in DOMAIN r.candidates |-> Concat(CandidateFields(r.candidates[i]))]

LEMMA BodiesSpell ==
  ASSUME NEW r \in Shape
  PROVE  /\ Spell(BodiesOf(r), r.candidates) /\ BodiesOf(r) \in Seq(Seq(Byte))
         /\ Len(BodiesOf(r)) = Len(r.candidates) /\ r.candidates \in Seq(Candidates)
         /\ \A i \in 1..Len(r.candidates) :
              r.candidates[i] \in Candidates /\ BodiesOf(r)[i] = Concat(CandidateFields(r.candidates[i]))
<1> DEFINE cs == r.candidates
           n == Len(cs)
           P == Seq(Byte)
           bodies == BodiesOf(r)
           C == Candidates
<1>1. cs \in Seq(C) /\ DOMAIN cs = 1..n /\ n \in Nat /\ \A i \in 1..n : cs[i] \in C
  BY DEF Shape
<1> HIDE DEF C
<1>2. DOMAIN bodies = 1..n /\ \A i \in 1..n : bodies[i] = Concat(CandidateFields(cs[i]))
  BY <1>1 DEF BodiesOf
<1>3. \A i \in 1..n : bodies[i] \in P
  BY <1>1, <1>2, CandidateIsRead DEF C
<1>4. bodies = [i \in 1..n |-> bodies[i]]
  BY <1>2 DEF BodiesOf
<1> HIDE DEF P, bodies
<1>5. bodies \in Seq(P) /\ Len(bodies) = n
  <2>1. n \in Nat /\ bodies \in [1..n -> P]
    BY <1>1, <1>3, <1>4
  <2> HIDE DEF n
  <2>2. \A f \in [1..n -> P] : f \in Seq(P) /\ Len(f) = n
    BY <2>1
  <2> QED BY <2>1, <2>2
<1>6. \A i \in 1..n : Len(bodies[i]) < Longs => ParseCandidate(bodies[i]) = Parsed(TRUE, cs[i])
  BY <1>1, <1>2, CandidateIsRead DEF C
<1> QED BY <1>1, <1>2, <1>5, <1>6 DEF Spell, P, C, bodies

LEMMA ResultIs ==
  ASSUME NEW r \in Shape
  PROVE  ResultFields(r) = ResultOf(BodiesOf(r), r.zenzaiUsed)
<1> DEFINE cs == r.candidates
           bodies == BodiesOf(r)
<1>1. DOMAIN bodies = DOMAIN cs /\ \A i \in DOMAIN cs : bodies[i] = Concat(CandidateFields(cs[i]))
  BY DEF BodiesOf
<1>2. [i \in DOMAIN cs |-> WriteMessage(1, Concat(CandidateFields(cs[i])))] = Messages(1, bodies)
  <2> HIDE DEF bodies, cs
  <2> QED BY <1>1 DEF Messages
<1> QED BY <1>2 DEF ResultFields, ResultOf

LEMMA AppendIs ==
  ASSUME NEW S, NEW a \in Seq(S), NEW z \in S
  PROVE  a \o <<z>> = Append(a, z)
OBVIOUS

LEMMA TwoAndOne ==
  ASSUME NEW x, NEW y, NEW z
  PROVE  <<x, y>> \o <<z>> = <<x, y, z>>
<1> DEFINE S == {x, y, z}
<1>1. x \in S /\ y \in S /\ z \in S
  OBVIOUS
<1> HIDE DEF S
<1>2. <<x, y>> \in Seq(S) /\ <<x, y, z>> = Append(<<x, y>>, z)
  BY <1>1
<1>3. \A a \in Seq(S) : a \o <<z>> = Append(a, z)
  BY <1>1, AppendIs
<1> QED BY <1>2, <1>3

LEMMA ReplyIs ==
  ASSUME NEW id, NEW r
  PROVE  ReplyFields(id, 0, r) = ReplyParts(id, Concat(ResultFields(r)))
<1> DEFINE a == WriteUInt32(1, id)
           c == WriteMessage(3, Concat(ResultFields(r)))
<1>1. WriteInt32(1, 0) = <<>>
  BY DEF WriteInt32
<1>2. ReplyFields(id, 0, r) = <<a, WriteMessage(2, <<>>)>> \o <<c>>
  BY <1>1 DEF ReplyFields
<1>3. ReplyParts(id, Concat(ResultFields(r))) = <<a, WriteMessage(2, <<>>), c>>
  BY DEF ReplyParts
<1> HIDE DEF a, c
<1>4. \A x, y, z : <<x, y>> \o <<z>> = <<x, y, z>>
  BY TwoAndOne
<1> QED BY <1>2, <1>3, <1>4

(* An envelope, with its body as long as it can be. *)
LEMMA EnvelopeIsRead ==
  ASSUME NEW id \in 0..(Ints - 1), NEW bodies, NEW cs, Spell(bodies, cs), NEW z \in BOOLEAN,
         Len(Concat(ReplyParts(id, Concat(ResultOf(bodies, z))))) < Longs
  PROVE  /\ Concat(ResultOf(bodies, z)) \in Seq(Byte)
         /\ Len(Concat(ResultOf(bodies, z))) < Longs
         /\ ParseConvertResponse(Concat(ResultOf(bodies, z))) =
              Parsed(TRUE, [candidates |-> cs, zenzaiUsed |-> z])
         /\ BearsAll(ReplyParts(id, Concat(ResultOf(bodies, z))), ReplyMarks(id, Concat(ResultOf(bodies, z))))
         /\ IsReply(Concat(ReplyParts(id, Concat(ResultOf(bodies, z)))), id,
                     [candidates |-> cs, zenzaiUsed |-> z])
<1> DEFINE body == Concat(ResultOf(bodies, z))
           bytes == Concat(ReplyParts(id, body))
           marks == ReplyMarks(id, body)
           r == [candidates |-> cs, zenzaiUsed |-> z]
<1>1. body \in Seq(Byte)
  BY ResultParts DEF Spell
<1>2. Len(body) < Longs
  <2>1. bytes \in Seq(Byte) /\ Len(body) < Len(bytes)
    BY <1>1, ReplyBears
  <2>2. Len(body) \in Nat /\ Len(bytes) \in Nat /\ Longs \in Nat /\ Len(bytes) < Longs
    BY <1>1, <2>1, WidthsAssumption
  <2> HIDE DEF body, bytes
  <2> QED BY <2>1, <2>2
<1>3. ParseConvertResponse(body) = Parsed(TRUE, r)
  BY <1>2, ResultIsRead
<1> HIDE DEF body
<1>4. BearsAll(ReplyParts(id, body), marks)
  BY <1>1, <1>2, ReplyBears
<1>5. Bears(bytes, Concat(marks))
  BY <1>4, BearsConcat
<1>6. ReplyMeans(Concat(marks), id, body)
  <2>1. /\ Values(Concat(marks), 1, Varint) = KeptInt(id)
        /\ Values(Concat(marks), 2, LengthDelimited) = << <<>> >>
        /\ Values(Concat(marks), 3, LengthDelimited) = <<body>>
    BY <1>1, ValuesOfReply
  <2> HIDE DEF marks
  <2>2. FirstOf(KeptInt(id)) = id
    BY FirstIs
  <2>3. id = 0 => KeptInt(id) = <<>>
    BY DEF KeptInt
  <2> QED BY <2>1, <2>2, <2>3 DEF ReplyMeans
<1>7. ReplyOf(bytes, Concat(marks), id, body, r)
  BY <1>3, <1>5, <1>6 DEF ReplyOf
<1>8. IsReply(bytes, id, r)
  <2> HIDE DEF bytes, marks, r
  <2> QED BY <1>7 DEF IsReply
<1> QED BY <1>1, <1>2, <1>3, <1>4, <1>8 DEF body

(* With a field more, after the id. *)
LEMMA NewerEnvelopeIsRead ==
  ASSUME NEW id \in 1..(Ints - 1), NEW body \in Seq(Byte), NEW r,
         ParseConvertResponse(body) = Parsed(TRUE, r),
         BearsAll(ReplyParts(id, body), ReplyMarks(id, body)),
         NEW u \in Unknown, NEW i \in 2..4
  PROVE  IsReply(With(ReplyParts(id, body), u, i), id, r)
<1> DEFINE parts == ReplyParts(id, body)
           marks == ReplyMarks(id, body)
           bytes == With(parts, u, i)
<1>1. PICK f : Alien(f) /\ Bears(u, <<f>>)
  BY UnknownIs
<1>2. Len(parts) = 3
  BY DEF ReplyParts
<1>3. TakesField(parts, marks, u, f, i)
  <2>1. i \in 1..(3 + 1)
    OBVIOUS
  <2> QED BY <1>1, <1>2, <2>1 DEF TakesField
<1> HIDE DEF parts
<1>4. PICK a, b : TakenField(parts, marks, u, f, i, a, b)
  BY <1>3, WithBears
<1>5. marks[1] = IntMarks(1, id)
  <2>1. id \in 0..(Ints - 1)
    BY WidthsAssumption
  <2> QED BY <2>1, ValuesOfReply
<1> HIDE DEF marks
<1>6. AfterId(id, body, a, b)
  <2>1. i > 1
    OBVIOUS
  <2>2. \E more \in Seq(Field) : a = marks[1] \o more
    BY <1>4, <2>1 DEF TakenField
  <2>3. a \in Seq(Field) /\ b \in Seq(Field) /\ Concat(marks) = a \o b
    BY <1>4 DEF TakenField
  <2> QED BY <2>2, <2>3, <1>5 DEF AfterId, marks
<1>7. ReplyMeans((a \o <<f>>) \o b, id, body)
  BY <1>1, <1>6, AlienIsNoReply
<1>8. Bears(bytes, (a \o <<f>>) \o b)
  BY <1>4 DEF TakenField
<1> HIDE DEF bytes
<1>9. ReplyOf(bytes, (a \o <<f>>) \o b, id, body, r)
  BY <1>7, <1>8 DEF ReplyOf
<1>10. IsReply(bytes, id, r)
  BY <1>9 DEF IsReply
<1> QED BY <1>10 DEF bytes, parts

LEMMA ShapeIs ==
  ASSUME NEW r \in Shape
  PROVE  r = [candidates |-> r.candidates, zenzaiUsed |-> r.zenzaiUsed] /\ r.zenzaiUsed \in BOOLEAN
BY DEF Shape

(* The body of the whole of an answer. *)
LEMMA BodyIsRead ==
  ASSUME NEW id \in 0..(Ints - 1), NEW r \in Shape, Len(Whole(id, r).bytes) < Longs
  PROVE  /\ Concat(ResultFields(r)) \in Seq(Byte) /\ Len(Concat(ResultFields(r))) < Longs
         /\ ParseConvertResponse(Concat(ResultFields(r))) = Parsed(TRUE, r)
         /\ BearsAll(ReplyParts(id, Concat(ResultFields(r))), ReplyMarks(id, Concat(ResultFields(r))))
         /\ ReplyFields(id, 0, r) = ReplyParts(id, Concat(ResultFields(r)))
         /\ IsReply(Whole(id, r).bytes, id, r)
<1>1. /\ Spell(BodiesOf(r), r.candidates) /\ r.zenzaiUsed \in BOOLEAN
      /\ r = [candidates |-> r.candidates, zenzaiUsed |-> r.zenzaiUsed]
  BY BodiesSpell, ShapeIs
<1>2. ReplyFields(id, 0, r) = ReplyParts(id, Concat(ResultFields(r)))
  BY ReplyIs
<1>3. Whole(id, r).bytes = Concat(ReplyParts(id, Concat(ResultFields(r))))
  BY <1>2 DEF Whole, Sent
<1>4. ResultFields(r) = ResultOf(BodiesOf(r), r.zenzaiUsed)
  BY ResultIs
<1> DEFINE z == r.zenzaiUsed
           cs == r.candidates
<1>5. /\ Concat(ResultOf(BodiesOf(r), z)) \in Seq(Byte)
      /\ Len(Concat(ResultOf(BodiesOf(r), z))) < Longs
      /\ ParseConvertResponse(Concat(ResultOf(BodiesOf(r), z))) =
           Parsed(TRUE, [candidates |-> cs, zenzaiUsed |-> z])
      /\ BearsAll(ReplyParts(id, Concat(ResultOf(BodiesOf(r), z))),
                  ReplyMarks(id, Concat(ResultOf(BodiesOf(r), z))))
      /\ IsReply(Concat(ReplyParts(id, Concat(ResultOf(BodiesOf(r), z)))), id,
                  [candidates |-> cs, zenzaiUsed |-> z])
  <2>1. Len(Concat(ReplyParts(id, Concat(ResultOf(BodiesOf(r), z))))) < Longs
    BY <1>3, <1>4
  <2>2. z \in BOOLEAN /\ Spell(BodiesOf(r), cs)
    BY <1>1
  <2> HIDE DEF z, cs
  <2> QED BY <2>1, <2>2, EnvelopeIsRead
<1> QED BY <1>1, <1>2, <1>3, <1>4, <1>5

LEMMA WithinCandidateSpells ==
  ASSUME NEW r \in Shape, Len(Concat(ResultFields(r))) < Longs, NEW u \in Unknown,
         NEW k \in DOMAIN r.candidates, NEW i \in Gaps(CandidateFields(r.candidates[k]))
  PROVE  /\ Spell([BodiesOf(r) EXCEPT ![k] = With(CandidateFields(r.candidates[k]), u, i)], r.candidates)
         /\ With(CandidateFields(r.candidates[k]), u, i) \in Seq(Byte)
<1> DEFINE cs == r.candidates
           n == Len(cs)
           P == Seq(Byte)
           bodies == BodiesOf(r)
           body == With(CandidateFields(cs[k]), u, i)
           newer == [bodies EXCEPT ![k] = body]
<1>1. /\ cs \in Seq(Candidates) /\ bodies \in Seq(P) /\ Len(bodies) = n /\ n \in Nat
      /\ DOMAIN cs = 1..n /\ DOMAIN bodies = 1..n
      /\ \A j \in 1..n : Len(bodies[j]) < Longs => ParseCandidate(bodies[j]) = Parsed(TRUE, cs[j])
      /\ \A j \in 1..n : cs[j] \in Candidates /\ bodies[j] = Concat(CandidateFields(cs[j]))
  <2>1. /\ cs \in Seq(Candidates) /\ bodies \in Seq(P) /\ Len(bodies) = n
        /\ \A j \in 1..n : cs[j] \in Candidates /\ bodies[j] = Concat(CandidateFields(cs[j]))
    BY BodiesSpell
  <2>2. Spell(bodies, cs)
    BY BodiesSpell
  <2> HIDE DEF bodies, cs, P
  <2>3. n \in Nat /\ DOMAIN cs = 1..n /\ DOMAIN bodies = 1..n
    BY <2>1
  <2>4. \A j \in 1..n : Len(bodies[j]) < Longs => ParseCandidate(bodies[j]) = Parsed(TRUE, cs[j])
    BY <2>1, <2>2 DEF Spell
  <2> QED BY <2>1, <2>3, <2>4
<1>2. k \in 1..n
  BY <1>1
<1>3. \A j \in 1..n : Len(bodies[j]) < Longs
  <2>1. r.zenzaiUsed \in BOOLEAN /\ Len(Concat(ResultOf(bodies, r.zenzaiUsed))) < Longs
    BY ResultIs, ShapeIs
  <2> HIDE DEF bodies
  <2> QED BY <1>1, <2>1, ResultParts
<1>4. body \in P /\ ParseCandidate(body) = Parsed(TRUE, cs[k])
  <2>1. Len(Concat(CandidateFields(cs[k]))) < Longs /\ cs[k] \in Candidates
    BY <1>1, <1>2, <1>3
  <2> QED BY <2>1, CandidateIsRead
<1> HIDE DEF bodies, body, P
<1>5. newer \in Seq(P) /\ Len(newer) = n /\ newer[k] = body /\ \A j \in 1..n : j # k => newer[j] = bodies[j]
  BY <1>1, <1>2, <1>4
<1>6. \A j \in 1..n : Len(newer[j]) < Longs => ParseCandidate(newer[j]) = Parsed(TRUE, cs[j])
  BY <1>1, <1>4, <1>5
<1> QED BY <1>1, <1>4, <1>5, <1>6 DEF Spell, P, bodies, body

LEMMA ExceptFront ==
  ASSUME NEW S, NEW a \in Seq(S), NEW b \in Seq(S), NEW k \in 1..Len(a), NEW x \in S
  PROVE  [a \o b EXCEPT ![k] = x] = [a EXCEPT ![k] = x] \o b
<1> DEFINE c == [a EXCEPT ![k] = x]
           both == a \o b
           left == [both EXCEPT ![k] = x]
           n == Len(a) + Len(b)
<1>1. Len(a) \in Nat /\ Len(b) \in Nat
  OBVIOUS
<1>2. c \in Seq(S) /\ Len(c) = Len(a) /\ \A i \in 1..Len(a) : c[i] = IF i = k THEN x ELSE a[i]
  OBVIOUS
<1>3. both \in Seq(S) /\ Len(both) = n /\ \A i \in 1..n : both[i] = IF i <= Len(a) THEN a[i] ELSE b[i - Len(a)]
  BY ConcatProperties
<1> HIDE DEF both
<1>4. left \in Seq(S) /\ Len(left) = n /\ \A i \in 1..n : left[i] = IF i = k THEN x ELSE both[i]
  BY <1>1, <1>3
<1> HIDE DEF c, left
<1>5. c \o b \in Seq(S) /\ Len(c \o b) = n /\ \A i \in 1..n : (c \o b)[i] = IF i <= Len(a) THEN c[i] ELSE b[i - Len(a)]
  <2>1. /\ c \o b \in Seq(S) /\ Len(c \o b) = Len(c) + Len(b)
        /\ \A i \in 1..(Len(c) + Len(b)) : (c \o b)[i] = IF i <= Len(c) THEN c[i] ELSE b[i - Len(c)]
    <3>1. c \in Seq(S)
      BY <1>2
    <3> QED BY <3>1, ConcatProperties
  <2>2. Len(c) = Len(a)
    BY <1>2
  <2> QED BY <2>1, <2>2, Zenon
<1> DEFINE right == c \o b
<1> HIDE DEF right
<1>6. right \in Seq(S) /\ Len(right) = n /\ \A i \in 1..n : right[i] = IF i <= Len(a) THEN c[i] ELSE b[i - Len(a)]
  BY <1>5 DEF right
<1>7. ASSUME NEW i \in 1..n PROVE left[i] = right[i]
  <2>1. CASE i <= Len(a)
    <3>1. i \in 1..Len(a) /\ right[i] = c[i] /\ both[i] = a[i]
      BY <2>1, <1>1, <1>3, <1>6
    <3>2. left[i] = IF i = k THEN x ELSE both[i]
      BY <1>4
    <3>3. c[i] = IF i = k THEN x ELSE a[i]
      BY <1>2, <3>1
    <3> QED BY <3>1, <3>2, <3>3, Zenon
  <2>2. CASE ~(i <= Len(a))
    <3>1. i # k
      BY <2>2, <1>1
    <3>2. left[i] = both[i]
      BY <1>4, <3>1
    <3>3. both[i] = b[i - Len(a)] /\ right[i] = b[i - Len(a)]
      BY <2>2, <1>3, <1>6
    <3> QED BY <3>2, <3>3, Zenon
  <2> QED BY <2>1, <2>2
<1>8. left = right
  BY <1>4, <1>6, <1>7, SeqEqual
<1> QED BY <1>8 DEF left, right, c, both

LEMMA NewerResultIs ==
  ASSUME NEW r \in Shape, NEW u, NEW k \in DOMAIN r.candidates, NEW i,
         With(CandidateFields(r.candidates[k]), u, i) \in Seq(Byte)
  PROVE  NewerResult(r, u, k, i) =
           Concat(ResultOf([BodiesOf(r) EXCEPT ![k] = With(CandidateFields(r.candidates[k]), u, i)],
                           r.zenzaiUsed))
<1> DEFINE bodies == BodiesOf(r)
           body == With(CandidateFields(r.candidates[k]), u, i)
           last == <<WriteBool(2, r.zenzaiUsed)>>
           newer == [bodies EXCEPT ![k] = body]
           n == Len(r.candidates)
           msgs == Messages(1, bodies)
           P == Seq(Byte)
<1>1. ResultFields(r) = msgs \o last
  BY ResultIs DEF ResultOf
<1>2. /\ bodies \in Seq(P) /\ n \in Nat /\ DOMAIN bodies = 1..n /\ k \in 1..n /\ Len(bodies) = n
  BY BodiesSpell
<1>3. /\ msgs \in Seq(P) /\ Len(msgs) = n /\ DOMAIN msgs = 1..n
      /\ msgs = [j \in 1..n |-> WriteMessage(1, bodies[j])]
  <2>1. 1 \in 1..9
    OBVIOUS
  <2>2. msgs \in Seq(P) /\ Len(msgs) = n
    BY <1>2, <2>1, MessagesBear
  <2>3. msgs = [j \in 1..n |-> WriteMessage(1, bodies[j])]
    BY <1>2 DEF Messages
  <2> HIDE DEF msgs
  <2> QED BY <2>2, <2>3
<1>4. Messages(1, newer) = [msgs EXCEPT ![k] = WriteMessage(1, body)]
  <2> HIDE DEF bodies, body
  <2>1. DOMAIN newer = 1..n /\ newer[k] = body /\ \A j \in 1..n : j # k => newer[j] = bodies[j]
    BY <1>2
  <2> HIDE DEF newer
  <2>2. Messages(1, newer) = [j \in 1..n |-> WriteMessage(1, newer[j])]
    BY <2>1 DEF Messages
  <2>3. msgs = [j \in 1..n |-> WriteMessage(1, bodies[j])]
    BY <1>3
  <2> HIDE DEF msgs
  <2> QED BY <1>2, <2>1, <2>2, <2>3
<1>5. last \in Seq(P) /\ Len(last) = 1
  <2>1. WriteBool(2, r.zenzaiUsed) \in P
    <3>1. 2 \in 1..9 /\ 0 \in 0..(Ints - 1) /\ 1 \in 0..(Ints - 1)
      BY WidthsAssumption
    <3>2. WriteUInt32(2, 0) \in P /\ WriteUInt32(2, 1) \in P
      BY <3>1, UInt32Is DEF Bears
    <3> QED BY <3>2 DEF WriteBool
  <2> HIDE DEF P
  <2> QED BY <2>1
<1>6. WriteMessage(1, body) \in P
  <2>1. 1 \in 1..9
    OBVIOUS
  <2> QED BY <2>1, MessageIsLonger
<1> DEFINE new == WriteMessage(1, body)
<1>7. [ResultFields(r) EXCEPT ![k] = new] = [msgs EXCEPT ![k] = new] \o last
  <2>1. new \in P
    BY <1>6
  <2> HIDE DEF msgs, last, new, P
  <2>2. k \in 1..Len(msgs)
    BY <1>2, <1>3
  <2>3. msgs \in Seq(P) /\ last \in Seq(P)
    BY <1>3, <1>5
  <2>4. [msgs \o last EXCEPT ![k] = new] = [msgs EXCEPT ![k] = new] \o last
    BY SMTT(40), <2>1, <2>2, <2>3, ExceptFront
  <2> QED BY <2>4, <1>1
<1>8. NewerResult(r, u, k, i) = Concat([ResultFields(r) EXCEPT ![k] = new])
  BY DEF NewerResult
<1>9. ResultOf(newer, r.zenzaiUsed) = Messages(1, newer) \o last
  BY DEF ResultOf
<1> HIDE DEF msgs, newer, last, body, bodies
<1> QED BY <1>4, <1>7, <1>8, <1>9 DEF newer, body, bodies

LEMMA SentIs ==
  ASSUME NEW bytes, NEW id, NEW r
  PROVE  /\ Sent(bytes, id, r).bytes = bytes /\ Sent(bytes, id, r).id = id /\ Sent(bytes, id, r).meant = r
         /\ Whole(id, r) = Sent(Whole(id, r).bytes, id, r)
BY DEF Sent, Whole

(* Whatever is sent, of those that may be. *)
LEMMA SentIsRead ==
  ASSUME NEW sent \in Replies
  PROVE  IsReply(sent.bytes, sent.id, sent.meant)
<1>1. \A s \in Replies : Len(s.bytes) < Longs
  BY RepliesAssumption
<1>2. Ids \subseteq 0..(Ints - 1) /\ NewerResults \subseteq Results /\ Results \subseteq Shape
  BY RepliesAssumption DEF Shape
<1>3. ASSUME NEW id \in Ids, NEW r \in Results
      PROVE  Len(Whole(id, r).bytes) < Longs /\ id \in 0..(Ints - 1) /\ r \in Shape
  <2>1. Whole(id, r) \in Replies
    BY <1>3 DEF Replies
  <2> QED BY <2>1, <1>1, <1>2
<1>4. ASSUME NEW id \in Ids, NEW r \in Results, sent = Whole(id, r)
      PROVE  IsReply(sent.bytes, sent.id, sent.meant)
  <2>1. IsReply(Whole(id, r).bytes, id, r)
    BY <1>3, BodyIsRead
  <2>2. Whole(id, r).id = id /\ Whole(id, r).meant = r
    BY DEF Whole, Sent
  <2> QED BY <2>1, <2>2, <1>4
<1>5. ASSUME NEW id \in Ids \ {0}, NEW r \in NewerResults, NEW u \in Unknown, sent \in Newer(id, r, u)
      PROVE  IsReply(sent.bytes, sent.id, sent.meant)
  <2> DEFINE outer == ReplyFields(id, 0, r)
             body == Concat(ResultFields(r))
  <2>0. id \in Ids /\ r \in Results
    BY <1>2
  <2>1. id \in 1..(Ints - 1) /\ id \in 0..(Ints - 1) /\ r \in Shape /\ Len(Whole(id, r).bytes) < Longs
    <3>1. id \in 0..(Ints - 1) /\ id # 0 /\ r \in Shape /\ Len(Whole(id, r).bytes) < Longs
      BY <2>0, <1>3
    <3> QED BY <3>1, WidthsAssumption
  <2>2. /\ body \in Seq(Byte) /\ Len(body) < Longs /\ ParseConvertResponse(body) = Parsed(TRUE, r)
        /\ BearsAll(ReplyParts(id, body), ReplyMarks(id, body)) /\ outer = ReplyParts(id, body)
    BY <2>1, BodyIsRead
  <2>3. Len(outer) = 3
    BY <2>2 DEF ReplyParts
  <2>4. \/ \E i \in Gaps(outer) \ {1} : sent = Sent(With(outer, u, i), id, r)
        \/ \E k \in DOMAIN r.candidates : \E i \in Gaps(CandidateFields(r.candidates[k])) :
             sent = Sent(Concat([outer EXCEPT ![3] = WriteMessage(3, NewerResult(r, u, k, i))]), id, r)
    BY <1>5 DEF Newer
  <2>5. ASSUME NEW i \in Gaps(outer) \ {1}, sent = Sent(With(outer, u, i), id, r)
        PROVE  IsReply(sent.bytes, sent.id, sent.meant)
    <3> HIDE DEF outer, body
    <3>1. i \in 2..4
      <4>1. i \in 1..(Len(outer) + 1) /\ i # 1
        BY DEF Gaps
      <4> QED BY <4>1, <2>3
    <3>2. IsReply(With(ReplyParts(id, body), u, i), id, r)
      BY <2>1, <2>2, <3>1, NewerEnvelopeIsRead
    <3> QED BY <3>2, <2>2, <2>5, SentIs
  <2>6. ASSUME NEW k \in DOMAIN r.candidates, NEW i \in Gaps(CandidateFields(r.candidates[k])),
               sent = Sent(Concat([outer EXCEPT ![3] = WriteMessage(3, NewerResult(r, u, k, i))]), id, r)
        PROVE  IsReply(sent.bytes, sent.id, sent.meant)
    <3> DEFINE bodies == [BodiesOf(r) EXCEPT ![k] = With(CandidateFields(r.candidates[k]), u, i)]
               cs == r.candidates
               z == r.zenzaiUsed
               newer == Concat(ResultOf(bodies, z))
    <3>1. /\ Spell(bodies, cs) /\ With(CandidateFields(r.candidates[k]), u, i) \in Seq(Byte)
      BY <2>1, <2>2, WithinCandidateSpells
    <3>2. NewerResult(r, u, k, i) = newer
      BY <2>1, <3>1, NewerResultIs
    <3>3. z \in BOOLEAN /\ r = [candidates |-> cs, zenzaiUsed |-> z]
      BY <2>1, ShapeIs
    <3> HIDE DEF newer
    <3>4. [outer EXCEPT ![3] = WriteMessage(3, newer)] = ReplyParts(id, newer)
      BY <2>2 DEF ReplyParts
    <3> HIDE DEF outer, body, bodies, cs, z
    <3>5. sent = Sent(Concat(ReplyParts(id, newer)), id, r)
      BY <2>6, <3>2, <3>4
    <3>6. Len(Concat(ReplyParts(id, newer))) < Longs
      BY <3>5, <1>1, SentIs
    <3>7. IsReply(Concat(ReplyParts(id, newer)), id, [candidates |-> cs, zenzaiUsed |-> z])
      BY <2>1, <3>1, <3>3, <3>6, EnvelopeIsRead DEF newer
    <3> QED BY <3>3, <3>5, <3>7, SentIs
  <2> QED BY <2>4, <2>5, <2>6
<1>6. \/ \E id \in Ids, r \in Results : sent = Whole(id, r)
      \/ \E id \in Ids \ {0}, r \in NewerResults, u \in Unknown : sent \in Newer(id, r, u)
  BY DEF Replies
<1> QED BY <1>4, <1>5, <1>6

(* What came is no more than what was sent. *)
WireInv ==
  \/ arrived = Nothing
  \/ /\ arrived.sent \in Replies /\ arrived.size \in 0..Len(arrived.sent.bytes)
     /\ arrived = [sent |-> arrived.sent, size |-> arrived.size]

LEMMA NothingIs ==
  /\ Nothing.sent.bytes \in Seq(Byte) /\ Nothing.size = 0 /\ Len(Nothing.sent.bytes) # 0
<1> DEFINE r == [candidates |-> <<>>, zenzaiUsed |-> FALSE]
           body == Concat(ResultFields(r))
           bytes == Concat(ReplyParts(0, body))
<1>1. r \in Shape
  <2> DEFINE C == Candidates
  <2>1. <<>> \in Seq(C)
    OBVIOUS
  <2> HIDE DEF C
  <2> QED BY <2>1 DEF Shape, C
<1>2. Nothing.size = 0 /\ Nothing.sent.bytes = Whole(0, r).bytes
  BY DEF Nothing
<1> HIDE DEF r
<1>3. Nothing.sent.bytes = bytes
  BY <1>2, ReplyIs DEF Whole, Sent
<1>4. body \in Seq(Byte)
  <2>1. BodiesOf(r) \in Seq(Seq(Byte)) /\ r.zenzaiUsed \in BOOLEAN /\ ResultFields(r) = ResultOf(BodiesOf(r), r.zenzaiUsed)
    BY <1>1, BodiesSpell, ShapeIs, ResultIs
  <2> QED BY <2>1, ResultParts
<1> HIDE DEF body
<1>5. bytes \in Seq(Byte) /\ Len(body) < Len(bytes)
  <2>1. 0 \in 0..(Ints - 1)
    BY WidthsAssumption
  <2> QED BY <1>4, <2>1, ReplyBears
<1> HIDE DEF bytes
<1>6. Len(body) \in Nat /\ Len(bytes) \in Nat
  BY <1>4, <1>5
<1> QED BY <1>2, <1>3, <1>5, <1>6

LEMMA SentBytes ==
  ASSUME NEW sent \in Replies
  PROVE  sent.bytes \in Seq(Byte) /\ Len(sent.bytes) \in Nat
<1>1. PICK fs, body : ReplyOf(sent.bytes, fs, sent.id, body, sent.meant)
  BY SentIsRead DEF IsReply
<1>2. sent.bytes \in Seq(Byte)
  BY <1>1, ReplyIsRead
<1> QED BY <1>2

LEMMA WireStarts == WireInit => WireInv
BY DEF WireInit, WireInv

LEMMA WireSteps == WireInv /\ [WireStep]_arrived => WireInv'
<1> SUFFICES ASSUME WireInv, [WireStep]_arrived PROVE WireInv'
  OBVIOUS
<1>1. CASE Answer
  <2>1. PICK sent \in Replies : arrived' = [sent |-> sent, size |-> Len(sent.bytes)]
    BY <1>1 DEF Answer
  <2>2. Len(sent.bytes) \in Nat
    BY SentBytes
  <2>3. arrived'.sent = sent /\ arrived'.size = Len(sent.bytes)
    BY <2>1
  <2>4. Len(sent.bytes) \in 0..Len(sent.bytes)
    BY <2>2
  <2>5. arrived' = [sent |-> arrived'.sent, size |-> arrived'.size]
    BY <2>1, <2>3
  <2>6. arrived'.sent \in Replies /\ arrived'.size \in 0..Len(arrived'.sent.bytes)
    BY <2>3, <2>4
  <2> QED BY <2>5, <2>6 DEF WireInv
<1>2. CASE CutShort
  <2>1. arrived # Nothing
    BY <1>2, NothingIs DEF CutShort
  <2>2. arrived.sent \in Replies /\ arrived = [sent |-> arrived.sent, size |-> arrived.size]
    BY <2>1 DEF WireInv
  <2>3. PICK n \in 0..(Len(arrived.sent.bytes) - 1) : arrived' = [arrived EXCEPT !.size = n]
    BY <1>2 DEF CutShort
  <2>4. arrived' = [sent |-> arrived.sent, size |-> n]
    BY <2>2, <2>3
  <2>5. Len(arrived.sent.bytes) \in Nat
    BY <2>2, SentBytes
  <2>6. arrived'.sent = arrived.sent /\ arrived'.size = n
    BY <2>4
  <2>7. n \in 0..Len(arrived.sent.bytes)
    BY <2>5
  <2>8. arrived' = [sent |-> arrived'.sent, size |-> arrived'.size]
    BY <2>4, <2>6
  <2> QED BY <2>2, <2>6, <2>7, <2>8 DEF WireInv
<1>3. CASE Exchanged
  BY <1>3 DEF Exchanged, WireInv, Nothing
<1>4. CASE UNCHANGED arrived
  BY <1>4 DEF WireInv, Nothing
<1> QED BY <1>1, <1>2, <1>3, <1>4 DEF WireStep

(* What was sent is what is read, and no part of it is taken for another.  *)
LEMMA WireReads == WireInv => WireTypeOK /\ WireIsRead
<1> SUFFICES ASSUME WireInv PROVE WireTypeOK /\ WireIsRead
  OBVIOUS
<1>1. WireTypeOK
  <2>1. CASE arrived = Nothing
    BY <2>1, NothingIs DEF WireTypeOK
  <2>2. CASE arrived # Nothing
    BY <2>2, SentBytes DEF WireInv, WireTypeOK
  <2> QED BY <2>1, <2>2
<1>2. ASSUME arrived # Nothing
      PROVE  /\ arrived.size = Len(arrived.sent.bytes) =>
                  Correlated(Reading, arrived.sent.id) =
                    IF arrived.sent.id = 0 THEN BadAnswer ELSE Success(arrived.sent.meant)
             /\ \A q : OwnOrBad(Reading, q, arrived.sent.id, arrived.sent.meant)
  <2> DEFINE sent == arrived.sent
             n == arrived.size
             bytes == sent.bytes
             r == sent.meant
             came == SubSeq(bytes, 1, n)
  <2>1. sent \in Replies /\ n \in 0..Len(bytes)
    BY <1>2 DEF WireInv
  <2>2. came \in UNION {UpTo(s.bytes) : s \in Replies}
    <3>1. came \in UpTo(bytes)
      BY <2>1 DEF UpTo
    <3> HIDE DEF came
    <3> QED BY <2>1, <3>1
  <2>3. Reading = Read(came)
    BY <2>2 DEF Reading, Readings
  <2>4. PICK fs, body : ReplyOf(bytes, fs, sent.id, body, r)
    BY <2>1, SentIsRead DEF IsReply
  <2>5. /\ bytes \in Seq(Byte)
        /\ Correlated(Read(bytes), sent.id) = IF sent.id = 0 THEN BadAnswer ELSE Success(r)
        /\ \A q : OwnOrBad(Read(bytes), q, sent.id, r)
        /\ \A k \in Nat : k < Len(bytes) =>
             \A q : OwnOrBad(Read(SubSeq(bytes, 1, k)), q, sent.id, r)
    BY <2>4, ReplyIsRead
  <2>6. Len(bytes) \in Nat /\ n \in Nat /\ (n = Len(bytes) \/ n < Len(bytes))
    BY <2>1, <2>5
  <2>7. SubSeq(bytes, 1, Len(bytes)) = bytes
    BY <2>5, Joined
  <2>8. n = Len(bytes) => Reading = Read(bytes)
    BY <2>3, <2>7
  <2>9. n < Len(bytes) => \A q : OwnOrBad(Reading, q, sent.id, r)
    BY <2>3, <2>5, <2>6
  <2> HIDE DEF sent, n, bytes, r, came
  <2>10. \A q : OwnOrBad(Reading, q, sent.id, r)
    BY <2>5, <2>6, <2>8, <2>9
  <2>11. n = Len(bytes) => Correlated(Reading, sent.id) = IF sent.id = 0 THEN BadAnswer ELSE Success(r)
    BY <2>5, <2>8
  <2> QED BY <2>10, <2>11 DEF sent, n, bytes, r
<1>3. WholeIsRead
  BY <1>2 DEF WholeIsRead, BadAnswer, Success
<1>4. CutIsBad
  BY <1>2 DEF CutIsBad, OwnOrBad, BadAnswer, Success
<1> QED BY <1>1, <1>3, <1>4 DEF WireIsRead

==============================================================================
