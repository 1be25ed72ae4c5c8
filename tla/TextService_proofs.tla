------------------------- MODULE TextService_proofs --------------------------
(***************************************************************************)
(* Theorems about TextService, for every set of hosts and every number of  *)
(* keys: which keys are taken and given back, what is learned, what is     *)
(* shown and what is chosen from, that no host is refused a key it may use,*)
(* the types, and that it implements Preedit.                              *)
(*                                                                         *)
(* The decision about a key reads its own tables only (Decided,            *)
(* DecisionIs), in the situations the service can be in (UsedSituations).  *)
(*                                                                         *)
(* Types come first, without any invariant: every handler keeps the type of*)
(* ts on whatever it is run (SessionTypes), so that the sequences of the   *)
(* texts can be reasoned about everywhere (TInv).  Then one invariant,     *)
(* Good, holds of ts between sessions, and every handler keeps it whatever *)
(* the environment grants (SessionGood).  Inside a handler only a part of  *)
(* it, Loose, holds: the buffer is ahead of the composition or behind it   *)
(* until the handler ends.  Hosts that are neither calm nor prompt have    *)
(* nothing but Loose; with those that are (Orderly) buffer and composition *)
(* stay in step.  There what a session does to the text and the document is*)
(* one of a few things (Handled, Spelled): they keep the characters in     *)
(* order (RInv) and are the steps of Preedit; and with prompt hosts every  *)
(* session is careful and keeps every key (PInv).                          *)
(***************************************************************************)
EXTENDS TextService, SequenceTheorems, TLAPS

-----------------------------------------------------------------------------
(* The keys that are taken.  The code's tables are sequences of tests: what*)
(* each makes of a key in the modes the service is in (Decided), what is   *)
(* then done with the key (DecisionIs), and that this is sound.            *)

LEMMA JoinIs ==
  ASSUME NEW f, NEW g
  PROVE  /\ DOMAIN (f ++ g) = DOMAIN f \union DOMAIN g
         /\ \A x \in DOMAIN f : (f ++ g)[x] = f[x]
         /\ \A x \in DOMAIN g : x \notin DOMAIN f => (f ++ g)[x] = g[x]
BY DEF ++

\* The keys that move, and those that end or change what is on screen.
LEMMA ComposingTableIs ==
  /\ DOMAIN ComposingTable = Arrows \union {"enter", "escape", "back", "space"}
  /\ \A k \in Arrows : ComposingTable[k] = Eat("composing", MoveFn[k])
  /\ ComposingTable["enter"]  = Eat("composing", "finalizeCandidateList")
  /\ ComposingTable["escape"] = Eat("composing", "cancel")
  /\ ComposingTable["back"]   = Eat("composing", "backspace")
  /\ ComposingTable["space"]  = Eat("composing", "convert")
<1> DEFINE m == Moves("composing", Arrows)
<1> DEFINE r == [enter  |-> Eat("composing", "finalizeCandidateList"),
                 escape |-> Eat("composing", "cancel"),
                 back   |-> Eat("composing", "backspace"),
                 space  |-> Eat("composing", "convert")]
<1>1. DOMAIN m = Arrows /\ \A k \in Arrows : m[k] = Eat("composing", MoveFn[k])
  BY DEF Moves
<1>2. /\ DOMAIN r = {"enter", "escape", "back", "space"}
      /\ r["enter"]  = Eat("composing", "finalizeCandidateList")
      /\ r["escape"] = Eat("composing", "cancel")
      /\ r["back"]   = Eat("composing", "backspace")
      /\ r["space"]  = Eat("composing", "convert")
  OBVIOUS
<1>3. Arrows \cap {"enter", "escape", "back", "space"} = {}
  BY DEF Arrows, Vertical
<1>4. ComposingTable = m ++ r
  BY DEF ComposingTable
<1> HIDE DEF m, r
<1> DEFINE t == m ++ r
<1>5. /\ DOMAIN t = DOMAIN m \union DOMAIN r
      /\ \A x \in DOMAIN m : t[x] = m[x]
      /\ \A x \in DOMAIN r : x \notin DOMAIN m => t[x] = r[x]
  BY JoinIs
<1>0. t = ComposingTable
  BY <1>4
<1> HIDE DEF t
<1>6. \A x \in {"enter", "escape", "back", "space"} : x \in DOMAIN r /\ x \notin DOMAIN m
  BY <1>1, <1>2, <1>3
<1>7. \A x \in {"enter", "escape", "back", "space"} : ComposingTable[x] = r[x]
  BY <1>0, <1>5, <1>6
<1>8. DOMAIN ComposingTable = Arrows \union {"enter", "escape", "back", "space"}
  BY <1>0, <1>1, <1>2, <1>5
<1>9. \A k \in Arrows : ComposingTable[k] = Eat("composing", MoveFn[k])
  BY <1>0, <1>1, <1>5
<1> QED BY <1>2, <1>7, <1>8, <1>9

LEMMA CandidateTableIs ==
  /\ DOMAIN CandidateTable = Vertical \union {"enter", "escape", "back", "space"}
  /\ \A k \in Vertical : CandidateTable[k] = Eat("candidate", MoveFn[k])
  /\ CandidateTable["enter"]  = Eat("candidate", "finalizeCandidateList")
  /\ CandidateTable["escape"] = Eat("candidate", "cancel")
  /\ CandidateTable["back"]   = Eat("candidate", "cancel")
  /\ CandidateTable["space"]  = Eat("candidate", "convert")
<1> DEFINE m == Moves("candidate", Vertical)
<1> DEFINE r == [enter  |-> Eat("candidate", "finalizeCandidateList"),
                 escape |-> Eat("candidate", "cancel"),
                 space  |-> Eat("candidate", "convert")]
<1> DEFINE b == [back |-> Eat("candidate", "cancel")]
<1>1. DOMAIN m = Vertical /\ \A k \in Vertical : m[k] = Eat("candidate", MoveFn[k])
  BY DEF Moves
<1>2. /\ DOMAIN r = {"enter", "escape", "space"}
      /\ r["enter"]  = Eat("candidate", "finalizeCandidateList")
      /\ r["escape"] = Eat("candidate", "cancel")
      /\ r["space"]  = Eat("candidate", "convert")
  OBVIOUS
<1>3. DOMAIN b = {"back"} /\ b["back"] = Eat("candidate", "cancel")
  OBVIOUS
<1>4. Vertical \cap {"enter", "escape", "back", "space"} = {}
  BY DEF Vertical
<1>5. CandidateTable = b ++ (m ++ r)
  BY DEF CandidateTable, ListTable
<1> HIDE DEF m, r, b
<1> DEFINE l == m ++ r
<1>6. /\ DOMAIN l = DOMAIN m \union DOMAIN r
      /\ \A x \in DOMAIN m : l[x] = m[x]
      /\ \A x \in DOMAIN r : x \notin DOMAIN m => l[x] = r[x]
  BY JoinIs
<1> DEFINE t == b ++ l
<1>0. t = CandidateTable
  BY <1>5
<1> HIDE DEF l
<1>7. /\ DOMAIN t = DOMAIN b \union DOMAIN l
      /\ \A x \in DOMAIN b : t[x] = b[x]
      /\ \A x \in DOMAIN l : x \notin DOMAIN b => t[x] = l[x]
  BY JoinIs
<1> HIDE DEF t
<1>8. \A x \in {"enter", "escape", "space"} :
        x \in DOMAIN r /\ x \notin DOMAIN m /\ x \in DOMAIN l /\ x \notin DOMAIN b
  BY <1>1, <1>2, <1>3, <1>4, <1>6
<1>9. \A x \in {"enter", "escape", "space"} : CandidateTable[x] = r[x]
  BY <1>0, <1>6, <1>7, <1>8
<1>10. \A k \in Vertical : k \in DOMAIN m /\ k \in DOMAIN l /\ k \notin DOMAIN b
  BY <1>1, <1>3, <1>4, <1>6
<1>11. \A k \in Vertical : CandidateTable[k] = Eat("candidate", MoveFn[k])
  BY <1>0, <1>1, <1>6, <1>7, <1>10
<1>12. DOMAIN CandidateTable = Vertical \union {"enter", "escape", "back", "space"}
  BY <1>0, <1>1, <1>2, <1>3, <1>6, <1>7
<1>13. CandidateTable["back"] = Eat("candidate", "cancel")
  BY <1>0, <1>3, <1>7
<1> QED BY <1>2, <1>9, <1>11, <1>12, <1>13

\* The virtual key of a key is one of the keys.
LEMMA VKeyIs ==
  ASSUME NEW k \in Keys
  PROVE  LET v == VKeyFromVKPacketAndWchar(k)
         IN /\ v = IF k = "packetLetter" THEN "letter"
                   ELSE IF k = "packetDigit" THEN "digit"
                   ELSE IF k = "packetNext" THEN "next"
                   ELSE IF k = "packetPrior" THEN "prior" ELSE k
            /\ v \in Keys
<1> DEFINE ours == [packetLetter |-> "letter", packetDigit |-> "digit",
                    packetNext |-> "next", packetPrior |-> "prior"]
<1>1. /\ DOMAIN ours = {"packetLetter", "packetDigit", "packetNext", "packetPrior"}
      /\ ours["packetLetter"] = "letter" /\ ours["packetDigit"] = "digit"
      /\ ours["packetNext"] = "next" /\ ours["packetPrior"] = "prior"
  OBVIOUS
<1>2. VKeyFromVKPacketAndWchar(k) = IF k \in DOMAIN ours THEN ours[k] ELSE k
  BY DEF VKeyFromVKPacketAndWchar
<1> HIDE DEF ours
<1>3. {"letter", "digit", "next", "prior"} \subseteq Keys
  BY DEF Keys, Letters, Digits, Marks, Wild, Vertical, Arrows, Others, TouchKeys
<1> QED BY <1>1, <1>2, <1>3

\* What settles the text, and then goes to the application.
Settles(k) ==
  IF k \in Keys \ (Silent \union Keystrokes) THEN Pass("invoke", "finalizeTextStore") ELSE NotOurs

LEMMA NeedIs ==
  ASSUME NEW k \in Keys, NEW composing \in BOOLEAN, NEW mode, NEW buffered \in BOOLEAN
  PROVE  LET v == VKeyFromVKPacketAndWchar(k)
             i == InputTable(mode, buffered)
             s == SystemTable(composing, mode)
             n == IsKeystrokeRange(mode)
             d == IsVirtualKeyNeed(k, composing, mode, buffered)
         IN /\ v \in DOMAIN i => d = i[v]
            /\ v \notin DOMAIN i /\ v \in DOMAIN s => d = s[v]
            /\ v \notin DOMAIN i /\ v \notin DOMAIN s /\ v \in DOMAIN n => d = n[v]
            /\ v \notin DOMAIN i /\ v \notin DOMAIN s /\ v \notin DOMAIN n => d = Settles(k)
<1> DEFINE v == VKeyFromVKPacketAndWchar(k)
<1> DEFINE i == InputTable(mode, buffered)
<1> DEFINE s == SystemTable(composing, mode)
<1> DEFINE n == IsKeystrokeRange(mode)
<1> DEFINE settle == To(Keys \ (Silent \union Keystrokes), Pass("invoke", "finalizeTextStore"))
<1> DEFINE table == i ++ s ++ n
<1>1. IsVirtualKeyNeed(k, composing, mode, buffered) =
        IF v \in DOMAIN table THEN table[v] ELSE Look(settle, k)
  BY DEF IsVirtualKeyNeed
<1>2. Look(settle, k) = Settles(k)
  BY DEF Look, To, Settles
<1> HIDE DEF v, i, s, n, settle
<1>3. /\ DOMAIN (i ++ s) = DOMAIN i \union DOMAIN s
      /\ \A x \in DOMAIN i : (i ++ s)[x] = i[x]
      /\ \A x \in DOMAIN s : x \notin DOMAIN i => (i ++ s)[x] = s[x]
  BY JoinIs
<1>4. /\ DOMAIN table = DOMAIN (i ++ s) \union DOMAIN n
      /\ \A x \in DOMAIN (i ++ s) : table[x] = (i ++ s)[x]
      /\ \A x \in DOMAIN n : x \notin DOMAIN (i ++ s) => table[x] = n[x]
  BY JoinIs
<1> HIDE DEF table
<1>5. /\ v \in DOMAIN i => IsVirtualKeyNeed(k, composing, mode, buffered) = i[v]
      /\ v \notin DOMAIN i /\ v \in DOMAIN s => IsVirtualKeyNeed(k, composing, mode, buffered) = s[v]
      /\ v \notin DOMAIN i /\ v \notin DOMAIN s /\ v \in DOMAIN n
           => IsVirtualKeyNeed(k, composing, mode, buffered) = n[v]
      /\ v \notin DOMAIN i /\ v \notin DOMAIN s /\ v \notin DOMAIN n
           => IsVirtualKeyNeed(k, composing, mode, buffered) = Settles(k)
  BY <1>1, <1>2, <1>3, <1>4
<1> QED BY <1>5 DEF v, i, s, n

\* The modes the text service is in: there are no phrases, and no lists that
\* grow with the text.
UsedModes == {"none", "original"}

Enders == {"enter", "escape", "back", "space"}

InputKeys(mode, buffered) ==
  IF mode = "none" /\ buffered THEN Keystrokes \union Wild ELSE Keystrokes

SystemKeys(composing, mode) ==
  IF mode = "original" THEN Vertical \union Enders
  ELSE IF composing THEN Arrows \union Enders ELSE {}

NumberKeys(mode) == IF mode = "original" THEN Digits ELSE {}

\* What the tables know in these modes.
LEMMA TablesAre ==
  ASSUME NEW mode \in UsedModes, NEW composing \in BOOLEAN, NEW buffered \in BOOLEAN
  PROVE  LET i == InputTable(mode, buffered)
             s == SystemTable(composing, mode)
             n == IsKeystrokeRange(mode)
         IN /\ DOMAIN i = InputKeys(mode, buffered)
            /\ \A v \in DOMAIN i :
                 i[v] = IF mode = "none" THEN Eat("composing", "input")
                        ELSE Eat("candidate", "finalizeCandidateListAndInput")
            /\ DOMAIN s = SystemKeys(composing, mode)
            /\ mode = "none" /\ composing => s = ComposingTable
            /\ mode = "original" => s = CandidateTable
            /\ DOMAIN n = NumberKeys(mode)
            /\ \A v \in DOMAIN n : n[v] = Eat("candidate", "selectByNumber")
<1>1. CASE mode = "none"
  <2>1. InputTable(mode, buffered) = To(InputKeys(mode, buffered), Eat("composing", "input"))
    BY <1>1 DEF InputTable, InputKeys
  <2>2. SystemTable(composing, mode) = IF composing THEN ComposingTable ELSE To({}, NotOurs)
    BY <1>1 DEF SystemTable
  <2>3. IsKeystrokeRange(mode) = To({}, NotOurs)
    BY <1>1 DEF IsKeystrokeRange
  <2>4. DOMAIN To({}, NotOurs) = {}
    BY DEF To
  <2>5. /\ DOMAIN To(InputKeys(mode, buffered), Eat("composing", "input")) = InputKeys(mode, buffered)
        /\ \A v \in InputKeys(mode, buffered) :
             To(InputKeys(mode, buffered), Eat("composing", "input"))[v] = Eat("composing", "input")
    BY DEF To
  <2> QED BY <1>1, <2>1, <2>2, <2>3, <2>4, <2>5, ComposingTableIs DEF SystemKeys, NumberKeys, Enders
<1>2. CASE mode = "original"
  <2>1. InputTable(mode, buffered) =
          To(InputKeys(mode, buffered), Eat("candidate", "finalizeCandidateListAndInput"))
    BY <1>2 DEF InputTable, InputKeys
  <2>2. SystemTable(composing, mode) = CandidateTable
    BY <1>2 DEF SystemTable
  <2>3. IsKeystrokeRange(mode) = To(Digits, Eat("candidate", "selectByNumber"))
    BY <1>2 DEF IsKeystrokeRange
  <2>4. ASSUME NEW keys, NEW d
        PROVE  DOMAIN To(keys, d) = keys /\ \A v \in keys : To(keys, d)[v] = d
    BY DEF To
  <2> QED BY <1>2, <2>1, <2>2, <2>3, <2>4, CandidateTableIs DEF SystemKeys, NumberKeys, Enders
<1> QED BY <1>1, <1>2 DEF UsedModes

\* What IsKeyEaten decides of a key: which handler and when.
Decided(k, mode, composing, buffered, d) ==
  LET v == VKeyFromVKPacketAndWchar(k)
  IN \/ /\ v \in InputKeys(mode, buffered)
        /\ d = IF mode = "none" THEN Eat("composing", "input")
               ELSE Eat("candidate", "finalizeCandidateListAndInput")
     \/ /\ v \notin InputKeys(mode, buffered) /\ v \in SystemKeys(composing, mode)
        /\ \/ v \in Arrows /\ d = Eat(IF mode = "none" THEN "composing" ELSE "candidate", MoveFn[v])
           \/ v = "enter" /\ d = Eat(IF mode = "none" THEN "composing" ELSE "candidate", "finalizeCandidateList")
           \/ v = "escape" /\ d = Eat(IF mode = "none" THEN "composing" ELSE "candidate", "cancel")
           \/ v = "back" /\ d = IF mode = "none" THEN Eat("composing", "backspace") ELSE Eat("candidate", "cancel")
           \/ v = "space" /\ d = Eat(IF mode = "none" THEN "composing" ELSE "candidate", "convert")
     \/ /\ v \notin InputKeys(mode, buffered) /\ v \notin SystemKeys(composing, mode)
        /\ v \in NumberKeys(mode) /\ d = Eat("candidate", "selectByNumber")
     \/ /\ v \notin InputKeys(mode, buffered) /\ v \notin SystemKeys(composing, mode)
        /\ v \notin NumberKeys(mode) /\ d = Settles(k)

LEMMA NeedIsDecided ==
  ASSUME NEW k \in Keys, NEW mode \in UsedModes, NEW composing \in BOOLEAN, NEW buffered \in BOOLEAN
  PROVE  Decided(k, mode, composing, buffered, IsVirtualKeyNeed(k, composing, mode, buffered))
<1> DEFINE v == VKeyFromVKPacketAndWchar(k)
<1> DEFINE i == InputTable(mode, buffered)
<1> DEFINE s == SystemTable(composing, mode)
<1> DEFINE n == IsKeystrokeRange(mode)
<1> DEFINE d == IsVirtualKeyNeed(k, composing, mode, buffered)
<1>1. /\ v \in DOMAIN i => d = i[v]
      /\ v \notin DOMAIN i /\ v \in DOMAIN s => d = s[v]
      /\ v \notin DOMAIN i /\ v \notin DOMAIN s /\ v \in DOMAIN n => d = n[v]
      /\ v \notin DOMAIN i /\ v \notin DOMAIN s /\ v \notin DOMAIN n => d = Settles(k)
  BY NeedIs
<1>2. /\ DOMAIN i = InputKeys(mode, buffered)
      /\ \A x \in DOMAIN i :
           i[x] = IF mode = "none" THEN Eat("composing", "input")
                  ELSE Eat("candidate", "finalizeCandidateListAndInput")
      /\ DOMAIN s = SystemKeys(composing, mode)
      /\ mode = "none" /\ composing => s = ComposingTable
      /\ mode = "original" => s = CandidateTable
      /\ DOMAIN n = NumberKeys(mode)
      /\ \A x \in DOMAIN n : n[x] = Eat("candidate", "selectByNumber")
  BY TablesAre
<1> HIDE DEF v, i, s, n, d
<1>3. CASE v \in DOMAIN i
  BY <1>1, <1>2, <1>3 DEF Decided, v, d
<1>4. CASE v \notin DOMAIN i /\ v \in DOMAIN s
  <2>1. d = s[v]
    BY <1>1, <1>4
  <2>2. CASE mode = "none"
    <3>1. s = ComposingTable /\ v \in Arrows \union Enders
      BY <1>2, <1>4, <2>2 DEF SystemKeys
    <3> QED BY <1>2, <1>4, <2>1, <2>2, <3>1, ComposingTableIs DEF Decided, Enders, v, d
  <2>3. CASE mode = "original"
    <3>1. s = CandidateTable /\ v \in Vertical \union Enders
      BY <1>2, <1>4, <2>3 DEF SystemKeys
    <3>2. Vertical \subseteq Arrows
      BY DEF Arrows
    <3> QED BY <1>2, <1>4, <2>1, <2>3, <3>1, <3>2, CandidateTableIs DEF Decided, Enders, v, d
  <2> QED BY <2>2, <2>3 DEF UsedModes
<1>5. CASE v \notin DOMAIN i /\ v \notin DOMAIN s
  BY <1>1, <1>2, <1>5 DEF Decided, v, d
<1> QED BY <1>3, <1>4, <1>5

UsedSituations == {at \in Situations : at.mode \in UsedModes}

\* A decision says nothing of the kind for what is left to the application.
LEMMA SettlesIs ==
  ASSUME NEW k
  PROVE  /\ ~ Settles(k).eaten
         /\ Settles(k).cat \in {"invoke", "none"} /\ Settles(k).fn \in {"finalizeTextStore", "none"}
         /\ Settles(k).cat = "invoke" <=> Settles(k).fn = "finalizeTextStore"
BY DEF Settles, Pass, NotOurs

LEMMA EatIs == ASSUME NEW cat, NEW fn
               PROVE Eat(cat, fn).eaten /\ Eat(cat, fn).cat = cat /\ Eat(cat, fn).fn = fn
BY DEF Eat

\* Need, then widened.
LEMMA TakenIs ==
  ASSUME NEW k \in Keys, NEW at \in UsedSituations
  PROVE  LET need == IsVirtualKeyNeed(k, at.composing, at.mode, at.buffered)
             d == IsKeyEaten(k, at)
         IN /\ at.disabled \/ ~ at.open =>
                 d.cat = "none" /\ d.fn = "none" /\ (d.eaten => k \in TouchKeys)
            /\ ~ at.disabled /\ at.open =>
                 /\ need.eaten => d = need
                 /\ ~ need.eaten /\ at.mode = "none" /\ IsPunctuation(k) =>
                      d = Eat("composing", "punctuation")
                 /\ ~ need.eaten /\ at.mode = "none" /\ ~ IsPunctuation(k) /\ at.wide
                      /\ IsDoubleSingleByte(k) => d = Eat("composing", "doubleSingleByte")
                 /\ ~ need.eaten
                      /\ ~ (at.mode = "none" /\ (IsPunctuation(k) \/ (at.wide /\ IsDoubleSingleByte(k))))
                      => d.cat = Settles(k).cat /\ d.fn = Settles(k).fn /\ (d.eaten <=> k \in TouchKeys)
<1> DEFINE need == IsVirtualKeyNeed(k, at.composing, at.mode, at.buffered)
<1> DEFINE d == IsKeyEaten(k, at)
<1>1. at.composing \in BOOLEAN /\ at.mode \in UsedModes /\ at.buffered \in BOOLEAN
  BY DEF UsedSituations, Situations
<1>2. Decided(k, at.mode, at.composing, at.buffered, need)
  BY <1>1, NeedIsDecided
<1>3. d = IF at.disabled THEN NotOurs
          ELSE IF ~ at.open THEN [NotOurs EXCEPT !.eaten = k \in TouchKeys]
          ELSE IF need.eaten THEN need ELSE Widened(k, at, need)
  BY DEF IsKeyEaten
<1> HIDE DEF need, d
<1>4. ~ need.eaten => need = Settles(k)
  BY <1>2, EatIs DEF Decided
<1>5. ASSUME NEW r, r = NotOurs \/ r = Settles(k)
      PROVE  LET x == [r EXCEPT !.eaten = k \in TouchKeys]
             IN x.cat = r.cat /\ x.fn = r.fn /\ (x.eaten <=> k \in TouchKeys)
  <2>1. r = [cat |-> r.cat, fn |-> r.fn, eaten |-> FALSE]
    BY <1>5 DEF NotOurs, Settles, Pass
  <2> QED BY <2>1
<1>6. NotOurs.cat = "none" /\ NotOurs.fn = "none" /\ ~ NotOurs.eaten
  BY DEF NotOurs, Pass
<1>7. ASSUME at.disabled \/ ~ at.open
      PROVE  d.cat = "none" /\ d.fn = "none" /\ (d.eaten => k \in TouchKeys)
  BY <1>3, <1>5, <1>6, <1>7
<1>8. ASSUME ~ at.disabled, at.open, need.eaten PROVE d = need
  BY <1>3, <1>8
<1>9. ASSUME ~ at.disabled, at.open, ~ need.eaten, at.mode = "none", IsPunctuation(k)
      PROVE  d = Eat("composing", "punctuation")
  BY <1>3, <1>9 DEF Widened
<1>10. ASSUME ~ at.disabled, at.open, ~ need.eaten, at.mode = "none", ~ IsPunctuation(k), at.wide,
              IsDoubleSingleByte(k)
       PROVE  d = Eat("composing", "doubleSingleByte")
  BY <1>3, <1>10 DEF Widened
<1>11. ASSUME ~ at.disabled, at.open, ~ need.eaten,
              ~ (at.mode = "none" /\ (IsPunctuation(k) \/ (at.wide /\ IsDoubleSingleByte(k))))
       PROVE  d.cat = Settles(k).cat /\ d.fn = Settles(k).fn /\ (d.eaten <=> k \in TouchKeys)
  <2>1. d = [need EXCEPT !.eaten = k \in TouchKeys]
    BY <1>3, <1>11 DEF Widened
  <2> QED BY <1>4, <1>5, <1>11, <2>1
<1>12. /\ at.disabled \/ ~ at.open =>
            d.cat = "none" /\ d.fn = "none" /\ (d.eaten => k \in TouchKeys)
       /\ ~ at.disabled /\ at.open =>
            /\ need.eaten => d = need
            /\ ~ need.eaten /\ at.mode = "none" /\ IsPunctuation(k) =>
                 d = Eat("composing", "punctuation")
            /\ ~ need.eaten /\ at.mode = "none" /\ ~ IsPunctuation(k) /\ at.wide
                 /\ IsDoubleSingleByte(k) => d = Eat("composing", "doubleSingleByte")
            /\ ~ need.eaten
                 /\ ~ (at.mode = "none" /\ (IsPunctuation(k) \/ (at.wide /\ IsDoubleSingleByte(k))))
                 => d.cat = Settles(k).cat /\ d.fn = Settles(k).fn /\ (d.eaten <=> k \in TouchKeys)
  BY <1>7, <1>8, <1>9, <1>10, <1>11
<1> QED BY <1>12 DEF d, need

LEMMA MovesAre == /\ \A v \in Arrows : MoveFn[v] \in MoveFns
                  /\ MoveFns \cap {"input", "finalizeCandidateListAndInput", "punctuation",
                       "doubleSingleByte", "finalizeCandidateList", "none"} = {}
BY DEF MoveFns, MoveFn, Arrows, Vertical

LEMMA ImplementedIs ==
  /\ DOMAIN Implemented = {"composing", "candidate", "phrase"}
  /\ MoveFns \union {"input", "finalizeTextStore", "finalizeCandidateList", "convert", "cancel",
                     "backspace", "punctuation", "doubleSingleByte"} \subseteq Implemented["composing"]
  /\ MoveFns \union {"finalizeCandidateListAndInput", "finalizeCandidateList", "convert", "cancel",
                     "selectByNumber"} \subseteq Implemented["candidate"]
BY DEF Implemented, ListFns

\* The session a key asks for when it goes down.
SessionOf(k, at) ==
  LET d == IsKeyEaten(k, at) IN IF d.eaten THEN DownSession(k, d) ELSE TestSession(d)

Spelling == {"input", "finalizeCandidateListAndInput"}

\* What a session says of the situation its key was pressed in.
Understood(q, k, at) ==
  /\ q.fn \in Implemented["composing"] \union Implemented["candidate"] \union {"none"}
  /\ q.cat \in {"composing", "candidate", "invoke", "none"}
  /\ q.fn \in Spelling =>
       \/ q.cat = "composing" /\ q.fn = "input" /\ at.mode = "none"
       \/ q.cat = "candidate" /\ q.fn = "finalizeCandidateListAndInput" /\ at.mode = "original"
  /\ q.fn = "punctuation" => at.mode = "none" /\ (k \in Marks \/ ~ at.buffered)
  /\ q.fn = "doubleSingleByte" => at.wide
  /\ q.cat = "composing" /\ q.fn = "finalizeCandidateList" => at.mode = "none"

LEMMA KeySets ==
  /\ "escape" \notin Keystrokes \union Wild \union Digits \union Marks \union Printable \union TouchKeys
  /\ "escape" \in Keys
  /\ Wild \cap Keystrokes = {} /\ Wild \cap TouchKeys = {} /\ Marks \cap TouchKeys = {}
  /\ Keystrokes \cap (Arrows \union Enders \union Digits \union TouchKeys) = {}
  /\ Keystrokes \subseteq Keys
BY DEF Keystrokes, Letters, Wild, Digits, Marks, Printable, Silent, TouchKeys, Keys, Others, Arrows,
       Vertical, Enders

\* A key that is taken is one the tables know, or widened.
LEMMA DecisionIs ==
  ASSUME NEW k \in Keys, NEW at \in UsedSituations
  PROVE  LET d == IsKeyEaten(k, at)
             v == VKeyFromVKPacketAndWchar(k)
             cat == IF at.mode = "none" THEN "composing" ELSE "candidate"
         IN \/ /\ d = IF at.mode = "none" THEN Eat("composing", "input")
                       ELSE Eat("candidate", "finalizeCandidateListAndInput")
               /\ v \in InputKeys(at.mode, at.buffered)
            \/ v \in Arrows /\ d = Eat(cat, MoveFn[v])
            \/ d = Eat(cat, "finalizeCandidateList") /\ v = "enter"
            \/ d = Eat(cat, "cancel") /\ v \in {"escape", "back"}
            \/ d = Eat("composing", "backspace") /\ v = "back"
            \/ d = Eat(cat, "convert") /\ v = "space"
            \/ d = Eat("candidate", "selectByNumber") /\ v \in Digits
            \/ /\ d = Eat("composing", "punctuation") /\ at.mode = "none" /\ IsPunctuation(k)
               /\ v \notin InputKeys(at.mode, at.buffered)
            \/ d = Eat("composing", "doubleSingleByte") /\ at.wide /\ IsDoubleSingleByte(k)
            \/ /\ d.eaten => k \in TouchKeys
               /\ \/ d.cat = "none" /\ d.fn = "none"
                  \/ d.cat = "invoke" /\ d.fn = "finalizeTextStore"
<1> DEFINE need == IsVirtualKeyNeed(k, at.composing, at.mode, at.buffered)
<1> DEFINE d == IsKeyEaten(k, at)
<1> DEFINE v == VKeyFromVKPacketAndWchar(k)
<1>1. at.composing \in BOOLEAN /\ at.mode \in UsedModes /\ at.buffered \in BOOLEAN
  BY DEF UsedSituations, Situations
<1>2. Decided(k, at.mode, at.composing, at.buffered, need)
  BY <1>1, NeedIsDecided
<1>3. /\ at.disabled \/ ~ at.open =>
            d.cat = "none" /\ d.fn = "none" /\ (d.eaten => k \in TouchKeys)
      /\ ~ at.disabled /\ at.open =>
            /\ need.eaten => d = need
            /\ ~ need.eaten /\ at.mode = "none" /\ IsPunctuation(k) =>
                 d = Eat("composing", "punctuation")
            /\ ~ need.eaten /\ at.mode = "none" /\ ~ IsPunctuation(k) /\ at.wide
                 /\ IsDoubleSingleByte(k) => d = Eat("composing", "doubleSingleByte")
            /\ ~ need.eaten
                 /\ ~ (at.mode = "none" /\ (IsPunctuation(k) \/ (at.wide /\ IsDoubleSingleByte(k))))
                 => d.cat = Settles(k).cat /\ d.fn = Settles(k).fn /\ (d.eaten <=> k \in TouchKeys)
  BY TakenIs
<1> HIDE DEF need, d, v
<1>4. CASE at.disabled \/ ~ at.open
  BY <1>3, <1>4 DEF d
<1>5. CASE ~ at.disabled /\ at.open /\ need.eaten
  <2>1. d = need
    BY <1>3, <1>5
  <2>2. need # Settles(k)
    BY <1>5, SettlesIs
  <2>3. NumberKeys(at.mode) \subseteq Digits
    BY DEF NumberKeys
  <2>4. Decided(k, at.mode, at.composing, at.buffered, d) /\ d # Settles(k)
    BY <1>2, <2>1, <2>2
  <2> QED BY <2>3, <2>4, <1>1 DEF Decided, d, UsedModes
<1>6. CASE ~ at.disabled /\ at.open /\ ~ need.eaten
  <2>1. v \notin InputKeys(at.mode, at.buffered)
    BY <1>2, <1>6, EatIs DEF Decided, v
  <2>2. CASE at.mode = "none" /\ (IsPunctuation(k) \/ (at.wide /\ IsDoubleSingleByte(k)))
    BY <1>3, <1>6, <2>1, <2>2 DEF d, v
  <2>3. CASE ~ (at.mode = "none" /\ (IsPunctuation(k) \/ (at.wide /\ IsDoubleSingleByte(k))))
    BY <1>3, <1>6, <2>3, SettlesIs DEF d
  <2> QED BY <2>2, <2>3
<1> QED BY <1>4, <1>5, <1>6

LEMMA SessionIsUnderstood ==
  ASSUME NEW k \in Keys, NEW at \in UsedSituations
  PROVE  Understood(SessionOf(k, at), k, at)
<1> DEFINE d == IsKeyEaten(k, at)
<1> DEFINE v == VKeyFromVKPacketAndWchar(k)
<1> DEFINE q == SessionOf(k, at)
<1> DEFINE cat == IF at.mode = "none" THEN "composing" ELSE "candidate"
<1>1. \/ /\ d = IF at.mode = "none" THEN Eat("composing", "input")
                 ELSE Eat("candidate", "finalizeCandidateListAndInput")
         /\ v \in InputKeys(at.mode, at.buffered)
      \/ v \in Arrows /\ d = Eat(cat, MoveFn[v])
      \/ d = Eat(cat, "finalizeCandidateList") /\ v = "enter"
      \/ d = Eat(cat, "cancel") /\ v \in {"escape", "back"}
      \/ d = Eat("composing", "backspace") /\ v = "back"
      \/ d = Eat(cat, "convert") /\ v = "space"
      \/ d = Eat("candidate", "selectByNumber") /\ v \in Digits
      \/ /\ d = Eat("composing", "punctuation") /\ at.mode = "none" /\ IsPunctuation(k)
         /\ v \notin InputKeys(at.mode, at.buffered)
      \/ d = Eat("composing", "doubleSingleByte") /\ at.wide /\ IsDoubleSingleByte(k)
      \/ /\ d.eaten => k \in TouchKeys
         /\ \/ d.cat = "none" /\ d.fn = "none"
            \/ d.cat = "invoke" /\ d.fn = "finalizeTextStore"
  BY DecisionIs
<1>2. k = "escape" => v = "escape"
  BY VKeyIs
<1>3. at.mode \in UsedModes
  BY DEF UsedSituations
<1>4. ASSUME NEW c, NEW f, d = Eat(c, f)
      PROVE  q.fn = f /\ (k = "escape" => q.cat = "composing") /\ (k # "escape" => q.cat = c)
  BY <1>4, EatIs DEF SessionOf, DownSession
<1>5. ASSUME d.eaten => k \in TouchKeys, d.cat = "none", d.fn = "none"
      PROVE  q.cat = "none" /\ q.fn = "none"
  BY <1>5, KeySets DEF SessionOf, DownSession, TestSession, NoSession
<1>6. ASSUME d.eaten => k \in TouchKeys, d.cat = "invoke", d.fn = "finalizeTextStore"
      PROVE  q.cat \in {"composing", "invoke"} /\ q.fn = "finalizeTextStore"
  BY <1>6, KeySets DEF SessionOf, DownSession, TestSession
<1> HIDE DEF d, q, v
<1> SUFFICES Understood(q, k, at)
  BY DEF q
<1>7. CASE /\ d = IF at.mode = "none" THEN Eat("composing", "input")
                 ELSE Eat("candidate", "finalizeCandidateListAndInput")
           /\ v \in InputKeys(at.mode, at.buffered)
  <2>1. k # "escape"
    BY <1>2, <1>7, KeySets DEF InputKeys
  <2> QED BY <1>3, <1>4, <1>7, <2>1, ImplementedIs DEF Understood, UsedModes, Spelling
<1>8. CASE v \in Arrows /\ d = Eat(cat, MoveFn[v])
  BY <1>4, <1>8, MovesAre, ImplementedIs DEF Understood, Spelling
<1>9. CASE d = Eat(cat, "finalizeCandidateList") /\ v = "enter"
  BY <1>2, <1>3, <1>4, <1>9, ImplementedIs DEF Understood, Spelling, UsedModes
<1>10. CASE \/ d = Eat(cat, "cancel") \/ d = Eat("composing", "backspace") \/ d = Eat(cat, "convert")
            \/ d = Eat("candidate", "selectByNumber")
  BY <1>4, <1>10, ImplementedIs DEF Understood, Spelling
<1>11. CASE /\ d = Eat("composing", "punctuation") /\ at.mode = "none" /\ IsPunctuation(k)
            /\ v \notin InputKeys(at.mode, at.buffered)
  <2>1. k \in Wild => v = k
    BY VKeyIs DEF Wild, v
  <2>2. k \in Marks \/ ~ at.buffered
    BY <1>11, <2>1 DEF IsPunctuation, InputKeys
  <2> QED BY <1>4, <1>11, <2>2, ImplementedIs DEF Understood, Spelling
<1>12. CASE d = Eat("composing", "doubleSingleByte") /\ at.wide /\ IsDoubleSingleByte(k)
  BY <1>4, <1>12, ImplementedIs DEF Understood, Spelling
<1>13. CASE /\ d.eaten => k \in TouchKeys
            /\ \/ d.cat = "none" /\ d.fn = "none"
               \/ d.cat = "invoke" /\ d.fn = "finalizeTextStore"
  <2>1. q.cat \in {"none", "composing", "invoke"} /\ q.fn \in {"none", "finalizeTextStore"}
    BY <1>5, <1>6, <1>13
  <2> QED BY <2>1, ImplementedIs DEF Understood, Spelling
<1> QED BY <1>1, <1>7, <1>8, <1>9, <1>10, <1>11, <1>12, <1>13

LEMMA UsedIsHandled == ASSUME NEW at \in UsedSituations PROVE EatenKeysAreHandled(at)
<1> SUFFICES ASSUME NEW k \in Keys \ TouchKeys, IsKeyEaten(k, at).eaten
             PROVE  HasHandler(DownSession(k, IsKeyEaten(k, at)))
  BY DEF EatenKeysAreHandled
<1> DEFINE d == IsKeyEaten(k, at)
<1> DEFINE v == VKeyFromVKPacketAndWchar(k)
<1> DEFINE cat == IF at.mode = "none" THEN "composing" ELSE "candidate"
<1>1. \/ /\ d = IF at.mode = "none" THEN Eat("composing", "input")
                 ELSE Eat("candidate", "finalizeCandidateListAndInput")
         /\ v \in InputKeys(at.mode, at.buffered)
      \/ v \in Arrows /\ d = Eat(cat, MoveFn[v])
      \/ d = Eat(cat, "finalizeCandidateList") /\ v = "enter"
      \/ d = Eat(cat, "cancel") /\ v \in {"escape", "back"}
      \/ d = Eat("composing", "backspace") /\ v = "back"
      \/ d = Eat(cat, "convert") /\ v = "space"
      \/ d = Eat("candidate", "selectByNumber") /\ v \in Digits
      \/ /\ d = Eat("composing", "punctuation") /\ at.mode = "none" /\ IsPunctuation(k)
         /\ v \notin InputKeys(at.mode, at.buffered)
      \/ d = Eat("composing", "doubleSingleByte") /\ at.wide /\ IsDoubleSingleByte(k)
      \/ /\ d.eaten => k \in TouchKeys
         /\ \/ d.cat = "none" /\ d.fn = "none"
            \/ d.cat = "invoke" /\ d.fn = "finalizeTextStore"
  BY DecisionIs
<1>2. k = "escape" => v = "escape"
  BY VKeyIs
<1>3. ASSUME NEW c, NEW f, d = Eat(c, f),
             IF k = "escape" THEN f \in Implemented["composing"]
             ELSE c \in DOMAIN Implemented /\ f \in Implemented[c]
      PROVE  HasHandler(DownSession(k, d))
  BY <1>3, EatIs, ImplementedIs DEF DownSession, HasHandler
<1>4. d.eaten
  OBVIOUS
<1> HIDE DEF d, v
<1> SUFFICES HasHandler(DownSession(k, d))
  BY DEF d
<1>5. CASE k = "escape"
  <2>1. v \notin InputKeys(at.mode, at.buffered) /\ v \notin Arrows /\ v \notin Digits
        /\ v \notin {"enter", "back", "space"} /\ ~ IsPunctuation(k) /\ ~ IsDoubleSingleByte(k)
        /\ k \notin TouchKeys
    BY <1>2, <1>5, KeySets DEF InputKeys, Arrows, Vertical, IsPunctuation, IsDoubleSingleByte
  <2>2. d = Eat(cat, "cancel")
    BY <1>1, <1>4, <2>1
  <2> QED BY <1>3, <1>5, <2>2, ImplementedIs
<1>6. CASE k # "escape" /\ v \in Arrows /\ d = Eat(cat, MoveFn[v])
  BY <1>3, <1>6, MovesAre, ImplementedIs
<1>7. CASE k # "escape" /\ ~ (v \in Arrows /\ d = Eat(cat, MoveFn[v]))
  BY <1>1, <1>3, <1>4, <1>7, ImplementedIs
<1> QED BY <1>5, <1>6, <1>7

LEMMA UsedIsClosed == ASSUME NEW at \in UsedSituations PROVE ClosedMeansClosed(at)
<1> SUFFICES ASSUME ~ at.open, NEW k \in Keys
             PROVE  /\ IsKeyEaten(k, at).eaten => k \in TouchKeys
                    /\ TestSession(IsKeyEaten(k, at)) = NoSession
  BY DEF ClosedMeansClosed
<1>1. LET d == IsKeyEaten(k, at) IN d.cat = "none" /\ (d.eaten => k \in TouchKeys)
  BY TakenIs
<1> QED BY <1>1 DEF TestSession

LEMMA UsedFollows == ASSUME NEW at \in UsedSituations PROVE UpFollowsDown(at)
<1> SUFFICES ASSUME NEW k \in Keys, IsKeyUpEaten(k, at)
             PROVE  IsKeyEaten(k, at).eaten
  BY DEF UpFollowsDown
<1> DEFINE need == IsVirtualKeyNeed(k, at.composing, at.mode, at.buffered)
<1> DEFINE d == IsKeyEaten(k, at)
<1> DEFINE v == VKeyFromVKPacketAndWchar(k)
<1>1. at.composing \in BOOLEAN /\ at.mode \in UsedModes /\ at.buffered \in BOOLEAN
  BY DEF UsedSituations, Situations
<1>2. /\ at.disabled \/ ~ at.open =>
            d.cat = "none" /\ d.fn = "none" /\ (d.eaten => k \in TouchKeys)
      /\ ~ at.disabled /\ at.open =>
            /\ need.eaten => d = need
            /\ ~ need.eaten /\ at.mode = "none" /\ IsPunctuation(k) =>
                 d = Eat("composing", "punctuation")
            /\ ~ need.eaten /\ at.mode = "none" /\ ~ IsPunctuation(k) /\ at.wide
                 /\ IsDoubleSingleByte(k) => d = Eat("composing", "doubleSingleByte")
            /\ ~ need.eaten
                 /\ ~ (at.mode = "none" /\ (IsPunctuation(k) \/ (at.wide /\ IsDoubleSingleByte(k))))
                 => d.cat = Settles(k).cat /\ d.fn = Settles(k).fn /\ (d.eaten <=> k \in TouchKeys)
  BY TakenIs
<1>3. Decided(k, at.mode, at.composing, at.buffered, need)
  BY <1>1, NeedIsDecided
<1>4. v \in InputKeys(at.mode, at.buffered) \/ v \in SystemKeys(at.composing, at.mode) => need.eaten
  <2> HIDE DEF need
  <2> QED BY <1>3, EatIs DEF Decided
<1>5. IsVirtualKeyNeedStateless(k, at.composing, at.mode, at.buffered) => need.eaten
  <2>1. ASSUME v \in Wild, at.mode \in {"none", "incremental"}, at.buffered
        PROVE  v \in InputKeys(at.mode, at.buffered)
    BY <1>1, <2>1 DEF InputKeys, UsedModes
  <2>2. ASSUME Look(SystemTable(at.composing, at.mode), v).eaten
        PROVE  v \in SystemKeys(at.composing, at.mode)
    <3>1. v \in DOMAIN SystemTable(at.composing, at.mode)
      BY <2>2 DEF Look, NotOurs, Pass
    <3>2. DOMAIN SystemTable(at.composing, at.mode) = SystemKeys(at.composing, at.mode)
      BY <1>1, TablesAre
    <3> QED BY <3>1, <3>2
  <2> HIDE DEF need
  <2> QED BY <1>4, <2>1, <2>2 DEF IsVirtualKeyNeedStateless
<1>6. ~ at.disabled
  BY DEF IsKeyUpEaten
<1>7. CASE k \in TouchKeys
  <2>1. ~ at.open => d = [NotOurs EXCEPT !.eaten = k \in TouchKeys]
    BY <1>6 DEF IsKeyEaten
  <2>2. ~ at.open => d.eaten
    BY <1>7, <2>1 DEF NotOurs, Pass
  <2> HIDE DEF need, d
  <2>3. at.open => d.eaten
    BY <1>2, <1>6, <1>7, EatIs
  <2> QED BY <2>2, <2>3 DEF d
<1>8. CASE k \notin TouchKeys
  <2> HIDE DEF need, d
  <2>1. at.open /\ (need.eaten \/ (at.mode = "none" /\ (IsPunctuation(k) \/ (at.wide /\ IsDoubleSingleByte(k)))))
    BY <1>5, <1>6, <1>8 DEF IsKeyUpEaten
  <2>2. d.eaten
    BY <1>2, <1>6, <2>1, EatIs
  <2> QED BY <2>2 DEF d
<1> QED BY <1>7, <1>8

LEMMA UsedSpells == ASSUME NEW at \in UsedSituations PROVE LettersAlwaysSpell(at)
<1> SUFFICES ASSUME at.open, ~ at.disabled, NEW k \in Keystrokes
             PROVE  IsKeyEaten(k, at).fn \in Spelling
  BY DEF LettersAlwaysSpell, Spelling
<1> DEFINE need == IsVirtualKeyNeed(k, at.composing, at.mode, at.buffered)
<1>1. at.composing \in BOOLEAN /\ at.mode \in UsedModes /\ at.buffered \in BOOLEAN /\ k \in Keys
  BY KeySets DEF UsedSituations, Situations
<1>2. VKeyFromVKPacketAndWchar(k) \in Keystrokes
  BY <1>1, VKeyIs DEF Keystrokes, Letters
<1>3. Decided(k, at.mode, at.composing, at.buffered, need)
  BY <1>1, NeedIsDecided
<1>4. need.eaten => IsKeyEaten(k, at) = need
  BY <1>1, TakenIs
<1> HIDE DEF need
<1>5. need.eaten /\ need.fn \in Spelling
  BY <1>2, <1>3, EatIs DEF Decided, InputKeys, Spelling
<1> QED BY <1>4, <1>5

LEMMA UsedIsSound == UsedSituations \subseteq SoundSituations
<1> SUFFICES ASSUME NEW at \in UsedSituations PROVE at \in SoundSituations
  OBVIOUS
<1>1. at \in Situations
  BY DEF UsedSituations
<1> QED BY <1>1, UsedIsHandled, UsedIsClosed, UsedFollows, UsedSpells DEF SoundSituations

-----------------------------------------------------------------------------
(* Sequences of keys, texts and the buffer.                                *)

LEMMA StringTypes ==
  /\ <<>> \in Strings /\ NoText \in Texts
  /\ \A a, b \in Strings : a \o b \in Strings /\ [kana |-> a, letters |-> b] \in Texts
  /\ \A a \in Strings, n \in KeyIds : Append(a, n) \in Strings /\ <<n>> \in Strings
  /\ \A a \in Strings, k \in Nat : k <= Len(a) => SubSeq(a, 1, k) \in Strings
  /\ \A a \in Strings : Len(a) \in Nat /\ (Len(a) = 0 <=> a = <<>>)
  /\ \A a \in Strings : CharsOf(a) \subseteq KeyIds
<1>1. <<>> \in Strings /\ NoText \in Texts
  BY DEF Strings, Texts, NoText
<1>2. ASSUME NEW a \in Strings, NEW b \in Strings
      PROVE  a \o b \in Strings /\ [kana |-> a, letters |-> b] \in Texts
  BY ConcatProperties DEF Strings, Texts
<1>3. ASSUME NEW a \in Strings, NEW n \in KeyIds
      PROVE  Append(a, n) \in Strings /\ <<n>> \in Strings
  BY AppendProperties DEF Strings
<1>4. ASSUME NEW a \in Strings, NEW k \in Nat, k <= Len(a) PROVE SubSeq(a, 1, k) \in Strings
  BY <1>4, SubSeqProperties DEF Strings
<1>5. ASSUME NEW a \in Strings PROVE Len(a) \in Nat /\ (Len(a) = 0 <=> a = <<>>)
  BY EmptySeq DEF Strings
<1>6. ASSUME NEW a \in Strings PROVE CharsOf(a) \subseteq KeyIds
  BY ElementOfSeq, LenProperties DEF Strings, CharsOf
<1> QED BY <1>1, <1>2, <1>3, <1>4, <1>5, <1>6

LEMMA TextTypes ==
  ASSUME NEW t \in Texts
  PROVE  /\ t.kana \in Strings /\ t.letters \in Strings
         /\ t = [kana |-> t.kana, letters |-> t.letters]
         /\ Line(t) \in Strings /\ (Line(t) = <<>> <=> t = NoText)
<1>1. t.kana \in Strings /\ t.letters \in Strings /\ t = [kana |-> t.kana, letters |-> t.letters]
  BY DEF Texts
<1>2. Line(t) \in Strings
  BY <1>1, StringTypes DEF Line
<1>3. Len(Line(t)) = Len(t.kana) + Len(t.letters)
  BY <1>1, ConcatProperties DEF Line, Strings
<1>4. Line(t) = <<>> <=> t.kana = <<>> /\ t.letters = <<>>
  BY <1>1, <1>2, <1>3, StringTypes
<1>5. t = NoText <=> t.kana = <<>> /\ t.letters = <<>>
  BY <1>1 DEF NoText
<1> QED BY <1>1, <1>2, <1>4, <1>5

LEMMA EmptyEnd == \A q \in Strings : q \o <<>> = q /\ <<>> \o q = q
BY ConcatEmptySeq DEF Strings

(* What is shown and read of a buffer.                                     *)
LEMMA BufferIs ==
  ASSUME NEW b \in Texts
  PROVE  /\ BufferDisplay(b) \in Texts /\ BufferReading(b) \in Strings
         /\ BufferDisplay(b).kana = BufferReading(b)
         /\ Line(BufferDisplay(b)) = Line(b)
         /\ BufferDisplay(b) = NoText <=> b = NoText
         /\ \/ BufferReading(b) = b.kana /\ BufferDisplay(b) = b
            \/ BufferReading(b) = b.kana \o b.letters /\ BufferDisplay(b).letters = <<>>
<1> DEFINE lone == [kana |-> Line(b), letters |-> <<>>]
<1>1. lone \in Texts /\ Line(b) \in Strings /\ lone.kana = Line(b) /\ lone.letters = <<>>
  BY StringTypes, TextTypes
<1>2. Line(lone) = Line(b)
  BY <1>1, EmptyEnd DEF Line
<1>3. BufferDisplay(b) \in {b, lone}
  BY DEF BufferDisplay
<1> HIDE DEF lone
<1>4. BufferDisplay(b) \in Texts /\ Line(BufferDisplay(b)) = Line(b)
  BY <1>1, <1>2, <1>3
<1>5. BufferReading(b) \in Strings
  BY <1>4, TextTypes DEF BufferReading
<1>6. BufferDisplay(b) = NoText <=> b = NoText
  BY <1>4, TextTypes
<1>7. \/ BufferReading(b) = b.kana /\ BufferDisplay(b) = b
      \/ BufferReading(b) = b.kana \o b.letters /\ BufferDisplay(b).letters = <<>>
  BY <1>1, <1>3 DEF BufferReading, Line
<1> QED BY <1>4, <1>5, <1>6, <1>7 DEF BufferReading

LEMMA EmptyBuffer == BufferDisplay(NoText) = NoText /\ BufferReading(NoText) = <<>>
<1>1. NoText \in Texts
  BY StringTypes
<1>2. BufferDisplay(NoText) = NoText
  BY <1>1, BufferIs
<1> QED BY <1>2 DEF BufferReading, NoText

LEMMA LastIs ==
  ASSUME NEW q \in Strings
  PROVE  /\ LastOf(q) \in Strings /\ CharsOf(LastOf(q)) \subseteq CharsOf(q)
         /\ Len(LastOf(q)) <= 1 /\ LastOf(<<>>) = <<>>
         /\ q # <<>> => LastOf(q) # <<>>
<1>1. CASE q = <<>>
  BY <1>1, StringTypes DEF LastOf
<1>2. CASE q # <<>>
  <2>1. Len(q) \in DOMAIN q /\ q[Len(q)] \in KeyIds
    BY <1>2, StringTypes, LenProperties, ElementOfSeq DEF Strings
  <2>2. /\ LastOf(q) = <<q[Len(q)]>> /\ DOMAIN LastOf(q) = {1} /\ LastOf(q)[1] = q[Len(q)]
        /\ Len(LastOf(q)) = 1 /\ LastOf(q) # <<>>
    BY <1>2 DEF LastOf
  <2>3. LastOf(q) \in Strings
    BY <2>1, <2>2, StringTypes
  <2>4. LastOf(<<>>) = <<>>
    BY DEF LastOf
  <2> QED BY <2>1, <2>2, <2>3, <2>4 DEF CharsOf
<1> QED BY <1>1, <1>2

\* What is left of the letters before a key, and of the key.
Rest(b) == {<<>>, LastOf(b.letters), b.letters}
Ends(id) == {<<>>, <<id>>}

(* A key leaves the kana there are, and adds to them or to the letters     *)
(* some of the letters there were, and itself.                             *)
LEMMA AfterIs ==
  ASSUME NEW b \in Texts, NEW id \in KeyIds, NEW effect \in Effects
  PROVE  LET a == BufferAfterKeystroke(b, id, effect)
         IN  /\ a \in Texts
             /\ \E m \in Rest(b), end \in Ends(id), x \in Strings :
                  a.kana = b.kana \o x /\ x \o a.letters = m \o end
<1> DEFINE a == BufferAfterKeystroke(b, id, effect)
           k == b.kana
           l == b.letters
           z == LastOf(b.letters)
<1>1. /\ k \in Strings /\ l \in Strings /\ z \in Strings /\ <<>> \in Strings /\ <<id>> \in Strings
      /\ b = [kana |-> k, letters |-> l]
  BY StringTypes, TextTypes, LastIs
<1>2. \A q \in Strings : /\ q \o <<id>> \in Strings /\ Append(q, id) = q \o <<id>>
                         /\ q \o <<>> = q /\ <<>> \o q = q
  BY <1>1, StringTypes, EmptyEnd, AppendIsConcat DEF Strings
<1>3. (k \o z) \o <<id>> = k \o (z \o <<id>>) /\ k \o z \in Strings /\ k \o l \in Strings
  BY <1>1, StringTypes, ConcatAssociative DEF Strings
<1>4. BufferReading(b) = k \/ BufferReading(b) = k \o l
  BY BufferIs
<1> DEFINE Made(kana, letters) == a = [kana |-> kana, letters |-> letters]
           Is(m, end, x, letters) ==
             Made(k \o x, letters) /\ x \in Strings /\ letters \in Strings /\ x \o letters = m \o end
<1>5. /\ <<>> \in Rest(b) /\ z \in Rest(b) /\ l \in Rest(b)
      /\ <<>> \in Ends(id) /\ <<id>> \in Ends(id)
      /\ l \o <<id>> \in Strings /\ z \o <<id>> \in Strings
  BY <1>1, <1>2 DEF Rest, Ends
<1>6. ASSUME NEW m \in Rest(b), NEW end \in Ends(id), NEW x, NEW letters, Is(m, end, x, letters)
      PROVE  /\ a \in Texts
             /\ \E n \in Rest(b), last \in Ends(id), y \in Strings :
                  a.kana = b.kana \o y /\ y \o a.letters = n \o last
  <2>1. k \o x \in Strings
    BY <1>1, <1>6, StringTypes
  <2>2. [kana |-> k \o x, letters |-> letters] \in Texts
    BY <1>6, <2>1, StringTypes
  <2>3. a = [kana |-> k \o x, letters |-> letters]
    BY <1>6
  <2>4. x \in Strings /\ x \o letters = m \o end
    BY <1>6
  <2> HIDE DEF a
  <2>5. a.kana = k \o x /\ a.letters = letters /\ a \in Texts
    BY <2>2, <2>3
  <2> QED BY <2>4, <2>5
<1>7. CASE effect = "goesOn"
  <2>1. Is(l, <<id>>, <<>>, l \o <<id>>)
    BY <1>1, <1>2, <1>5, <1>7 DEF BufferAfterKeystroke
  <2> QED BY <1>5, <1>6, <2>1
<1>8. CASE effect = "slides"
  <2>1. Is(z, <<id>>, <<>>, z \o <<id>>)
    BY <1>1, <1>2, <1>5, <1>8 DEF BufferAfterKeystroke
  <2> QED BY <1>5, <1>6, <2>1
<1>9. CASE effect = "restarts"
  <2>1. Is(<<>>, <<id>>, <<>>, <<id>>) \/ Is(l, <<id>>, l, <<id>>)
    BY <1>1, <1>2, <1>4, <1>9 DEF BufferAfterKeystroke
  <2> QED BY <1>5, <1>6, <2>1
<1>10. CASE effect = "syllable"
  <2>1. Is(<<>>, <<id>>, <<id>>, <<>>)
    BY <1>1, <1>2, <1>10 DEF BufferAfterKeystroke
  <2> QED BY <1>5, <1>6, <2>1
<1>11. CASE effect = "glides"
  <2>1. Is(z, <<id>>, z \o <<id>>, <<>>)
    BY <1>1, <1>2, <1>3, <1>5, <1>11 DEF BufferAfterKeystroke
  <2> QED BY <1>5, <1>6, <2>1
<1>12. CASE effect = "closes"
  <2>1. Is(z, <<id>>, z, <<id>>)
    BY <1>1, <1>12 DEF BufferAfterKeystroke
  <2> QED BY <1>5, <1>6, <2>1
<1>13. CASE effect = "ends"
  <2>1. Is(z, <<>>, z, <<>>)
    BY <1>1, <1>13 DEF BufferAfterKeystroke
  <2> QED BY <1>5, <1>6, <2>1
<1>14. CASE effect = "stray"
  <2>1. Is(<<>>, <<>>, <<>>, <<>>) \/ Is(l, <<>>, l, <<>>)
    BY <1>1, <1>2, <1>4, <1>14 DEF BufferAfterKeystroke
  <2> QED BY <1>5, <1>6, <2>1
<1> QED BY <1>7, <1>8, <1>9, <1>10, <1>11, <1>12, <1>13, <1>14 DEF Effects

(* GetText answers a text, whole or of the length it was asked for.        *)
LEMMA FetchedIs ==
  ASSUME NEW t \in Texts
  PROVE  LET f == Fetched(t)
         IN  /\ f \in Texts
             /\ f # NoText => t # NoText
             /\ \/ f.kana = t.kana
                \/ /\ Len(Line(f)) = PRECEDING_TEXT_MAX /\ Len(f.kana) <= Len(t.kana)
                   /\ f.kana = SubSeq(t.kana, 1, Len(f.kana))
<1> DEFINE P    == PRECEDING_TEXT_MAX
           kana == First(t.kana, P)
           left == P - Len(kana)
           rest == First(t.letters, left)
<1>1. P \in Nat \ {0} /\ t.kana \in Strings /\ t.letters \in Strings
  BY TextServiceAssumption, TextTypes
<1>2. \A q \in Strings, n \in Nat :
        /\ First(q, n) \in Strings /\ Len(First(q, n)) <= n /\ (q = <<>> => First(q, n) = <<>>)
        /\ \/ First(q, n) = q
           \/ First(q, n) = SubSeq(q, 1, n) /\ Len(First(q, n)) = n /\ n < Len(q)
  <2> TAKE q \in Strings, n \in Nat
  <2>1. Len(q) \in Nat
    BY StringTypes
  <2>2. CASE Len(q) <= n
    BY <2>1, <2>2 DEF First
  <2>3. CASE ~(Len(q) <= n)
    <3>1. SubSeq(q, 1, n) \in Strings
      BY <2>1, <2>3, StringTypes
    <3>2. Len(SubSeq(q, 1, n)) = n
      <4>1. n \in 0..Len(q)
        BY <2>1, <2>3
      <4> QED BY <4>1, SubSeqProperties DEF Strings
    <3>3. q # <<>>
      BY <2>1, <2>3, StringTypes
    <3> QED BY <2>1, <2>3, <3>1, <3>2, <3>3 DEF First
  <2> QED BY <2>2, <2>3
<1>3. /\ kana \in Strings /\ Len(kana) <= P /\ Len(kana) \in Nat /\ left \in Nat
      /\ t.kana = <<>> => kana = <<>>
  <2>1. kana \in Strings /\ Len(kana) <= P /\ (t.kana = <<>> => kana = <<>>)
    BY <1>1, <1>2
  <2> HIDE DEF kana
  <2>2. Len(kana) \in Nat
    BY <2>1, StringTypes
  <2> QED BY <1>1, <2>1, <2>2
<1>4. rest \in Strings /\ (t.letters = <<>> => rest = <<>>) /\ Len(rest) <= left
  <2> HIDE DEF left, kana
  <2> QED BY <1>1, <1>2, <1>3
<1>5. Fetched(t) = [kana |-> kana, letters |-> rest]
  BY DEF Fetched
<1> HIDE DEF kana, rest
<1>6. Fetched(t) \in Texts /\ Fetched(t).kana = kana /\ Fetched(t).letters = rest
  BY <1>3, <1>4, <1>5, StringTypes
<1>7. Fetched(t) # NoText => t # NoText
  BY <1>3, <1>4, <1>5 DEF NoText
<1>8. \/ kana = t.kana
      \/ /\ Len(Line(Fetched(t))) = P /\ Len(kana) <= Len(t.kana)
         /\ kana = SubSeq(t.kana, 1, Len(kana))
  <2>1. kana = t.kana \/ (kana = SubSeq(t.kana, 1, P) /\ Len(kana) = P /\ P < Len(t.kana))
    BY <1>1, <1>2 DEF kana
  <2>2. CASE kana = SubSeq(t.kana, 1, P) /\ Len(kana) = P /\ P < Len(t.kana)
    <3>1. Len(rest) = 0
      <4>1. Len(rest) \in Nat
        BY <1>4, StringTypes
      <4> QED BY <1>1, <1>4, <2>2, <4>1
    <3>2. Len(Line(Fetched(t))) = Len(kana) + Len(rest)
      BY <1>3, <1>4, <1>6, ConcatProperties DEF Line, Strings
    <3>3. Len(Line(Fetched(t))) = P
      BY <1>1, <2>2, <3>1, <3>2
    <3> QED BY <1>1, <2>2, <3>3, StringTypes
  <2> QED BY <2>1, <2>2
<1> QED BY <1>6, <1>7, <1>8

-----------------------------------------------------------------------------
(* Every handler keeps the type of ts, whatever ts and host.               *)

Fields == {"engine", "open", "comp", "ctx", "text", "caret", "buf", "spent", "mode", "pres",
           "wnd", "list", "doc", "learned", "fault"}

LEMMA FieldTypes ==
  ASSUME NEW s \in Service
  PROVE  /\ s = [f \in Fields |-> s[f]]
         /\ s.text \in Texts /\ s.buf \in Texts /\ s.list \in Strings /\ s.doc \in Strings
         /\ s.mode \in UsedModes /\ s.open \in BOOLEAN /\ s.comp \in BOOLEAN /\ s.fault \in BOOLEAN
         /\ s.pres \in BOOLEAN /\ s.wnd \in BOOLEAN /\ s.engine \in BOOLEAN
         /\ s.spent \subseteq KeyIds
BY DEF Service, Fields, UsedModes

LEMMA SmallTypes ==
  ASSUME NEW s \in Service, NEW e
  PROVE  /\ Fault(s) \in Service
         /\ EndCandidateList(s) \in Service
         /\ DeleteCandidateList(s) \in Service
         /\ RemoveDummyCompositionForComposing(s) \in Service
         /\ StartComposition(s, e) \in Service
<1>1. Fault(s) \in Service
  BY DEF Service, Fault
<1>2. EndCandidateList(s) \in Service
  BY StringTypes DEF Service, EndCandidateList
<1>3. DeleteCandidateList(s) \in Service
  <2> DEFINE p == [s EXCEPT !.buf = NoText]
  <2>1. p \in Service
    BY StringTypes DEF Service
  <2>2. [EndCandidateList(p) EXCEPT !.mode = "none"] \in Service
    BY <2>1, StringTypes DEF Service, EndCandidateList
  <2> QED BY <1>1, <2>1, <2>2 DEF DeleteCandidateList
<1>4. RemoveDummyCompositionForComposing(s) \in Service
  BY StringTypes DEF Service, RemoveDummyCompositionForComposing
<1>5. StartComposition(s, e) \in Service
  BY DEF Service, StartComposition
<1> QED BY <1>1, <1>2, <1>3, <1>4, <1>5

LEMMA EndTypes ==
  ASSUME NEW s \in Service, NEW e
  PROVE  /\ TerminateComposition(s, e) \in Service
         /\ HandleComplete(s, e) \in Service
         /\ HandleCancel(s, e) \in Service
<1>1. ASSUME NEW t \in Service PROVE TerminateComposition(t, e) \in Service
  <2> DEFINE told == IF t.comp /\ ~e.end THEN DeleteCandidateList(t) ELSE t
             text == told.doc \o Line(told.text)
             done == [told EXCEPT !.comp = FALSE, !.ctx = FALSE, !.caret = "end",
                                  !.doc = text, !.text = NoText]
  <2>1. told \in Service
    BY SmallTypes
  <2>2. TerminateComposition(t, e) = IF ~t.comp THEN t ELSE IF told.fault THEN told ELSE done
    BY <2>1 DEF TerminateComposition, Unless, Service
  <2> HIDE DEF told
  <2>3. text \in Strings /\ NoText \in Texts
    BY <2>1, FieldTypes, TextTypes, StringTypes
  <2> HIDE DEF text
  <2>4. done \in Service
    BY <2>1, <2>3 DEF Service
  <2> QED BY <2>1, <2>2, <2>4
<1>2. ASSUME NEW t \in Service PROVE HandleComplete(t, e) \in Service
  BY <1>1, SmallTypes DEF HandleComplete, Unless
<1>3. HandleCancel(s, e) \in Service
  BY <1>2, SmallTypes DEF HandleCancel, Unless
<1> QED BY <1>1, <1>2, <1>3

LEMMA WriteTypes ==
  ASSUME NEW s \in Service, NEW text \in Texts, NEW chars \in Strings
  PROVE  /\ AddComposingAndChar(s, text) \in Service
         /\ AddCharAndFinalize(s, chars) \in Service
         /\ NotifyCommitted(s, text) \in Service
<1>1. AddComposingAndChar(s, text) \in Service
  <2> DEFINE put(exist) == IF exist THEN [s EXCEPT !.text = text, !.caret = "end"]
                                    ELSE [s EXCEPT !.doc = @ \o Line(text)]
             where == FindComposingRange(s)
  <2>1. s.doc \o Line(text) \in Strings
    BY FieldTypes, TextTypes, StringTypes
  <2>2. \A exist : put(exist) \in Service
    BY <2>1 DEF Service
  <2>3. AddComposingAndChar(s, text) \in {put(where), Fault(put(where))}
    BY DEF AddComposingAndChar, SetInputString
  <2> HIDE DEF put
  <2> QED BY <2>2, <2>3, SmallTypes
<1>2. AddCharAndFinalize(s, chars) \in Service
  BY StringTypes DEF Service, AddCharAndFinalize
<1>3. NotifyCommitted(s, text) \in Service
  <2>1. BufferReading(s.buf) \in Strings
    BY FieldTypes, BufferIs
  <2> QED BY <2>1 DEF Service, NotifyCommitted
<1> QED BY <1>1, <1>2, <1>3

LEMMA ChosenTypes ==
  ASSUME NEW s \in Service
  PROVE  CandidateText(s.list) \in Texts /\ BufferDisplay(s.buf) \in Texts /\ Fetched(s.text) \in Texts
BY FieldTypes, StringTypes, BufferIs, FetchedIs DEF CandidateText

LEMMA KeyTypes ==
  ASSUME NEW s \in Service, NEW id \in KeyIds, NEW e, e.effect \in Effects
  PROVE  /\ AddVirtualKey(s, id, e) \in Service
         /\ AddVirtualKey(s, id, e).buf = BufferAfterKeystroke(s.buf, id, e.effect)
<1> DEFINE after == BufferAfterKeystroke(s.buf, id, e.effect)
           more  == (CharsOf(s.buf.letters) \union {id}) \ CharsOf(Line(after))
<1>1. after \in Texts
  BY FieldTypes, AfterIs
<1>2. more \subseteq KeyIds
  BY FieldTypes, TextTypes, StringTypes
<1>3. AddVirtualKey(s, id, e) = [s EXCEPT !.buf = after, !.spent = @ \union more]
  BY DEF AddVirtualKey
<1> HIDE DEF after, more
<1>4. [s EXCEPT !.buf = after, !.spent = @ \union more] \in Service
  BY <1>1, <1>2 DEF Service
<1>5. [s EXCEPT !.buf = after, !.spent = @ \union more].buf = after
  BY DEF Service
<1> QED BY <1>3, <1>4, <1>5 DEF after

LEMMA FrontOfConcat ==
  ASSUME NEW k \in Strings, NEW l \in Strings, l # <<>>
  PROVE  SubSeq(k \o l, 1, (Len(k) + Len(l)) - 1) = k \o SubSeq(l, 1, Len(l) - 1)
<1> DEFINE m == (Len(k) + Len(l)) - 1
           n == Len(l) - 1
           a == SubSeq(k \o l, 1, m)
           b == SubSeq(l, 1, n)
<1>1. /\ Len(k) \in Nat /\ Len(l) \in Nat /\ n \in 0..Len(l) /\ m = Len(k) + n /\ n < Len(l)
      /\ k \in Seq(KeyIds) /\ l \in Seq(KeyIds)
  BY StringTypes DEF Strings
<1>2. /\ k \o l \in Seq(KeyIds) /\ Len(k \o l) = Len(k) + Len(l)
      /\ \A i \in 1..(Len(k) + Len(l)) : (k \o l)[i] = IF i <= Len(k) THEN k[i] ELSE l[i - Len(k)]
  BY <1>1, ConcatProperties
<1> HIDE DEF m, n
<1>3. m \in 0..Len(k \o l)
  BY <1>1, <1>2
<1>4. /\ a \in Seq(KeyIds) /\ Len(a) = m /\ \A i \in 1..m : a[i] = (k \o l)[i]
      /\ b \in Seq(KeyIds) /\ Len(b) = n /\ \A i \in 1..n : b[i] = l[i]
  <2>1. ASSUME NEW q \in Seq(KeyIds), NEW j \in 0..Len(q)
        PROVE  LET u == SubSeq(q, 1, j)
               IN  u \in Seq(KeyIds) /\ Len(u) = j /\ \A i \in 1..j : u[i] = q[i]
    <3>1. j \in Nat /\ \A i \in 1..j : i \in 1..Len(q) /\ q[i] \in KeyIds
      BY <2>1
    <3>2. /\ SubSeq(q, 1, j) \in Seq(KeyIds)
          /\ Len(SubSeq(q, 1, j)) = IF 1 <= j THEN (j - 1) + 1 ELSE 0
          /\ \A i \in 1..((j - 1) + 1) : SubSeq(q, 1, j)[i] = q[(1 + i) - 1]
      BY <3>1, SubSeqProperties
    <3> QED BY <3>1, <3>2
  <2> QED BY <1>1, <1>2, <1>3, <2>1
<1> HIDE DEF a, b
<1>5. /\ k \o b \in Seq(KeyIds) /\ Len(k \o b) = Len(k) + n
      /\ \A i \in 1..(Len(k) + n) : (k \o b)[i] = IF i <= Len(k) THEN k[i] ELSE b[i - Len(k)]
  <2>1. /\ k \o b \in Seq(KeyIds) /\ Len(k \o b) = Len(k) + Len(b)
        /\ \A i \in 1..(Len(k) + Len(b)) : (k \o b)[i] = IF i <= Len(k) THEN k[i] ELSE b[i - Len(k)]
    BY <1>1, <1>4, ConcatProperties
  <2> QED BY <1>4, <2>1
<1>6. ASSUME NEW i \in 1..m PROVE a[i] = (k \o b)[i]
  <2>1. i \in Nat /\ i >= 1 /\ i <= Len(k) + n
    BY <1>1, <1>6
  <2>2. CASE i <= Len(k)
    BY <1>1, <1>2, <1>4, <1>5, <2>1, <2>2
  <2>3. CASE ~(i <= Len(k))
    <3>1. i - Len(k) \in 1..n /\ i \in 1..(Len(k) + Len(l)) /\ i \in 1..(Len(k) + n)
      BY <1>1, <2>1, <2>3
    <3> QED BY <1>2, <1>4, <1>5, <2>3, <3>1
  <2> QED BY <2>2, <2>3
<1>7. Len(a) = Len(k \o b) /\ \A i \in 1..Len(a) : a[i] = (k \o b)[i]
  BY <1>1, <1>4, <1>5, <1>6
<1>8. a = k \o b
  BY <1>4, <1>5, <1>7, SeqEqual
<1> QED BY <1>8 DEF a, b, m, n

LEMMA BackTypes ==
  ASSUME NEW s \in Service, s.buf # NoText
  PROVE  LET r == RemoveVirtualKey(s)
         IN  /\ r \in Service /\ r.buf \in Texts /\ r = [s EXCEPT !.buf = r.buf]
             /\ Line(r.buf) = SubSeq(Line(s.buf), 1, Len(Line(s.buf)) - 1)
<1> DEFINE front(q) == SubSeq(q, 1, Len(q) - 1)
           k == s.buf.kana
           l == s.buf.letters
           left == IF l # <<>> THEN [kana |-> k, letters |-> front(l)]
                               ELSE [kana |-> front(k), letters |-> <<>>]
<1>1. k \in Strings /\ l \in Strings /\ s.buf = [kana |-> k, letters |-> l] /\ <<>> \in Strings
  BY FieldTypes, TextTypes, StringTypes
<1>2. \A q \in Strings : q # <<>> => front(q) \in Strings
  <2> SUFFICES ASSUME NEW q \in Strings, q # <<>> PROVE front(q) \in Strings
    OBVIOUS
  <2>1. Len(q) \in Nat /\ Len(q) # 0
    BY StringTypes
  <2>2. Len(q) - 1 \in Nat /\ Len(q) - 1 <= Len(q)
    BY <2>1
  <2> QED BY <2>2, StringTypes
<1>3. l = <<>> => k # <<>>
  BY <1>1 DEF NoText
<1>4. left \in Texts
  BY <1>1, <1>2, <1>3, StringTypes
<1>5. RemoveVirtualKey(s) = [s EXCEPT !.buf = left]
  <2>1. [s.buf EXCEPT !.letters = front(@)] = [kana |-> k, letters |-> front(l)]
    BY <1>1
  <2>2. [s.buf EXCEPT !.kana = front(@)] = [kana |-> front(k), letters |-> l]
    BY <1>1
  <2>3. CASE l # <<>>
    BY <2>1, <2>3, ZenonT(60) DEF RemoveVirtualKey
  <2>4. CASE l = <<>>
    BY <2>2, <2>4, ZenonT(60) DEF RemoveVirtualKey
  <2> QED BY <2>3, <2>4
<1>6. Line(left) = front(Line(s.buf))
  <2>1. CASE l # <<>>
    <3>1. Len(l) \in Nat /\ Len(k) \in Nat /\ Len(l) >= 1
      BY <1>1, <2>1, StringTypes
    <3>2. Len(k \o l) = Len(k) + Len(l)
      BY <1>1, ConcatProperties DEF Strings
    <3>3. SubSeq(k \o l, 1, (Len(k) + Len(l)) - 1) = k \o SubSeq(l, 1, Len(l) - 1)
      BY <1>1, <2>1, <3>1, FrontOfConcat
    <3> QED BY <1>1, <2>1, <3>2, <3>3 DEF Line
  <2>2. CASE l = <<>>
    <3>1. k \o l = k /\ front(k) \o <<>> = front(k)
      BY <1>1, <1>2, <1>3, <2>2, EmptyEnd
    <3> QED BY <1>1, <2>2, <3>1 DEF Line
  <2> QED BY <2>1, <2>2
<1> HIDE DEF left
<1>7. [s EXCEPT !.buf = left] \in Service /\ [s EXCEPT !.buf = left].buf = left
  BY <1>4 DEF Service
<1> QED BY <1>4, <1>5, <1>6, <1>7

LEMMA WorkerTypes ==
  ASSUME NEW s \in Service
  PROVE  HandleCompositionInputWorker(s) \in Service
<1> DEFINE shown == IF GetReadingStrings(s) = {} THEN s ELSE AddComposingAndChar(s, BufferDisplay(s.buf))
<1>1. shown \in Service
  BY ChosenTypes, WriteTypes, StringTypes
<1>2. HandleCompositionInputWorker(s) \in {shown, Fault(shown), [shown EXCEPT !.list = <<>>]}
  BY DEF HandleCompositionInputWorker, Unless
<1> HIDE DEF shown
<1>3. [shown EXCEPT !.list = <<>>] \in Service
  BY <1>1, StringTypes DEF Service
<1> QED BY <1>1, <1>2, <1>3, SmallTypes

LEMMA FinalizeTypes ==
  ASSUME NEW s \in Service, NEW e, NEW isCandidateList \in BOOLEAN
  PROVE  HandleCompositionFinalize(s, isCandidateList, e) \in Service
<1> DEFINE told   == NotifyCommitted(AddCharAndFinalize(s, s.list), CandidateText(s.list))
           learnt == NotifyCommitted(s, Fetched(s.text))
<1>1. told \in Service
  <2>1. AddCharAndFinalize(s, s.list) \in Service
    BY FieldTypes, WriteTypes, StringTypes
  <2> HIDE DEF told
  <2> QED BY <2>1, ChosenTypes, WriteTypes, StringTypes DEF told
<1>2. learnt \in Service
  BY ChosenTypes, WriteTypes, StringTypes
<1>3. /\ HandleCancel(told, e) \in Service
      /\ HandleCancel(TerminateComposition(learnt, e), e) \in Service
      /\ HandleCancel(s, e) \in Service
  <2> HIDE DEF told, learnt
  <2> QED BY <1>1, <1>2, EndTypes
<1> QED BY <1>3, SmallTypes DEF HandleCompositionFinalize

LEMMA InputTypes ==
  ASSUME NEW s \in Service, NEW e, e.effect \in Effects, NEW id \in KeyIds
  PROVE  HandleCompositionInput(s, id, e) \in Service
<1> DEFINE settled == IF s.pres /\ s.mode # "none"
                      THEN HandleCompositionFinalize(s, FALSE, e) ELSE s
           started == IF settled.comp THEN settled ELSE StartComposition(settled, e)
           spelled == AddVirtualKey(started, id, e)
<1>1. HandleCompositionInput(s, id, e) =
        Unless(settled,
          IF ~started.comp THEN Fault(started)
          ELSE IF ~Covered(started) THEN started
          ELSE IF ~started.engine THEN Fault(started)
          ELSE HandleCompositionInputWorker(spelled))
  BY DEF HandleCompositionInput
<1>2. settled \in Service
  BY FinalizeTypes
<1> HIDE DEF settled
<1>3. started \in Service
  BY <1>2, SmallTypes
<1> HIDE DEF started
<1>4. spelled \in Service
  BY <1>3, KeyTypes
<1> HIDE DEF spelled
<1> QED BY <1>1, <1>2, <1>3, <1>4, SmallTypes, WorkerTypes DEF Unless

LEMMA ConvertTypes ==
  ASSUME NEW s \in Service, NEW e
  PROVE  HandleCompositionConvert(s, e) \in Service
<1> DEFINE asked   == [EndCandidateList(s) EXCEPT !.pres = TRUE, !.mode = "original"]
           found   == GetCandidateList(s, e)
           offered == [asked EXCEPT !.wnd = TRUE, !.list = found]
<1>1. EndCandidateList(s) \in Service /\ found \in Strings
  BY SmallTypes, FieldTypes, StringTypes, BufferIs DEF GetCandidateList
<1>2. asked \in Service
  BY <1>1 DEF Service
<1>3. HandleCompositionConvert(s, e) =
        IF ~s.engine THEN Fault(s)
        ELSE IF found = <<>> THEN s
        ELSE IF ~s.comp THEN Fault(asked)
        ELSE IF ~e.window THEN asked ELSE offered
  BY DEF HandleCompositionConvert
<1> HIDE DEF asked, found
<1>4. offered \in Service
  BY <1>1, <1>2 DEF Service
<1> QED BY <1>2, <1>3, <1>4, SmallTypes

LEMMA BackspaceTypes ==
  ASSUME NEW s \in Service, NEW e
  PROVE  HandleCompositionBackspace(s, e) \in Service
<1> DEFINE left == RemoveVirtualKey(s)
<1>1. s.buf # NoText => left \in Service
  BY BackTypes
<1>2. s.buf # NoText <=> Line(s.buf) # <<>>
  BY FieldTypes, TextTypes
<1>3. Len(Line(s.buf)) = 0 <=> Line(s.buf) = <<>>
  BY FieldTypes, TextTypes, StringTypes
<1>4. /\ s.buf = NoText => HandleCompositionBackspace(s, e) \in {s, Fault(s)}
      /\ s.buf # NoText => HandleCompositionBackspace(s, e)
                             \in {s, Fault(s), HandleCancel(left, e), HandleCompositionInputWorker(left)}
  BY <1>2, <1>3 DEF HandleCompositionBackspace
<1> HIDE DEF left
<1> QED BY <1>1, <1>4, SmallTypes, EndTypes, WorkerTypes

LEMMA CandidateTypes ==
  ASSUME NEW s \in Service, NEW e
  PROVE  /\ HandleCompositionPunctuation(s, e) \in Service
         /\ HandleCompositionDoubleSingleByte(s, e) \in Service
         /\ HandleCandidateFinalize(s, e) \in Service
         /\ HandleCandidateSelectByNumber(s, e) \in Service
<1> DEFINE chosen == AddComposingAndChar(s, CandidateText(s.list))
<1>0. chosen \in Service
  BY ChosenTypes, WriteTypes, StringTypes
<1>1. HandleCompositionPunctuation(s, e) \in Service
  <2> DEFINE placed == IF (s.mode # "none" /\ s.pres) /\ s.list # <<>> THEN chosen ELSE s
  <2>1. placed \in Service
    BY <1>0
  <2>2. HandleCompositionPunctuation(s, e)
          \in {Fault(s), placed, HandleCancel(AddCharAndFinalize(placed, <<>>), e)}
    BY DEF HandleCompositionPunctuation, Unless
  <2> HIDE DEF placed
  <2>3. AddCharAndFinalize(placed, <<>>) \in Service
    BY <2>1, WriteTypes, StringTypes
  <2> QED BY <2>1, <2>2, <2>3, SmallTypes, EndTypes
<1>2. HandleCompositionDoubleSingleByte(s, e) \in Service
  <2>1. AddCharAndFinalize(s, <<>>) \in Service
    BY WriteTypes, StringTypes
  <2> QED BY <2>1, EndTypes DEF HandleCompositionDoubleSingleByte
<1>3. HandleCandidateFinalize(s, e) \in Service
  <2> DEFINE told == NotifyCommitted(chosen, CandidateText(s.list))
  <2> HIDE DEF chosen
  <2>1. told \in Service
    BY <1>0, ChosenTypes, WriteTypes, StringTypes
  <2>2. HandleCandidateFinalize(s, e)
          \in {Fault(s), chosen, HandleComplete(told, e), HandleComplete(s, e)}
    BY DEF HandleCandidateFinalize, Unless, chosen
  <2> HIDE DEF told
  <2> QED BY <1>0, <2>1, <2>2, SmallTypes, EndTypes
<1>4. HandleCandidateSelectByNumber(s, e) \in Service
  BY <1>3, SmallTypes DEF HandleCandidateSelectByNumber, HandleCandidateWorker
<1> QED BY <1>1, <1>2, <1>3, <1>4

LEMMA SessionTypes ==
  ASSUME NEW s \in Service, NEW e, e.effect \in Effects,
         NEW session, Spells(session) => session.id \in KeyIds
  PROVE  DoEditSession(s, session, e) \in Service
<1> DEFINE id == session.id
           chosen == HandleCandidateFinalize(s, e)
           both == Unless(chosen, HandleCompositionInput(chosen, id, e))
<1>1. HandleCompositionFinalize(s, FALSE, e) \in Service /\ HandleCompositionFinalize(s, TRUE, e) \in Service
  BY FinalizeTypes
<1>2. Fault(s) \in Service
  BY SmallTypes
<1>3. session.fn = "input" => HandleCompositionInput(s, id, e) \in Service
  BY InputTypes DEF Spells
<1>4. session.fn = "finalizeCandidateListAndInput" => both \in Service
  <2>1. chosen \in Service
    BY CandidateTypes
  <2> HIDE DEF chosen
  <2> QED BY <2>1, InputTypes DEF Spells, Unless
<1>5. HandleCompositionArrowKey(s) \in Service /\ HandleCandidateArrowKey(s) \in Service
  BY <1>2 DEF HandleCompositionArrowKey, HandleCandidateArrowKey
<1> QED BY <1>1, <1>3, <1>4, <1>5, EndTypes, ConvertTypes, BackspaceTypes, CandidateTypes
        DEF DoEditSession

-----------------------------------------------------------------------------
(* The steps keep every type.                                              *)

Sessions == [class : {"keyHandler", "endComposition"},
             cat   : {"composing", "candidate", "invoke", "none"},
             fn    : {"none"} \union UNION {Implemented[c] : c \in DOMAIN Implemented},
             id    : 0..MaxTyped]

SpelledIds == \A i \in DOMAIN queue : Spells(queue[i]) => queue[i].id \in KeyIds

TInv == TypeOK /\ SpelledIds /\ typed \in 0..host.spelled

LEMMA TypeIs ==
  TypeOK <=> /\ host \in Hosts /\ ts \in Service /\ queue \in Seq(Sessions)
             /\ typed \in 0..MaxTyped /\ erased \subseteq KeyIds
BY DEF TypeOK, Sessions

LEMMA HostIs ==
  ASSUME host \in Hosts
  PROVE  /\ host.effects \subseteq Effects /\ host.keys \subseteq Keys
         /\ host.spelled \in 0..MaxTyped /\ host.spelled \in Nat /\ host.waits \in Nat
         /\ MaxTyped \in Nat /\ KeyIds \subseteq Int
BY TextServiceAssumption DEF HostType, KeyIds

LEMMA EffectIs ==
  ASSUME host \in Hosts, NEW session, NEW e \in Choices(session)
  PROVE  e.effect \in Effects
<1>1. e.effect \in host.effects \union {"stray"}
  BY DEF Choices
<1> QED BY <1>1, HostIs DEF Effects

LEMMA QueueGrows ==
  ASSUME NEW session \in Sessions, queue \in Seq(Sessions), Request(session)
  PROVE  /\ queue' \in Seq(Sessions) /\ DOMAIN queue' = DOMAIN queue \union {Len(queue) + 1}
         /\ Len(queue) \in Nat /\ DOMAIN queue = 1..Len(queue)
         /\ \A i \in DOMAIN queue : queue'[i] = queue[i]
         /\ queue'[Len(queue) + 1] = session
<1>1. queue' = Append(queue, session)
  BY DEF Request
<1>2. /\ queue' \in Seq(Sessions) /\ Len(queue') = Len(queue) + 1
      /\ \A i \in 1..Len(queue) : queue'[i] = queue[i]
      /\ queue'[Len(queue) + 1] = session
  BY <1>1, AppendProperties
<1>3. DOMAIN queue = 1..Len(queue) /\ DOMAIN queue' = 1..(Len(queue) + 1) /\ Len(queue) \in Nat
  BY <1>2, LenProperties
<1> QED BY <1>2, <1>3

LEMMA QueueShrinks ==
  ASSUME queue \in Seq(Sessions), queue # <<>>, queue' = Tail(queue)
  PROVE  /\ queue' \in Seq(Sessions) /\ 1 \in DOMAIN queue /\ queue[1] = Head(queue)
         /\ DOMAIN queue' \subseteq Nat \ {0}
         /\ \A i \in DOMAIN queue' : i + 1 \in DOMAIN queue /\ queue'[i] = queue[i + 1]
<1>1. /\ queue' \in Seq(Sessions) /\ Len(queue') = Len(queue) - 1
      /\ \A i \in 1..Len(queue') : queue'[i] = queue[i + 1]
  BY HeadTailProperties
<1>2. Len(queue) \in Nat /\ Len(queue) > 0 /\ DOMAIN queue = 1..Len(queue)
      /\ DOMAIN queue' = 1..Len(queue')
  BY <1>1, LenProperties, EmptySeq
<1>3. Head(queue) = queue[1]
  OBVIOUS
<1> QED BY <1>1, <1>2, <1>3

LEMMA Asked ==
  ASSUME queue \in Seq(Sessions), SpelledIds, NEW session \in Sessions, Request(session),
         Spells(session) => session.id \in KeyIds
  PROVE  queue' \in Seq(Sessions) /\ SpelledIds'
BY QueueGrows DEF SpelledIds

Clicked == KeySession("candidate", "finalizeCandidateList", 0)

LEMMA SessionTyped ==
  /\ EndSession \in Sessions /\ ~Spells(EndSession)
  /\ Clicked \in Sessions /\ ~Spells(Clicked) /\ Clicked.class = "keyHandler"
<1>1. "finalizeCandidateList" \in UNION {Implemented[c] : c \in DOMAIN Implemented}
  BY DEF Implemented, ListFns
<1>2. 0 \in 0..MaxTyped
  BY TextServiceAssumption
<1> DEFINE fns == {"none"} \union UNION {Implemented[c] : c \in DOMAIN Implemented}
<1>3. "finalizeCandidateList" \in fns /\ "none" \in fns
  BY <1>1
<1>4. Sessions = [class : {"keyHandler", "endComposition"},
                  cat : {"composing", "candidate", "invoke", "none"}, fn : fns, id : 0..MaxTyped]
  BY DEF Sessions
<1> HIDE DEF fns
<1> QED BY <1>2, <1>3, <1>4 DEF EndSession, Clicked, KeySession, Spells

LEMMA RanTypes ==
  ASSUME NEW s \in Service, Ran(s)
  PROVE  ts' \in Service
BY DEF Ran, Service

LEMMA LeavesTypes ==
  ASSUME ts \in Service, NEW session
  PROVE  Leaves(session) \subseteq KeyIds
<1>1. CharsOf(Line(ts.text)) \subseteq KeyIds /\ CharsOf(ts.text.letters) \subseteq KeyIds
  BY FieldTypes, TextTypes, StringTypes
<1> QED BY <1>1 DEF Leaves

(* What a key is understood on is a situation the tables are sound in.     *)
LEMMA NowIsUsed ==
  ASSUME ts \in Service
  PROVE  /\ Now \in UsedSituations
         /\ Now.mode = ts.mode /\ ~Now.wide /\ (Now.buffered <=> ts.buf # NoText)
         /\ \A disabled, wide \in BOOLEAN :
              [Now EXCEPT !.disabled = disabled, !.wide = wide] \in UsedSituations
<1> DEFINE buffered == Line(ts.buf) # <<>>
<1>1. ts.mode \in UsedModes /\ ts.open \in BOOLEAN /\ ts.comp \in BOOLEAN
  BY FieldTypes
<1>2. /\ Now = [open |-> ts.open, disabled |-> FALSE, wide |-> FALSE,
                composing |-> ts.comp, mode |-> ts.mode, buffered |-> buffered]
      /\ buffered \in BOOLEAN
  BY ZenonT(60) DEF Now
<1>3. buffered <=> ts.buf # NoText
  BY FieldTypes, TextTypes
<1> HIDE DEF buffered
<1>4. Now \in UsedSituations
  BY <1>1, <1>2 DEF UsedSituations, Situations, UsedModes, Modes
<1>5. Now.mode = ts.mode /\ ~Now.wide /\ (Now.buffered <=> ts.buf # NoText)
  BY <1>2, <1>3
<1>6. ASSUME NEW disabled \in BOOLEAN, NEW wide \in BOOLEAN
      PROVE  [Now EXCEPT !.disabled = disabled, !.wide = wide] \in UsedSituations
  BY <1>1, <1>2 DEF UsedSituations, Situations, UsedModes, Modes
<1> QED BY <1>4, <1>5, <1>6

(* What a key that is pressed asks for.                                    *)
Pressed(k) == KeySession(SessionOf(k, Now).cat, SessionOf(k, Now).fn, typed')

LEMMA KeyDownIs ==
  ASSUME TInv, NEW k \in host.keys, KeyDown(k), host' = host
  PROVE  /\ UNCHANGED <<ts, erased>>
         /\ Understood(SessionOf(k, Now), k, Now)
         /\ Pressed(k) \in Sessions /\ Pressed(k).class = "keyHandler" /\ Pressed(k).id = typed'
         /\ Pressed(k).fn = SessionOf(k, Now).fn /\ Pressed(k).cat = SessionOf(k, Now).cat
         /\ typed' \in 0..host.spelled
         /\ \/ UNCHANGED <<queue, typed>>
            \/ /\ Request(Pressed(k))
               /\ typed' = typed + (IF Spells(Pressed(k)) THEN 1 ELSE 0)
<1> DEFINE session == SessionOf(k, Now)
           asked   == Pressed(k)
<1>1. /\ typed \in 0..host.spelled /\ host.spelled \in 0..MaxTyped /\ MaxTyped \in Nat
      /\ k \in Keys /\ ts \in Service
  BY HostIs, TypeIs DEF TInv
<1>2. /\ UNCHANGED <<ts, erased>>
      /\ \/ session = NoSession /\ UNCHANGED <<queue, typed>>
         \/ /\ typed' = typed + (IF Spells(session) THEN 1 ELSE 0)
            /\ typed' <= host.spelled /\ Request(asked)
  BY DEF KeyDown, SessionOf, Pressed
<1>3. Understood(session, k, Now)
  BY <1>1, NowIsUsed, SessionIsUnderstood
<1>4. asked = [class |-> "keyHandler", cat |-> session.cat, fn |-> session.fn, id |-> typed']
      /\ (Spells(asked) <=> Spells(session))
  BY DEF KeySession, Spells, Pressed
<1>5. Pressed(k) = asked
  OBVIOUS
<1> HIDE DEF session, asked
<1>6. typed' \in 0..host.spelled
  BY <1>1, <1>2
<1>7. session.fn \in {"none"} \union UNION {Implemented[c] : c \in DOMAIN Implemented}
  <2>1. {"composing", "candidate"} \subseteq DOMAIN Implemented
    BY DEF Implemented
  <2>2. session.fn \in Implemented["composing"] \union Implemented["candidate"] \union {"none"}
    BY <1>3 DEF Understood
  <2> QED BY <2>1, <2>2
<1>8. session.cat \in {"composing", "candidate", "invoke", "none"}
  BY <1>3 DEF Understood
<1>9. typed' \in 0..MaxTyped
  BY <1>1, <1>6
<1>10. asked \in Sessions
  BY <1>4, <1>7, <1>8, <1>9 DEF Sessions
<1>11. asked.class = "keyHandler" /\ asked.id = typed' /\ asked.fn = session.fn /\ asked.cat = session.cat
  BY <1>4
<1> QED BY <1>2, <1>3, <1>4, <1>5, <1>6, <1>10, <1>11 DEF session

LEMMA KeyDownTypes ==
  ASSUME TInv, NEW k \in host.keys, KeyDown(k), host' = host
  PROVE  queue' \in Seq(Sessions) /\ SpelledIds' /\ typed' \in 0..host.spelled
<1>1. /\ typed \in 0..host.spelled /\ host.spelled \in 0..MaxTyped /\ MaxTyped \in Nat
      /\ queue \in Seq(Sessions) /\ SpelledIds
  BY HostIs, TypeIs DEF TInv
<1>2. typed' \in 0..host.spelled /\ Pressed(k) \in Sessions /\ Pressed(k).id = typed'
  BY KeyDownIs
<1>3. CASE UNCHANGED <<queue, typed>>
  BY <1>1, <1>3 DEF SpelledIds
<1>4. CASE Request(Pressed(k)) /\ typed' = typed + (IF Spells(Pressed(k)) THEN 1 ELSE 0)
  <2>1. Spells(Pressed(k)) => typed' \in KeyIds
    BY <1>1, <1>2, <1>4 DEF KeyIds
  <2> QED BY <1>1, <1>2, <1>4, <2>1, Asked
<1> QED BY <1>3, <1>4, KeyDownIs

LEMMA RunTypes ==
  ASSUME TInv, RunSession, host' = host
  PROVE  /\ ts' \in Service /\ queue' \in Seq(Sessions) /\ SpelledIds'
         /\ typed' = typed /\ erased' \subseteq KeyIds
<1>1. /\ ts \in Service /\ queue \in Seq(Sessions)
      /\ erased \subseteq KeyIds /\ queue # <<>> /\ SpelledIds
      /\ queue' = Tail(queue) /\ typed' = typed /\ host \in Hosts
  BY TypeIs DEF TInv, RunSession
<1>2. /\ queue' \in Seq(Sessions) /\ 1 \in DOMAIN queue /\ queue[1] = Head(queue)
      /\ \A i \in DOMAIN queue' : i + 1 \in DOMAIN queue /\ queue'[i] = queue[i + 1]
  BY <1>1, QueueShrinks
<1>3. SpelledIds' /\ (Spells(Head(queue)) => Head(queue).id \in KeyIds)
  BY <1>1, <1>2 DEF SpelledIds
<1>4. PICK e \in Choices(Head(queue)) : Ran(DoEditSession(ts, Head(queue), e))
  BY DEF RunSession
<1>5. DoEditSession(ts, Head(queue), e) \in Service
  BY <1>1, <1>3, EffectIs, SessionTypes
<1>6. ts' \in Service
  BY <1>1, <1>4, <1>5, RanTypes
<1>7. erased' \subseteq KeyIds
  BY <1>1, LeavesTypes DEF RunSession
<1> QED BY <1>1, <1>2, <1>3, <1>6, <1>7

LEMMA TInit == Init => TInv
<1> SUFFICES ASSUME Init PROVE TInv
  OBVIOUS
<1>1. ts \in Service
  <2>1. [text |-> NoText, reading |-> <<>>] \in [text : Texts, reading : Strings]
    BY StringTypes
  <2> QED BY <2>1, StringTypes DEF Init, Service
<1>2. queue \in Seq(Sessions) /\ SpelledIds
  BY DEF Init, SpelledIds
<1>3. host \in Hosts /\ typed = 0 /\ erased = {}
  BY DEF Init
<1>4. 0 \in 0..MaxTyped /\ 0 \in 0..host.spelled
  BY <1>3, HostIs
<1> QED BY <1>1, <1>2, <1>3, <1>4, TypeIs DEF TInv

LEMMA TNext == TInv /\ [Next]_vars => TInv'
<1> SUFFICES ASSUME TInv, [Next]_vars PROVE TInv'
  OBVIOUS
<1>0. /\ ts \in Service /\ queue \in Seq(Sessions) /\ typed \in 0..host.spelled /\ host \in Hosts
      /\ erased \subseteq KeyIds /\ SpelledIds
  BY TypeIs DEF TInv
<1>1. host' = host
  BY DEF Next, vars
<1>2. SUFFICES /\ ts' \in Service /\ queue' \in Seq(Sessions) /\ SpelledIds'
               /\ typed' \in 0..host.spelled /\ erased' \subseteq KeyIds
  <2>1. typed' \in 0..MaxTyped
    BY <1>0, <1>2, HostIs
  <2>2. TypeOK'
    BY <1>0, <1>1, <1>2, <2>1 DEF TypeOK, Sessions
  <2> QED BY <1>1, <1>2, <2>2 DEF TInv
<1>3. CASE UNCHANGED vars
  BY <1>0, <1>3 DEF vars, SpelledIds
<1>4. CASE RunSession
  BY <1>0, <1>1, <1>4, RunTypes
<1>5. CASE \E k \in host.keys : KeyDown(k)
  <2>1. UNCHANGED <<ts, erased>>
    BY <1>5 DEF KeyDown
  <2> QED BY <1>0, <1>1, <1>5, <2>1, KeyDownTypes
<1>6. CASE \E c \in {"end", "before", "after"} : MoveCaret(c)
  <2>1. PICK c \in {"end", "before", "after"} : MoveCaret(c)
    BY <1>6
  <2>2. /\ ts' = [ts EXCEPT !.caret = c] /\ UNCHANGED <<typed, erased>>
        /\ UNCHANGED queue \/ Request(EndSession)
    BY <2>1 DEF MoveCaret
  <2>3. ts' \in Service
    BY <1>0, <2>2 DEF Service
  <2>4. queue' \in Seq(Sessions) /\ SpelledIds'
    BY <1>0, <2>2, Asked, SessionTyped DEF SpelledIds
  <2> QED BY <1>0, <2>2, <2>3, <2>4
<1>7. CASE Click
  <2>1. /\ UNCHANGED typed
        /\ \/ /\ UNCHANGED queue /\ \E e \in Choices(Clicked) : Ran(DoEditSession(ts, Clicked, e))
              /\ erased' = erased \union (Leaves(Clicked) \ Present(ts'))
           \/ Request(Clicked) /\ UNCHANGED <<ts, erased>>
    BY <1>7 DEF Click, Clicked
  <2>2. ts' \in Service
    BY <1>0, <2>1, SessionTyped, EffectIs, SessionTypes, RanTypes
  <2>3. queue' \in Seq(Sessions) /\ SpelledIds'
    BY <1>0, <2>1, SessionTyped, Asked DEF SpelledIds
  <2>4. erased' \subseteq KeyIds
    BY <1>0, <2>1, LeavesTypes
  <2> QED BY <1>0, <2>1, <2>2, <2>3, <2>4
<1>8. CASE OnCompositionTerminated
  <2> DEFINE ended(e) == TerminateComposition(RemoveDummyCompositionForComposing(ts), e)
  <2>1. PICK e \in Choices(EndSession) :
          Ran(IF ~ts.ctx THEN Fault(ts) ELSE Unless(ended(e), DeleteCandidateList(ended(e))))
    BY <1>8 DEF OnCompositionTerminated
  <2>2. ended(e) \in Service
    BY <1>0, SmallTypes, EndTypes
  <2> HIDE DEF ended
  <2>3. (IF ~ts.ctx THEN Fault(ts) ELSE Unless(ended(e), DeleteCandidateList(ended(e)))) \in Service
    BY <1>0, <2>2, SmallTypes DEF Unless
  <2>4. ts' \in Service
    BY <1>0, <2>1, <2>3, RanTypes
  <2> QED BY <1>0, <1>8, <2>4 DEF OnCompositionTerminated, SpelledIds
<1>9. CASE OnActivatedOff
  BY <1>0, <1>9, SmallTypes, RanTypes DEF OnActivatedOff, SpelledIds
<1>10. CASE LayoutDestroyed
  BY <1>0, <1>10, SmallTypes DEF LayoutDestroyed, SpelledIds
<1>11. CASE OpenClose
  <2>1. ts' = [ts EXCEPT !.open = ~@] /\ UNCHANGED <<queue, typed, erased>>
    BY <1>11 DEF OpenClose
  <2>2. ts' \in Service
    BY <1>0, <2>1 DEF Service
  <2> QED BY <1>0, <2>1, <2>2 DEF SpelledIds
<1>12. CASE Deactivate
  <2> DEFINE off == [ts EXCEPT !.engine = FALSE]
  <2>1. /\ ts' = IF ts.pres THEN [EndCandidateList(off) EXCEPT !.pres = FALSE, !.mode = "none"]
                            ELSE off
        /\ UNCHANGED <<typed, erased>>
        /\ UNCHANGED queue \/ Request(EndSession)
    BY <1>12 DEF Deactivate
  <2>2. off \in Service
    BY <1>0 DEF Service
  <2> HIDE DEF off
  <2>3. EndCandidateList(off) \in Service
    BY <2>2, SmallTypes
  <2>4. ts' \in Service
    BY <2>1, <2>2, <2>3 DEF Service
  <2>5. queue' \in Seq(Sessions) /\ SpelledIds'
    BY <1>0, <2>1, Asked, SessionTyped DEF SpelledIds
  <2> QED BY <1>0, <2>1, <2>4, <2>5
<1> QED BY <1>3, <1>4, <1>5, <1>6, <1>7, <1>8, <1>9, <1>10, <1>11, <1>12
        DEF Next, UserStep, HostStep

LEMMA Typed == Spec => []TInv
BY TInit, TNext, PTL DEF Spec

(* Every variable keeps its type, in every host: no handler, sink or fault *)
(* leaves the service in a state the code has no words for.                *)
THEOREM TypeOKHolds == Spec => []TypeOK
<1>1. TInv => TypeOK
  BY DEF TInv
<1> QED BY <1>1, Typed, PTL

(* Wherever the sessions of any host leave the service, every key it takes *)
(* is handled, the others are left alone key-down and key-up alike, and    *)
(* kana can be typed on.                                                   *)
THEOREM RoutingIsSoundHolds == Spec => []RoutingIsSound
<1>1. TInv => RoutingIsSound
  BY TypeIs, NowIsUsed, UsedIsSound DEF TInv, RoutingIsSound
<1> QED BY <1>1, Typed, PTL

-----------------------------------------------------------------------------
(* The invariant.                                                          *)

Shaped(s) == s = [f \in Fields |-> s[f]]

\* LearnedIsRead, of a text and what is sent for its reading.
Reads(text, read) ==
  \/ text.kana = read
  \/ /\ Len(Line(text)) = PRECEDING_TEXT_MAX /\ Len(text.kana) <= Len(read)
     /\ text.kana = SubSeq(read, 1, Len(text.kana))

(* Text, list and buffer, as far as they are there, are of one reading.    *)
OneReading(s) ==
  /\ s.text # NoText => s.comp
  /\ s.list # <<>> => s.pres /\ s.wnd
  /\ s.text # NoText /\ BufferReading(s.buf) # <<>> => s.text.kana = BufferReading(s.buf)
  /\ s.list # <<>> /\ BufferReading(s.buf) # <<>> => s.list = BufferReading(s.buf)
  /\ Reads(s.learned.text, s.learned.reading)

(* Hosts that leave the composition to the person.                         *)
Orderly == Calm \/ Prompt

(* There the service stays on and the caret does not wander, and in a      *)
(* prompt one a list that is chosen from has its window.                   *)
Steady(s) ==
  /\ Orderly => s.engine /\ s.caret = "end"
  /\ Prompt /\ s.mode = "original" => s.pres /\ s.wnd

Fits(s) == Shaped(s) /\ OneReading(s) /\ Steady(s)

Loose(s) == s \in Service /\ Fits(s)

\* Letters that spell nothing, and a buffer that has forgotten them.
Stray(s) == s.text.kana = <<>> /\ CharsOf(s.text.letters) \subseteq s.spent

(* What holds only between sessions.                                       *)
InStep(s) ==
  Orderly => /\ s.text = BufferDisplay(s.buf) \/ (s.buf = NoText /\ Stray(s))
             /\ s.list # <<>> => s.list = s.text.kana

Good(s) == Loose(s) /\ InStep(s)

(* After DeleteCandidateList.                                              *)
Cleared(s) == Loose(s) /\ s.buf = NoText /\ s.list = <<>>

(* What orderly hosts never refuse, and what a key may spell.              *)
Granted(e) == (Orderly => e.start /\ e.window) /\ e.effect \in Effects

LEMMA ServiceShaped == ASSUME NEW s \in Service PROVE Shaped(s)
BY FieldTypes DEF Shaped

-----------------------------------------------------------------------------
(* The end of a composition, from whatever a handler has left of it.       *)

LEMMA FaultGood == ASSUME NEW s, Good(s) PROVE Good(Fault(s))
<1>1. Fault(s) \in Service
  BY SmallTypes DEF Good, Loose
<1> QED BY <1>1 DEF Good, Loose, Fits, Shaped, Fields, OneReading, Steady, InStep, Stray, Fault

LEMMA FaultLoose == ASSUME NEW s, Loose(s) PROVE Loose(Fault(s))
<1>1. Fault(s) \in Service
  BY SmallTypes DEF Loose
<1> QED BY <1>1 DEF Loose, Fits, Shaped, Fields, OneReading, Steady, Fault

LEMMA WildIsGood == ASSUME NEW s, Loose(s), ~Orderly PROVE Good(s)
BY DEF Good, InStep

(* What DeleteCandidateList changes.                                       *)
LEMMA DeleteIs ==
  ASSUME NEW s \in Service
  PROVE  LET r == DeleteCandidateList(s)
         IN  /\ r \in Service
             /\ r.comp = s.comp /\ r.text = s.text /\ r.doc = s.doc /\ r.spent = s.spent
             /\ r.engine = s.engine /\ r.caret = s.caret /\ r.learned = s.learned
             /\ r.pres = s.pres
             /\ ~s.engine => r = Fault(s) /\ r.fault
             /\ s.engine => /\ r.fault = s.fault /\ r.buf = NoText
                            /\ s.pres => r.list = <<>> /\ r.mode = "none"
                            /\ ~s.pres => r.list = s.list /\ r.mode = s.mode /\ r.wnd = s.wnd
<1> DEFINE p == [s EXCEPT !.buf = NoText]
           q == [EndCandidateList(p) EXCEPT !.mode = "none"]
<1>1. DeleteCandidateList(s) \in Service /\ Shaped(s)
  BY SmallTypes, ServiceShaped
<1>2. DeleteCandidateList(s) = IF ~s.engine THEN Fault(s) ELSE IF s.pres THEN q ELSE p
  BY DEF DeleteCandidateList, Shaped, Fields
<1> QED BY <1>1, <1>2 DEF Shaped, Fields, Fault, EndCandidateList

(* Also when nothing is to be deleted: the engine is there to be asked.    *)
LEMMA DeleteClears ==
  ASSUME NEW s, Loose(s), s.engine, ~s.fault
  PROVE  /\ Cleared(DeleteCandidateList(s))
         /\ ~DeleteCandidateList(s).fault
<1> DEFINE r == DeleteCandidateList(s)
<1>1. /\ r \in Service /\ Shaped(r)
      /\ r.comp = s.comp /\ r.text = s.text /\ r.engine = s.engine /\ r.caret = s.caret
      /\ r.learned = s.learned /\ r.pres = s.pres /\ r.fault = s.fault /\ r.buf = NoText
      /\ s.pres => r.list = <<>> /\ r.mode = "none"
      /\ ~s.pres => r.list = s.list /\ r.mode = s.mode /\ r.wnd = s.wnd
  BY DeleteIs, ServiceShaped DEF Loose
<1> HIDE DEF r
<1>2. r.list = <<>>
  BY <1>1 DEF Loose, Fits, OneReading
<1>3. OneReading(r) /\ Steady(r)
  BY <1>1, <1>2, EmptyBuffer DEF Loose, Fits, OneReading, Steady
<1> QED BY <1>1, <1>2, <1>3 DEF Cleared, Loose, Fits, r

(* What TerminateComposition leaves, when a composition was there.         *)
Ended(s) ==
  [s EXCEPT !.comp = FALSE, !.ctx = FALSE, !.caret = "end",
            !.doc = @ \o Line(s.text), !.text = NoText]

LEMMA EndedLoose ==
  ASSUME NEW s, Loose(s)
  PROVE  /\ Loose(Ended(s)) /\ Ended(s).fault = s.fault /\ Ended(s).text = NoText
         /\ Ended(s).doc = s.doc \o Line(s.text) /\ Ended(s).list = s.list
         /\ Ended(s).buf = s.buf /\ Ended(s).spent = s.spent /\ Ended(s).engine = s.engine
<1> DEFINE doc == s.doc \o Line(s.text)
           r   == [s EXCEPT !.comp = FALSE, !.ctx = FALSE, !.caret = "end", !.doc = doc,
                            !.text = NoText]
<1>0. s \in Service /\ Shaped(s)
  BY DEF Loose, Fits
<1>1. Ended(s) = r
  BY <1>0 DEF Ended, Shaped, Fields
<1>2. doc \in Strings /\ NoText \in Texts
  BY FieldTypes, TextTypes, StringTypes DEF Loose
<1> HIDE DEF doc
<1>3. r \in Service
  BY <1>2 DEF Loose, Service
<1>4. /\ r.comp = FALSE /\ r.caret = "end" /\ r.doc = doc /\ r.text = NoText
      /\ r.list = s.list /\ r.buf = s.buf /\ r.spent = s.spent /\ r.engine = s.engine
      /\ r.fault = s.fault /\ r.pres = s.pres /\ r.wnd = s.wnd /\ r.mode = s.mode
      /\ r.learned = s.learned
  BY <1>0 DEF Shaped, Fields
<1> HIDE DEF r
<1>5. OneReading(r) /\ Steady(r)
  BY <1>4 DEF Loose, Fits, OneReading, Steady
<1> QED BY <1>1, <1>3, <1>4, <1>5, ServiceShaped DEF Loose, Fits, doc

(* Ending one with the buffer as it is; TSF may refuse, and the listener is*)
(* told first.  Only where the engine is gone does that fault.             *)
LEMMA TerminateIs ==
  ASSUME NEW s, NEW e, Loose(s), ~s.fault, Granted(e)
  PROVE  LET t == TerminateComposition(s, e)
         IN  \/ t = s /\ ~s.comp
             \/ t = Fault(s) /\ s.comp /\ ~s.engine /\ ~Orderly
             \/ \E told : /\ Loose(told) /\ ~told.fault /\ t = Ended(told) /\ s.comp
                          /\ told.doc = s.doc /\ told.text = s.text /\ told.spent = s.spent
                          /\ told = s \/ Cleared(told)
<1> DEFINE told == IF s.comp /\ ~e.end THEN DeleteCandidateList(s) ELSE s
<1>1. CASE ~s.comp
  BY <1>1 DEF TerminateComposition
<1>2. CASE s.comp /\ ~e.end /\ ~s.engine
  <2>1. ~Orderly
    BY <1>2 DEF Loose, Fits, Steady
  <2>2. DeleteCandidateList(s) = Fault(s) /\ Fault(s).fault
    BY <1>2, DeleteIs DEF Loose
  <2>3. TerminateComposition(s, e) = Fault(s)
    BY <1>2, <2>2 DEF TerminateComposition, Unless
  <2> QED BY <1>2, <2>1, <2>3
<1>3. CASE s.comp /\ (e.end \/ s.engine)
  <2>1. /\ Loose(told) /\ ~told.fault /\ told.doc = s.doc /\ told.text = s.text
        /\ told.spent = s.spent /\ (told = s \/ Cleared(told))
    BY <1>3, DeleteClears, DeleteIs DEF Cleared, Loose
  <2>2. TerminateComposition(s, e) = Ended(told)
    BY <1>3, <2>1 DEF TerminateComposition, Unless, Ended
  <2> HIDE DEF told
  <2> QED BY <1>3, <2>1, <2>2
<1> QED BY <1>1, <1>2, <1>3

(* The buffer may outlive the composition, so this is not Good, except that*)
(* only a wild host makes it fault.                                        *)
LEMMA TerminateLoose ==
  ASSUME NEW s, NEW e, Loose(s), ~s.fault, Granted(e)
  PROVE  LET t == TerminateComposition(s, e)
         IN  Loose(t) /\ (t.fault => Good(t))
<1> DEFINE t == TerminateComposition(s, e)
<1>1. CASE t = s
  BY <1>1
<1>2. CASE t = Fault(s) /\ ~Orderly
  BY <1>2, FaultLoose, WildIsGood
<1>3. CASE \E told : Loose(told) /\ ~told.fault /\ t = Ended(told)
  BY <1>3, EndedLoose
<1> QED BY <1>1, <1>2, <1>3, TerminateIs

LEMMA TerminateCleared ==
  ASSUME NEW s, NEW e, Cleared(s), ~s.fault, Granted(e)
  PROVE  Good(TerminateComposition(s, e))
<1> DEFINE t == TerminateComposition(s, e)
<1>0. Loose(s)
  BY DEF Cleared
<1>1. CASE t = s /\ ~s.comp
  <2>1. s.text = NoText
    BY <1>0, <1>1 DEF Loose, Fits, OneReading
  <2> QED BY <1>1, <2>1, EmptyBuffer DEF Cleared, Good, InStep
<1>2. CASE t = Fault(s) /\ ~Orderly
  BY <1>0, <1>2, FaultLoose, WildIsGood
<1>3. CASE \E told : Loose(told) /\ ~told.fault /\ t = Ended(told) /\ (told = s \/ Cleared(told))
  <2>1. PICK told : Loose(told) /\ ~told.fault /\ t = Ended(told) /\ Cleared(told)
    BY <1>3
  <2> HIDE DEF t
  <2>2. Loose(t) /\ t.text = NoText /\ t.buf = NoText /\ t.list = <<>>
    BY <2>1, EndedLoose DEF Cleared
  <2>3. Good(t)
    BY <2>2, EmptyBuffer DEF Good, InStep
  <2> QED BY <2>3 DEF t
<1> QED BY <1>0, <1>1, <1>2, <1>3, TerminateIs

LEMMA CompleteGood ==
  ASSUME NEW s, NEW e, Loose(s), s.fault => Good(s), Granted(e)
  PROVE  Good(HandleComplete(s, e))
<1>1. CASE s.fault
  BY <1>1 DEF HandleComplete, Unless
<1>2. CASE ~s.fault /\ ~s.engine
  <2>1. ~Orderly
    BY <1>2 DEF Loose, Fits, Steady
  <2>2. DeleteCandidateList(s) = Fault(s) /\ Fault(s).fault
    BY <1>2, DeleteIs DEF Loose
  <2>3. HandleComplete(s, e) = Fault(s)
    BY <1>2, <2>2 DEF HandleComplete, Unless
  <2> QED BY <2>1, <2>3, WildIsGood, FaultLoose
<1>3. CASE ~s.fault /\ s.engine
  <2>1. Cleared(DeleteCandidateList(s)) /\ ~DeleteCandidateList(s).fault
    BY <1>3, DeleteClears
  <2>2. HandleComplete(s, e) = TerminateComposition(DeleteCandidateList(s), e)
    BY <1>3, <2>1 DEF HandleComplete, Unless
  <2> QED BY <2>1, <2>2, TerminateCleared
<1> QED BY <1>1, <1>2, <1>3

LEMMA DummyLoose ==
  ASSUME NEW s, Loose(s)
  PROVE  LET d == RemoveDummyCompositionForComposing(s)
         IN  /\ Loose(d) /\ d.fault = s.fault /\ d.text = NoText /\ d.doc = s.doc
             /\ d.spent = s.spent
<1> DEFINE d == RemoveDummyCompositionForComposing(s)
<1>1. d \in Service
  BY SmallTypes DEF Loose
<1>2. Fits(d)
  BY DEF RemoveDummyCompositionForComposing, Loose, Fits, OneReading, Steady, Shaped, Fields
<1>3. d.fault = s.fault /\ d.text = NoText /\ d.doc = s.doc /\ d.spent = s.spent
  BY DEF RemoveDummyCompositionForComposing, Loose, Fits, Shaped, Fields
<1> QED BY <1>1, <1>2, <1>3 DEF Loose

LEMMA CancelGood ==
  ASSUME NEW s, NEW e, Loose(s), s.fault => Good(s), Granted(e)
  PROVE  Good(HandleCancel(s, e))
<1>1. CASE s.fault
  BY <1>1 DEF HandleCancel, Unless
<1>2. CASE ~s.fault
  <2> DEFINE d == RemoveDummyCompositionForComposing(s)
  <2>1. Loose(d) /\ ~d.fault
    BY <1>2, DummyLoose
  <2>2. HandleCancel(s, e) = HandleComplete(d, e)
    BY <1>2 DEF HandleCancel, Unless
  <2> HIDE DEF d
  <2> QED BY <2>1, <2>2, CompleteGood
<1> QED BY <1>1, <1>2

LEMMA DeleteLoose ==
  ASSUME NEW s, Loose(s)
  PROVE  Loose(DeleteCandidateList(s))
<1> DEFINE r == DeleteCandidateList(s)
<1>1. CASE ~s.engine
  BY <1>1, DeleteIs, FaultLoose DEF Loose
<1>2. CASE s.engine
  <2>1. /\ r \in Service /\ Shaped(r)
        /\ r.comp = s.comp /\ r.text = s.text /\ r.engine = s.engine /\ r.caret = s.caret
        /\ r.learned = s.learned /\ r.pres = s.pres /\ r.buf = NoText
        /\ s.pres => r.list = <<>> /\ r.mode = "none"
        /\ ~s.pres => r.list = s.list /\ r.mode = s.mode /\ r.wnd = s.wnd
    BY <1>2, DeleteIs, ServiceShaped DEF Loose
  <2> HIDE DEF r
  <2>2. OneReading(r) /\ Steady(r)
    BY <2>1, EmptyBuffer DEF Loose, Fits, OneReading, Steady
  <2> QED BY <2>1, <2>2 DEF Loose, Fits, r
<1> QED BY <1>1, <1>2

-----------------------------------------------------------------------------
(* What is learned, and text put into the document.                        *)

LEMMA NotifyIs ==
  ASSUME NEW s, NEW text \in Texts, Loose(s),
         text # NoText /\ BufferReading(s.buf) # <<>> => Reads(text, BufferReading(s.buf))
  PROVE  LET r == NotifyCommitted(s, text)
         IN  /\ Loose(r) /\ r.fault = s.fault /\ r.text = s.text /\ r.doc = s.doc
             /\ r.list = s.list /\ r.buf = s.buf /\ r.comp = s.comp /\ r.spent = s.spent
<1> DEFINE r == NotifyCommitted(s, text)
           told == [s EXCEPT !.learned = [text |-> text, reading |-> BufferReading(s.buf)]]
<1>0. Line(text) = <<>> <=> text = NoText
  BY TextTypes
<1>1. r \in Service /\ Shaped(s)
  BY WriteTypes, StringTypes DEF Loose, Fits
<1>2. r = IF text = NoText \/ BufferReading(s.buf) = <<>> \/ ~s.engine THEN s ELSE told
  BY <1>0 DEF NotifyCommitted
<1>3. /\ told.fault = s.fault /\ told.text = s.text /\ told.doc = s.doc
      /\ told.list = s.list /\ told.buf = s.buf /\ told.comp = s.comp /\ told.spent = s.spent
      /\ told.pres = s.pres /\ told.wnd = s.wnd /\ told.engine = s.engine /\ told.caret = s.caret
      /\ told.mode = s.mode
      /\ told.learned.text = text /\ told.learned.reading = BufferReading(s.buf)
  BY <1>1 DEF Shaped, Fields
<1> HIDE DEF told
<1>4. text # NoText /\ BufferReading(s.buf) # <<>> => OneReading(told) /\ Steady(told)
  BY <1>3 DEF Loose, Fits, OneReading, Steady
<1> HIDE DEF r
<1>5. OneReading(r) /\ Steady(r)
  BY <1>2, <1>4 DEF Loose, Fits
<1>6. /\ r.fault = s.fault /\ r.text = s.text /\ r.doc = s.doc
      /\ r.list = s.list /\ r.buf = s.buf /\ r.comp = s.comp /\ r.spent = s.spent
  BY <1>2, <1>3
<1> QED BY <1>1, <1>5, <1>6, ServiceShaped DEF Loose, Fits, r

LEMMA ChosenReads ==
  ASSUME NEW s, Loose(s)
  PROVE  /\ CandidateText(s.list) \in Texts /\ CandidateText(s.list).kana = s.list
         /\ CandidateText(s.list) # NoText /\ BufferReading(s.buf) # <<>> =>
              Reads(CandidateText(s.list), BufferReading(s.buf))
<1>1. CandidateText(s.list) \in Texts /\ CandidateText(s.list).kana = s.list
  BY ChosenTypes DEF Loose, CandidateText
<1>2. s.list = <<>> => CandidateText(s.list) = NoText
  BY DEF CandidateText, NoText
<1> QED BY <1>1, <1>2 DEF Loose, Fits, OneReading, Reads

LEMMA FetchedReads ==
  ASSUME NEW s, Loose(s)
  PROVE  /\ Fetched(s.text) \in Texts
         /\ Fetched(s.text) # NoText /\ BufferReading(s.buf) # <<>> =>
              Reads(Fetched(s.text), BufferReading(s.buf))
<1>1. s.text \in Texts
  BY FieldTypes DEF Loose
<1>2. s.text # NoText /\ BufferReading(s.buf) # <<>> => s.text.kana = BufferReading(s.buf)
  BY DEF Loose, Fits, OneReading
<1> QED BY <1>1, <1>2, FetchedIs DEF Reads

(* A candidate put where the text is, or beside it.                        *)
LEMMA ChosenLoose ==
  ASSUME NEW s, Loose(s), s.list # <<>>
  PROVE  LET chosen == AddComposingAndChar(s, CandidateText(s.list))
         IN  /\ Loose(chosen) /\ chosen.buf = s.buf /\ chosen.list = s.list
             /\ chosen.spent = s.spent
             /\ s.comp /\ s.engine => chosen.fault = s.fault
             /\ s.comp /\ s.caret = "end" => /\ chosen.text = CandidateText(s.list)
                                             /\ chosen.doc = s.doc
<1> DEFINE text   == CandidateText(s.list)
           exist  == FindComposingRange(s)
           inside == [s EXCEPT !.text = text, !.caret = "end"]
           put    == IF exist THEN inside ELSE [s EXCEPT !.doc = @ \o Line(text)]
           chosen == AddComposingAndChar(s, text)
<1>1. chosen \in Service /\ Shaped(s)
  BY ChosenTypes, WriteTypes, StringTypes DEF Loose, Fits
<1>2. chosen = IF s.comp /\ s.engine THEN put ELSE Fault(put)
  BY DEF AddComposingAndChar, SetInputString
<1>3. text.kana = s.list
  BY ChosenReads
<1>4. exist => s.comp
  BY DEF FindComposingRange
<1>5. s.comp /\ s.caret = "end" => exist
  BY DEF FindComposingRange
<1> HIDE DEF text, exist
<1>6. /\ put.buf = s.buf /\ put.list = s.list /\ put.spent = s.spent /\ put.fault = s.fault
      /\ put.comp = s.comp /\ put.engine = s.engine /\ put.pres = s.pres /\ put.wnd = s.wnd
      /\ put.mode = s.mode /\ put.learned = s.learned
      /\ exist => put.text = text /\ put.doc = s.doc /\ put.caret = "end"
      /\ ~exist => put.text = s.text /\ put.caret = s.caret
      /\ Shaped(put)
  BY <1>1 DEF Shaped, Fields
<1> HIDE DEF put
<1>7. /\ chosen.buf = s.buf /\ chosen.list = s.list /\ chosen.spent = s.spent
      /\ s.comp /\ s.engine => chosen.fault = s.fault
      /\ chosen.comp = s.comp /\ chosen.engine = s.engine /\ chosen.pres = s.pres
      /\ chosen.wnd = s.wnd /\ chosen.mode = s.mode /\ chosen.learned = s.learned
      /\ exist => chosen.text = text /\ chosen.doc = s.doc /\ chosen.caret = "end"
      /\ ~exist => chosen.text = s.text /\ chosen.caret = s.caret
  BY <1>2, <1>6 DEF Fault, Shaped, Fields
<1> HIDE DEF chosen
<1>8. OneReading(chosen) /\ Steady(chosen)
  BY <1>3, <1>4, <1>7 DEF Loose, Fits, OneReading, Steady
<1> QED BY <1>1, <1>5, <1>7, <1>8, ServiceShaped DEF Loose, Fits, chosen, text

LEMMA BesideLoose ==
  ASSUME NEW s, NEW chars \in Strings, Loose(s)
  PROVE  LET beside == AddCharAndFinalize(s, chars)
         IN  /\ Loose(beside)
             /\ beside.fault = s.fault /\ beside.buf = s.buf /\ beside.list = s.list
             /\ beside.text = s.text /\ beside.doc = s.doc \o chars /\ beside.spent = s.spent
             /\ beside.comp = s.comp
<1> DEFINE r == AddCharAndFinalize(s, chars)
<1>1. r \in Service /\ Shaped(s)
  BY WriteTypes, StringTypes DEF Loose, Fits
<1>2. /\ r.fault = s.fault /\ r.buf = s.buf /\ r.list = s.list /\ r.text = s.text
      /\ r.doc = s.doc \o chars /\ r.spent = s.spent /\ r.comp = s.comp /\ r.engine = s.engine
      /\ r.pres = s.pres /\ r.wnd = s.wnd /\ r.mode = s.mode /\ r.learned = s.learned
      /\ r.caret = s.caret
  BY <1>1 DEF AddCharAndFinalize, Shaped, Fields
<1> HIDE DEF r
<1>3. OneReading(r) /\ Steady(r)
  BY <1>2 DEF Loose, Fits, OneReading, Steady
<1> QED BY <1>1, <1>2, <1>3, ServiceShaped DEF Loose, Fits, r


-----------------------------------------------------------------------------
(* What a key spells.                                                      *)

\* When nothing is left of a buffer, it had no kana to read.
LEMMA AfterEmpty ==
  ASSUME NEW b \in Texts, NEW id \in KeyIds, NEW effect \in Effects,
         BufferAfterKeystroke(b, id, effect) = NoText
  PROVE  /\ BufferReading(b) = <<>> /\ BufferDisplay(b).kana = <<>>
         /\ CharsOf(BufferDisplay(b).letters) \subseteq CharsOf(b.letters)
<1> DEFINE k == b.kana
           l == b.letters
           z == LastOf(b.letters)
           r == BufferReading(b)
<1>1. /\ k \in Strings /\ l \in Strings /\ z \in Strings /\ r \in Strings
      /\ b = [kana |-> k, letters |-> l] /\ (l # <<>> => z # <<>>)
  BY TextTypes, LastIs, BufferIs
<1>2. \A q \in Strings : Append(q, id) # <<>> /\ <<id>> # <<>>
  BY AppendProperties DEF Strings
<1>3. k \o z = <<>> => k = <<>> /\ z = <<>>
  BY <1>1, ConcatProperties DEF Strings
<1>4. NoText.kana = <<>> /\ NoText.letters = <<>>
  BY DEF NoText
<1>5. BufferAfterKeystroke(b, id, effect) =
        CASE effect = "goesOn"   -> [kana |-> k, letters |-> Append(l, id)]
          [] effect = "slides"   -> [kana |-> k, letters |-> Append(z, id)]
          [] effect = "restarts" -> [kana |-> r, letters |-> <<id>>]
          [] effect = "syllable" -> [kana |-> Append(k, id), letters |-> <<>>]
          [] effect = "glides"   -> [kana |-> Append(k \o z, id), letters |-> <<>>]
          [] effect = "closes"   -> [kana |-> k \o z, letters |-> <<id>>]
          [] effect = "ends"     -> [kana |-> k \o z, letters |-> <<>>]
          [] effect = "stray"    -> [kana |-> r, letters |-> <<>>]
  <2>1. \A q : [b EXCEPT !.letters = q] = [kana |-> k, letters |-> q]
    BY <1>1
  <2> QED BY <2>1 DEF BufferAfterKeystroke
<1>6. k \o z \in Strings
  BY <1>1, StringTypes
<1> HIDE DEF k, l, z, r
<1>7. r = <<>>
  <2>1. CASE effect = "stray"
    BY <1>4, <1>5, <2>1
  <2>2. CASE effect = "ends"
    <3>1. k = <<>> /\ l = <<>>
      BY <1>1, <1>3, <1>4, <1>5, <2>2
    <3>2. b = NoText
      BY <1>1, <3>1 DEF NoText
    <3> QED BY <3>2, EmptyBuffer DEF r
  <2>3. CASE effect \notin {"stray", "ends"}
    BY <1>1, <1>2, <1>4, <1>5, <1>6, <2>3 DEF Effects
  <2> QED BY <2>1, <2>2, <2>3
<1>8. BufferDisplay(b) = b \/ BufferDisplay(b).letters = <<>>
  BY BufferIs
<1>9. CharsOf(<<>>) = {}
  BY DEF CharsOf
<1> QED BY <1>7, <1>8, <1>9, BufferIs DEF r

\* What AddVirtualKey changes.
LEMMA SpelledIs ==
  ASSUME NEW s, Loose(s), NEW id \in KeyIds, NEW e, e.effect \in Effects
  PROVE  LET a == AddVirtualKey(s, id, e)
         IN  /\ a \in Service /\ a.buf = BufferAfterKeystroke(s.buf, id, e.effect)
             /\ a.spent = s.spent \union ((CharsOf(s.buf.letters) \union {id}) \ CharsOf(Line(a.buf)))
             /\ \A f \in Fields \ {"buf", "spent"} : a[f] = s[f]
<1> DEFINE after == BufferAfterKeystroke(s.buf, id, e.effect)
           more  == s.spent \union ((CharsOf(s.buf.letters) \union {id}) \ CharsOf(Line(after)))
<1>1. AddVirtualKey(s, id, e) \in Service /\ Shaped(s)
  BY KeyTypes DEF Loose, Fits
<1>2. AddVirtualKey(s, id, e) = [s EXCEPT !.buf = after, !.spent = more]
  BY <1>1 DEF AddVirtualKey, Shaped, Fields
<1> HIDE DEF after, more
<1> DEFINE a == [s EXCEPT !.buf = after, !.spent = more]
<1>3. a.buf = after /\ a.spent = more
  BY <1>1 DEF Shaped, Fields
<1>4. \A f \in Fields \ {"buf", "spent"} : a[f] = s[f]
  BY <1>1 DEF Shaped, Fields
<1> HIDE DEF a
<1>5. a.spent = s.spent \union ((CharsOf(s.buf.letters) \union {id}) \ CharsOf(Line(a.buf)))
  BY <1>3 DEF more, after
<1> QED BY <1>1, <1>2, <1>3, <1>4, <1>5 DEF after, a

(* With a key in the buffer, or one taken out of it, the composition and   *)
(* the list still show the buffer before.                                  *)
Typing(s) ==
  /\ s \in Service /\ Shaped(s) /\ Steady(s) /\ ~s.fault
  /\ s.comp /\ s.caret = "end" /\ s.engine
  /\ s.list # <<>> => s.pres /\ s.wnd
  /\ Reads(s.learned.text, s.learned.reading)
  /\ Orderly /\ s.buf = NoText => s.text = NoText \/ Stray(s)

(* The worker brings the composition and the list back in step.            *)
LEMMA WorkerGood ==
  ASSUME NEW s, Typing(s)
  PROVE  Good(HandleCompositionInputWorker(s))
<1> DEFINE display == BufferDisplay(s.buf)
           put     == [s EXCEPT !.text = display, !.caret = "end"]
           shown   == IF s.buf = NoText THEN s ELSE put
<1>0. HandleCompositionInputWorker(s) \in Service /\ s.buf \in Texts /\ Shaped(s)
  BY WorkerTypes, FieldTypes DEF Typing
<1>1. AddComposingAndChar(s, display) = put
  BY DEF Typing, AddComposingAndChar, SetInputString, FindComposingRange
<1>2. GetReadingStrings(s) = {} <=> s.buf = NoText
  BY <1>0, TextTypes DEF GetReadingStrings
<1>3. ~shown.fault => HandleCompositionInputWorker(s) =
        IF ~s.pres THEN shown ELSE IF ~s.wnd THEN Fault(shown) ELSE [shown EXCEPT !.list = <<>>]
  <2>1. put.pres = s.pres /\ put.wnd = s.wnd
    BY <1>0 DEF Shaped, Fields
  <2> HIDE DEF put, display
  <2> QED BY <1>1, <1>2, <2>1 DEF HandleCompositionInputWorker, Unless, display
<1>4. s.buf = NoText => BufferReading(s.buf) = <<>> /\ display = NoText
  BY EmptyBuffer
<1>5. display.kana = BufferReading(s.buf)
  BY <1>0, BufferIs
<1> HIDE DEF display
<1>6. /\ put.comp /\ put.buf = s.buf /\ put.text = display /\ put.list = s.list
      /\ put.pres = s.pres /\ put.wnd = s.wnd /\ put.learned = s.learned /\ put.caret = "end"
      /\ put.engine = s.engine /\ put.mode = s.mode /\ put.spent = s.spent
      /\ ~put.fault /\ Shaped(put)
  BY <1>0 DEF Typing, Shaped, Fields
<1> HIDE DEF put
<1>7. /\ shown.comp /\ shown.buf = s.buf /\ shown.list = s.list
      /\ shown.pres = s.pres /\ shown.wnd = s.wnd /\ shown.learned = s.learned
      /\ shown.caret = "end" /\ shown.engine = s.engine /\ shown.mode = s.mode
      /\ shown.spent = s.spent /\ ~shown.fault /\ Shaped(shown)
      /\ s.buf # NoText => shown.text = display
      /\ s.buf = NoText => shown.text = s.text
  BY <1>6 DEF Typing
<1> HIDE DEF shown
<1> DEFINE r == HandleCompositionInputWorker(s)
<1>8. /\ r.comp /\ r.buf = s.buf /\ r.text = shown.text /\ r.list = <<>>
      /\ r.pres = s.pres /\ r.wnd = s.wnd /\ r.learned = s.learned /\ r.caret = "end"
      /\ r.engine = s.engine /\ r.mode = s.mode /\ r.spent = s.spent
  <2>2. CASE ~s.pres
    <3>1. r = shown /\ s.list = <<>>
      BY <1>3, <1>7, <2>2 DEF Typing
    <3> QED BY <1>7, <3>1
  <2>3. CASE s.pres /\ ~s.wnd
    <3>1. r = Fault(shown) /\ s.list = <<>>
      BY <1>3, <1>7, <2>3 DEF Typing
    <3> QED BY <1>7, <3>1 DEF Fault, Shaped, Fields
  <2>4. CASE s.pres /\ s.wnd
    <3>1. r = [shown EXCEPT !.list = <<>>]
      BY <1>3, <1>7, <2>4
    <3> QED BY <1>7, <3>1 DEF Shaped, Fields
  <2> QED BY <2>2, <2>3, <2>4
<1> HIDE DEF r
<1>9. OneReading(r) /\ Steady(r)
  BY <1>4, <1>5, <1>7, <1>8 DEF Typing, OneReading, Steady
<1>10. InStep(r)
  BY <1>4, <1>7, <1>8 DEF Typing, InStep, Stray, display
<1> QED BY <1>0, <1>9, <1>10, ServiceShaped DEF Good, Loose, Fits, r

-----------------------------------------------------------------------------
(* The handlers.                                                           *)

LEMMA FinalizeGood ==
  ASSUME NEW s, NEW e, NEW isCandidateList \in BOOLEAN, Good(s), ~s.fault, Granted(e)
  PROVE  Good(HandleCompositionFinalize(s, isCandidateList, e))
<1> DEFINE chosen == isCandidateList /\ s.pres /\ s.mode # "none"
           beside == AddCharAndFinalize(s, s.list)
<1>0. Loose(s) /\ s.list \in Strings
  BY FieldTypes DEF Good, Loose
<1>1. CASE chosen /\ ~s.wnd
  BY <1>1, FaultGood DEF HandleCompositionFinalize
<1>2. CASE chosen /\ s.wnd
  <2>1. Loose(beside) /\ ~beside.fault /\ beside.buf = s.buf
    BY <1>0, BesideLoose
  <2>2. /\ CandidateText(s.list) \in Texts
        /\ CandidateText(s.list) # NoText /\ BufferReading(s.buf) # <<>> =>
             Reads(CandidateText(s.list), BufferReading(s.buf))
    BY <1>0, ChosenReads
  <2> DEFINE told == NotifyCommitted(beside, CandidateText(s.list))
  <2>3. HandleCompositionFinalize(s, isCandidateList, e) = HandleCancel(told, e)
    BY <1>2 DEF HandleCompositionFinalize
  <2> HIDE DEF beside
  <2>4. Loose(told) /\ ~told.fault
    BY <2>1, <2>2, NotifyIs
  <2> HIDE DEF told
  <2> QED BY <2>3, <2>4, CancelGood
<1>3. CASE ~chosen /\ s.comp /\ Covered(s)
  <2> DEFINE told == NotifyCommitted(s, Fetched(s.text))
  <2>1. Loose(told) /\ ~told.fault
    BY <1>0, FetchedReads, NotifyIs
  <2>2. HandleCompositionFinalize(s, isCandidateList, e) = HandleCancel(TerminateComposition(told, e), e)
    BY <1>3 DEF HandleCompositionFinalize
  <2> HIDE DEF told
  <2> QED BY <2>1, <2>2, TerminateLoose, CancelGood
<1>4. CASE ~chosen /\ ~(s.comp /\ Covered(s))
  BY <1>0, <1>4, CancelGood DEF HandleCompositionFinalize
<1> QED BY <1>1, <1>2, <1>3, <1>4

LEMMA StartGood ==
  ASSUME NEW s, NEW e, Good(s)
  PROVE  Good(StartComposition(s, e)) /\ StartComposition(s, e).fault = s.fault
<1> DEFINE r == StartComposition(s, e)
<1>0. r \in Service /\ Shaped(s)
  BY SmallTypes DEF Good, Loose, Fits
<1>1. /\ r.comp = s.comp \/ r.comp = TRUE
      /\ r.caret = s.caret \/ r.caret = "end"
      /\ r.text = s.text /\ r.buf = s.buf /\ r.list = s.list /\ r.pres = s.pres
      /\ r.wnd = s.wnd /\ r.engine = s.engine /\ r.mode = s.mode /\ r.spent = s.spent
      /\ r.learned = s.learned /\ r.fault = s.fault
  BY <1>0 DEF StartComposition, Shaped, Fields
<1> HIDE DEF r
<1>2. OneReading(r) /\ Steady(r) /\ InStep(r)
  BY <1>1 DEF Good, Loose, Fits, OneReading, Steady, InStep, Stray
<1> QED BY <1>0, <1>1, <1>2, ServiceShaped DEF Good, Loose, Fits, r

LEMMA SpelledTyping ==
  ASSUME NEW s, NEW id \in KeyIds, NEW e, Good(s), ~s.fault, Granted(e),
         s.comp, Covered(s), s.engine
  PROVE  Typing(AddVirtualKey(s, id, e))
<1> DEFINE a == AddVirtualKey(s, id, e)
<1>1. /\ Loose(s) /\ s \in Service /\ Shaped(s) /\ OneReading(s) /\ Steady(s) /\ InStep(s)
      /\ e.effect \in Effects /\ s.caret = "end" /\ s.buf \in Texts
  BY FieldTypes DEF Good, Loose, Fits, Granted, Covered
<1> HIDE DEF a
<1>2. /\ a \in Service /\ a.buf = BufferAfterKeystroke(s.buf, id, e.effect)
      /\ a.spent = s.spent \union ((CharsOf(s.buf.letters) \union {id}) \ CharsOf(Line(a.buf)))
      /\ \A f \in Fields \ {"buf", "spent"} : a[f] = s[f]
  <2>1. Loose(s) /\ e.effect \in Effects
    BY <1>1
  <2> QED BY <2>1, SpelledIs DEF a
<1> HIDE DEF a
<1>3. /\ a.comp /\ a.caret = "end" /\ a.engine /\ ~a.fault /\ a.list = s.list /\ a.pres = s.pres
      /\ a.wnd = s.wnd /\ a.learned = s.learned /\ a.text = s.text /\ a.mode = s.mode
  BY <1>1, <1>2 DEF Fields
<1>4. ASSUME Orderly, a.buf = NoText
      PROVE  a.text = NoText \/ Stray(a)
  <2>1. /\ BufferDisplay(s.buf).kana = <<>>
        /\ CharsOf(BufferDisplay(s.buf).letters) \subseteq CharsOf(s.buf.letters)
    BY <1>1, <1>2, <1>4, AfterEmpty
  <2>2. CharsOf(Line(a.buf)) = {}
    <3>1. Line(NoText) = <<>>
      BY TextTypes, StringTypes
    <3> QED BY <1>4, <3>1 DEF CharsOf
  <2>3. CharsOf(s.buf.letters) \subseteq a.spent /\ s.spent \subseteq a.spent
    BY <1>2, <2>2
  <2>4. s.text = BufferDisplay(s.buf) \/ Stray(s)
    BY <1>1, <1>4 DEF InStep
  <2> QED BY <1>3, <2>1, <2>3, <2>4 DEF Stray
<1>5. Steady(a)
  BY <1>1, <1>3 DEF Steady
<1>6. a.list # <<>> => a.pres /\ a.wnd
  BY <1>1, <1>3 DEF OneReading
<1>7. Reads(a.learned.text, a.learned.reading)
  BY <1>1, <1>3 DEF OneReading
<1> QED BY <1>2, <1>3, <1>4, <1>5, <1>6, <1>7, ServiceShaped DEF Typing, a

LEMMA InputGood ==
  ASSUME NEW s, NEW id \in KeyIds, NEW e, Good(s), ~s.fault, Granted(e)
  PROVE  Good(HandleCompositionInput(s, id, e))
<1> DEFINE settled == IF s.pres /\ s.mode # "none"
                      THEN HandleCompositionFinalize(s, FALSE, e) ELSE s
           started == IF settled.comp THEN settled ELSE StartComposition(settled, e)
           spelled == AddVirtualKey(started, id, e)
<1>1. Good(settled)
  BY FinalizeGood
<1> HIDE DEF settled
<1>2. Good(started) /\ started.fault = settled.fault
  BY <1>1, StartGood
<1> HIDE DEF started
<1>3. ~settled.fault /\ started.comp /\ Covered(started) /\ started.engine =>
        Good(HandleCompositionInputWorker(spelled))
  BY <1>2, SpelledTyping, WorkerGood
<1>4. Good(Fault(started))
  BY <1>2, FaultGood
<1>6. HandleCompositionInput(s, id, e) =
        Unless(settled,
          IF ~started.comp THEN Fault(started)
          ELSE IF ~Covered(started) THEN started
          ELSE IF ~started.engine THEN Fault(started)
          ELSE HandleCompositionInputWorker(spelled))
  BY DEF HandleCompositionInput, settled, started
<1> HIDE DEF spelled
<1> QED BY <1>1, <1>2, <1>3, <1>4, <1>6 DEF Unless

LEMMA ConvertGood ==
  ASSUME NEW s, NEW e, Good(s), Granted(e)
  PROVE  Good(HandleCompositionConvert(s, e))
<1> DEFINE found == BufferReading(s.buf)
           asked == [EndCandidateList(s) EXCEPT !.pres = TRUE, !.mode = "original"]
           offered == [asked EXCEPT !.wnd = TRUE, !.list = found]
           r == HandleCompositionConvert(s, e)
<1>0. /\ Loose(s) /\ s \in Service /\ Shaped(s) /\ OneReading(s) /\ Steady(s) /\ InStep(s)
      /\ r \in Service /\ s.buf \in Texts
  BY FieldTypes, ConvertTypes DEF Good, Loose, Fits
<1>1. GetCandidateList(s, e) = IF e.answered THEN found ELSE <<>>
  BY DEF GetCandidateList
<1>2. found # <<>> /\ Orderly => s.comp /\ s.text.kana = found
  <2>1. NoText.kana = <<>>
    BY DEF NoText
  <2>2. found # <<>> => s.buf # NoText /\ BufferDisplay(s.buf).kana = found
    BY <1>0, BufferIs, EmptyBuffer
  <2> QED BY <1>0, <2>1, <2>2 DEF InStep, OneReading
<1>3. /\ asked.buf = s.buf /\ asked.text = s.text /\ asked.comp = s.comp /\ asked.list = <<>>
      /\ asked.pres /\ asked.learned = s.learned /\ asked.caret = s.caret
      /\ asked.engine = s.engine /\ asked.mode = "original" /\ asked.spent = s.spent
      /\ Shaped(asked)
  BY <1>0 DEF EndCandidateList, Shaped, Fields
<1>4. r = IF ~s.engine THEN Fault(s)
          ELSE IF GetCandidateList(s, e) = <<>> THEN s
          ELSE IF ~s.comp THEN Fault(asked) ELSE IF ~e.window THEN asked ELSE offered
  BY <1>1 DEF HandleCompositionConvert
<1> HIDE DEF asked
<1>5. /\ offered.buf = s.buf /\ offered.text = s.text /\ offered.comp = s.comp
      /\ offered.list = found /\ offered.wnd
      /\ offered.pres /\ offered.learned = s.learned /\ offered.caret = s.caret
      /\ offered.engine = s.engine /\ offered.mode = "original" /\ offered.spent = s.spent
  BY <1>3 DEF Shaped, Fields
<1> HIDE DEF offered, r
<1>6. CASE ~s.engine \/ GetCandidateList(s, e) = <<>>
  BY <1>4, <1>6, FaultGood DEF r
<1>7. CASE s.engine /\ GetCandidateList(s, e) # <<>> /\ ~(s.comp /\ e.window)
  <2>1. ~Orderly
    BY <1>1, <1>2, <1>7 DEF Granted
  <2>2. r = Fault(asked) \/ r = asked
    BY <1>4, <1>7
  <2>3. /\ r.buf = s.buf /\ r.text = s.text /\ r.comp = s.comp /\ r.list = <<>>
        /\ r.learned = s.learned
    BY <1>3, <2>2 DEF Fault, Shaped, Fields
  <2>4. OneReading(r) /\ Steady(r)
    BY <1>0, <2>1, <2>3 DEF OneReading, Steady, Orderly
  <2>5. Loose(r)
    BY <1>0, <2>4, ServiceShaped DEF Loose, Fits, r
  <2> QED BY <2>1, <2>5, WildIsGood DEF r
<1>8. CASE s.engine /\ GetCandidateList(s, e) # <<>> /\ s.comp /\ e.window
  <2>1. r = offered /\ found # <<>>
    BY <1>1, <1>4, <1>8
  <2>2. OneReading(r) /\ Steady(r)
    BY <1>0, <1>5, <2>1 DEF OneReading, Steady
  <2>3. InStep(r)
    BY <1>0, <1>2, <1>5, <2>1 DEF InStep, Stray
  <2> QED BY <1>0, <2>2, <2>3, ServiceShaped DEF Good, Loose, Fits, r
<1> QED BY <1>6, <1>7, <1>8

LEMMA FrontLength ==
  ASSUME NEW q \in Strings, q # <<>>
  PROVE  Len(SubSeq(q, 1, Len(q) - 1)) = Len(q) - 1
<1> DEFINE n == Len(q)
<1>1. n \in Nat \ {0} /\ \A i \in 1..n : q[i] \in KeyIds
  BY StringTypes, ElementOfSeq DEF Strings
<1> HIDE DEF n
<1>2. n - 1 \in Nat /\ 1 \in Int /\ (n - 1) - 1 + 1 = n - 1 /\ (1 <= n - 1 \/ n - 1 = 0)
  BY <1>1
<1>3. \A i \in 1..(n - 1) : q[i] \in KeyIds
  BY <1>1
<1>4. Len(SubSeq(q, 1, n - 1)) = IF 1 <= n - 1 THEN (n - 1) - 1 + 1 ELSE 0
  BY <1>2, <1>3, SubSeqProperties
<1> QED BY <1>2, <1>4 DEF n

LEMMA BackspaceGood ==
  ASSUME NEW s, NEW e, Good(s), ~s.fault, Granted(e)
  PROVE  Good(HandleCompositionBackspace(s, e))
<1> DEFINE left == RemoveVirtualKey(s)
<1>0. /\ Loose(s) /\ s \in Service /\ Shaped(s) /\ OneReading(s) /\ Steady(s)
      /\ s.buf \in Texts /\ Line(s.buf) \in Strings
  BY FieldTypes, TextTypes DEF Good, Loose, Fits
<1>1. CASE ~s.comp \/ ~Covered(s) \/ ~s.engine \/ s.buf = NoText
  <2>1. CASE s.comp /\ Covered(s) /\ s.engine
    <3>1. Len(Line(s.buf)) = 0
      BY <1>0, <1>1, <2>1, TextTypes, StringTypes
    <3> QED BY <2>1, <3>1 DEF HandleCompositionBackspace
  <2>2. CASE ~(s.comp /\ Covered(s) /\ s.engine)
    BY <2>2, FaultGood DEF HandleCompositionBackspace
  <2> QED BY <2>1, <2>2
<1>2. CASE s.comp /\ Covered(s) /\ s.engine /\ s.buf # NoText
  <2>1. /\ left \in Service /\ left.buf \in Texts /\ left = [s EXCEPT !.buf = left.buf]
        /\ Line(left.buf) = SubSeq(Line(s.buf), 1, Len(Line(s.buf)) - 1)
    BY <1>0, <1>2, BackTypes
  <2>2. Len(Line(s.buf)) \in Nat \ {0}
    BY <1>0, <1>2, TextTypes, StringTypes
  <2>3. HandleCompositionBackspace(s, e) =
          IF Len(Line(s.buf)) = 1 THEN HandleCancel(left, e) ELSE HandleCompositionInputWorker(left)
    BY <1>2, <2>2 DEF HandleCompositionBackspace
  <2> HIDE DEF left
  <2>4. /\ left.comp /\ left.caret = "end" /\ left.engine /\ ~left.fault /\ left.list = s.list
        /\ left.pres = s.pres /\ left.wnd = s.wnd /\ left.learned = s.learned
        /\ left.text = s.text /\ left.mode = s.mode /\ left.spent = s.spent
    BY <1>0, <1>2, <2>1 DEF Covered, Shaped, Fields
  <2>5. Len(Line(left.buf)) = Len(Line(s.buf)) - 1
    <3>1. Line(s.buf) # <<>>
      BY <1>0, <1>2, TextTypes
    <3> HIDE DEF Line
    <3> QED BY <1>0, <2>1, <3>1, FrontLength
  <2>6. Len(Line(s.buf)) = 1 <=> left.buf = NoText
    <3>1. Line(left.buf) \in Strings /\ (Line(left.buf) = <<>> <=> left.buf = NoText)
      BY <2>1, TextTypes
    <3>2. Len(Line(left.buf)) = 0 <=> left.buf = NoText
      BY <3>1, StringTypes
    <3> HIDE DEF Line
    <3> QED BY <2>2, <2>5, <3>2
  <2>7. CASE left.buf = NoText
    <3>1. OneReading(left) /\ Steady(left)
      BY <1>0, <2>4, <2>7, EmptyBuffer DEF OneReading, Steady
    <3>2. Loose(left)
      BY <2>1, <3>1, ServiceShaped DEF Loose, Fits
    <3> QED BY <2>3, <2>4, <2>6, <2>7, <3>2, CancelGood
  <2>8. CASE left.buf # NoText
    <3>1. Steady(left)
      BY <1>0, <2>4 DEF Steady
    <3>2. Typing(left)
      BY <1>0, <2>1, <2>4, <2>8, <3>1, ServiceShaped DEF Typing, OneReading
    <3> QED BY <2>3, <2>6, <2>8, <3>2, WorkerGood
  <2> QED BY <2>7, <2>8
<1> QED BY <1>1, <1>2

\* A candidate that is put faults in wild hosts only.
LEMMA PlacedIs ==
  ASSUME NEW s, Good(s), ~s.fault, s.list # <<>>
  PROVE  LET placed == AddComposingAndChar(s, CandidateText(s.list))
         IN  Loose(placed) /\ placed.buf = s.buf /\ (placed.fault => Good(placed))
<1> DEFINE placed == AddComposingAndChar(s, CandidateText(s.list))
<1>1. /\ Loose(placed) /\ placed.buf = s.buf
      /\ s.comp /\ s.engine => ~placed.fault
  BY ChosenLoose DEF Good
<1>2. Orderly => s.comp /\ s.engine
  BY DEF Good, Loose, Fits, Steady, InStep, OneReading, NoText
<1> HIDE DEF placed
<1>3. placed.fault => Good(placed)
  BY <1>1, <1>2, WildIsGood
<1> QED BY <1>1, <1>3 DEF placed

LEMMA PunctuationGood ==
  ASSUME NEW s, NEW e, Good(s), ~s.fault, Granted(e)
  PROVE  Good(HandleCompositionPunctuation(s, e))
<1> DEFINE chosen == s.mode # "none" /\ s.pres
           placed == IF chosen /\ s.list # <<>> THEN AddComposingAndChar(s, CandidateText(s.list))
                                                ELSE s
           r      == HandleCompositionPunctuation(s, e)
<1>1. Loose(placed) /\ (placed.fault => Good(placed))
  BY PlacedIs DEF Good
<1>2. r = IF (chosen /\ ~s.wnd) \/ ~s.engine THEN Fault(s)
          ELSE Unless(placed, HandleCancel(AddCharAndFinalize(placed, <<>>), e))
  BY DEF HandleCompositionPunctuation
<1> HIDE DEF placed
<1>3. ~placed.fault => Good(HandleCancel(AddCharAndFinalize(placed, <<>>), e))
  <2> DEFINE beside == AddCharAndFinalize(placed, <<>>)
  <2>1. Loose(beside) /\ beside.fault = placed.fault
    BY <1>1, StringTypes, BesideLoose
  <2> HIDE DEF beside
  <2>2. ~placed.fault => Good(HandleCancel(beside, e))
    BY <2>1, CancelGood
  <2> QED BY <2>2 DEF beside
<1> QED BY <1>1, <1>2, <1>3, FaultGood DEF Unless

LEMMA DoubleSingleByteGood ==
  ASSUME NEW s, NEW e, Good(s), ~s.fault, Granted(e)
  PROVE  Good(HandleCompositionDoubleSingleByte(s, e))
<1> DEFINE beside == AddCharAndFinalize(s, <<>>)
<1>1. Loose(s)
  BY DEF Good
<1>2. Loose(beside) /\ beside.fault = s.fault
  BY <1>1, StringTypes, BesideLoose
<1> HIDE DEF beside
<1>3. Good(HandleCancel(beside, e))
  BY <1>2, CancelGood
<1> QED BY <1>3 DEF HandleCompositionDoubleSingleByte, beside

LEMMA CandidateFinalizeGood ==
  ASSUME NEW s, NEW e, Good(s), ~s.fault, Granted(e)
  PROVE  Good(HandleCandidateFinalize(s, e))
<1>1. CASE s.list # <<>>
  <2> DEFINE chosen == CandidateText(s.list)
             placed == AddComposingAndChar(s, chosen)
             told   == NotifyCommitted(placed, chosen)
  <2>1. Loose(placed) /\ placed.buf = s.buf /\ (placed.fault => Good(placed))
    BY <1>1, PlacedIs
  <2>2. /\ chosen \in Texts
        /\ chosen # NoText /\ BufferReading(s.buf) # <<>> => Reads(chosen, BufferReading(s.buf))
    BY ChosenReads DEF Good
  <2>3. s.pres /\ s.wnd
    BY <1>1 DEF Good, Loose, Fits, OneReading
  <2>4. HandleCandidateFinalize(s, e) = Unless(placed, HandleComplete(told, e))
    BY <1>1, <2>3 DEF HandleCandidateFinalize
  <2> HIDE DEF placed
  <2>5. ~placed.fault => Loose(told) /\ ~told.fault
    BY <2>1, <2>2, NotifyIs
  <2> HIDE DEF told
  <2>6. ~placed.fault => Good(HandleComplete(told, e))
    BY <2>5, CompleteGood
  <2> QED BY <2>1, <2>4, <2>6 DEF Unless
<1>2. CASE s.list = <<>>
  BY <1>2, FaultGood, CompleteGood DEF HandleCandidateFinalize, Good
<1> QED BY <1>1, <1>2

LEMMA SelectByNumberGood ==
  ASSUME NEW s, NEW e, Good(s), ~s.fault, Granted(e)
  PROVE  Good(HandleCandidateSelectByNumber(s, e))
<1>1. Good(HandleCandidateWorker(s, e))
  BY FaultGood, CandidateFinalizeGood DEF HandleCandidateWorker
<1> QED BY <1>1, FaultGood DEF HandleCandidateSelectByNumber

(* Whichever session runs, on whatever ts is by then.                      *)
LEMMA SessionGood ==
  ASSUME NEW s, NEW session, NEW e, Good(s), ~s.fault, Granted(e),
         Spells(session) => session.id \in KeyIds,
         Orderly => session.class # "endComposition"
  PROVE  Good(DoEditSession(s, session, e))
<1>1. Good(HandleCompositionFinalize(s, FALSE, e)) /\ Good(HandleCompositionFinalize(s, TRUE, e))
  BY FinalizeGood
<1>2. Spells(session) => Good(HandleCompositionInput(s, session.id, e))
  BY InputGood
<1>3. Good(HandleCancel(s, e))
  BY CancelGood DEF Good
<1>4. Good(HandleCompositionArrowKey(s)) /\ Good(HandleCandidateArrowKey(s))
  BY FaultGood DEF HandleCompositionArrowKey, HandleCandidateArrowKey
<1>5. Spells(session) =>
        LET chosen == HandleCandidateFinalize(s, e)
        IN Good(Unless(chosen, HandleCompositionInput(chosen, session.id, e)))
  BY CandidateFinalizeGood, InputGood DEF Unless
<1>6. session.class = "endComposition" => Good(TerminateComposition(s, e))
  BY TerminateLoose, WildIsGood DEF Good
<1>7. /\ session.fn = "input" => Spells(session)
      /\ session.fn = "finalizeCandidateListAndInput" => Spells(session)
  BY DEF Spells
<1> QED BY <1>1, <1>2, <1>3, <1>4, <1>5, <1>6, <1>7, ConvertGood, BackspaceGood, PunctuationGood,
           DoubleSingleByteGood, CandidateFinalizeGood, SelectByNumberGood DEF DoEditSession

-----------------------------------------------------------------------------
(* The steps.                                                              *)

(* No session waits in a calm or prompt host to end the composition.       *)
Waiting == Orderly => \A i \in DOMAIN queue : queue[i].class # "endComposition"

IInv == TInv /\ Good(ts) /\ ts.fault = FALSE /\ Waiting

LEMMA InitGood == Init => IInv
<1> SUFFICES ASSUME Init PROVE IInv
  OBVIOUS
<1>0. TInv /\ ts \in Service /\ Shaped(ts)
  BY TInit, TypeIs, ServiceShaped DEF TInv
<1>1. /\ ts.text = NoText /\ ts.list = <<>> /\ ts.buf = NoText /\ ts.engine /\ ts.caret = "end"
      /\ ts.mode = "none" /\ ts.learned.text = NoText /\ ts.learned.reading = <<>>
      /\ ts.fault = FALSE
  BY DEF Init
<1>2. NoText.kana = <<>>
  BY DEF NoText
<1>3. OneReading(ts) /\ Steady(ts) /\ InStep(ts)
  BY <1>1, <1>2, EmptyBuffer DEF OneReading, Reads, Steady, InStep
<1>4. Waiting
  BY DEF Init, Waiting
<1> QED BY <1>0, <1>1, <1>3, <1>4 DEF IInv, Good, Loose, Fits

LEMMA ChoicesGranted ==
  ASSUME host \in Hosts, NEW session, NEW e \in Choices(session)
  PROVE  Granted(e)
<1>1. e.start \in May("start") /\ e.window \in May("window")
  BY DEF Choices
<1>2. Orderly => "start" \notin host.refuses /\ "window" \notin host.refuses
  BY DEF Orderly, Calm, Prompt
<1>3. Orderly => e.start /\ e.window
  BY <1>1, <1>2 DEF May
<1> QED BY <1>3, EffectIs DEF Granted

LEMMA RanGood ==
  ASSUME NEW s, Good(s), Ran(s)
  PROVE  Good(ts') /\ ts'.fault = FALSE
<1> DEFINE r == [s EXCEPT !.fault = FALSE]
<1>1. s \in Service /\ Shaped(s)
  BY DEF Good, Loose, Fits
<1>2. r \in Service
  BY <1>1 DEF Service
<1>3. \A f \in Fields \ {"fault"} : r[f] = s[f]
  BY <1>1 DEF Shaped, Fields
<1>4. r.fault = FALSE
  BY <1>1 DEF Shaped, Fields
<1>5. ts' = r
  BY DEF Ran
<1> HIDE DEF r
<1>6. /\ r.comp = s.comp /\ r.caret = s.caret /\ r.engine = s.engine /\ r.list = s.list
      /\ r.pres = s.pres /\ r.wnd = s.wnd /\ r.learned = s.learned /\ r.text = s.text
      /\ r.mode = s.mode /\ r.buf = s.buf /\ r.spent = s.spent
  BY <1>3 DEF Fields
<1>7. OneReading(r) /\ Steady(r) /\ InStep(r)
  BY <1>6 DEF Good, Loose, Fits, OneReading, Steady, InStep, Stray
<1> QED BY <1>2, <1>4, <1>5, <1>7, ServiceShaped DEF Good, Loose, Fits

LEMMA SameOrderly == host' = host => (Orderly' <=> Orderly)
BY DEF Orderly, Calm, Prompt

LEMMA RequestWaits ==
  ASSUME TInv, Waiting, NEW session \in Sessions, Request(session), host' = host,
         Orderly => session.class # "endComposition"
  PROVE  Waiting'
<1>1. /\ DOMAIN queue' = DOMAIN queue \union {Len(queue) + 1}
      /\ \A i \in DOMAIN queue : queue'[i] = queue[i]
      /\ queue'[Len(queue) + 1] = session
  BY TypeIs, QueueGrows DEF TInv
<1> QED BY <1>1, SameOrderly DEF Waiting

LEMMA SameWaits ==
  ASSUME Waiting, UNCHANGED <<host, queue>>
  PROVE  Waiting'
BY SameOrderly DEF Waiting

LEMMA TakenWaits ==
  ASSUME TInv, Waiting, queue # <<>>, queue' = Tail(queue), host' = host
  PROVE  /\ Waiting'
         /\ Orderly => Head(queue).class # "endComposition"
         /\ Spells(Head(queue)) => Head(queue).id \in KeyIds
<1>1. /\ 1 \in DOMAIN queue /\ queue[1] = Head(queue)
      /\ \A i \in DOMAIN queue' : i + 1 \in DOMAIN queue /\ queue'[i] = queue[i + 1]
  BY TypeIs, QueueShrinks DEF TInv
<1>2. Waiting'
  BY <1>1, SameOrderly DEF Waiting
<1> QED BY <1>1, <1>2 DEF Waiting, TInv, SpelledIds

(* What only hosts that are neither calm nor prompt do.                    *)
LEMMA WildStep ==
  ASSUME NEW s, Loose(s), s.fault = FALSE, ts' = s, ~Orderly, Waiting, host' = host
  PROVE  Good(ts') /\ ts'.fault = FALSE /\ Waiting'
BY WildIsGood, SameOrderly DEF Waiting

LEMMA StepGood ==
  ASSUME IInv, Next
  PROVE  Good(ts') /\ ts'.fault = FALSE /\ Waiting'
<1>0. /\ Good(ts) /\ Loose(ts) /\ ts \in Service /\ Shaped(ts) /\ OneReading(ts) /\ Steady(ts)
      /\ ~ts.fault /\ ts.fault = FALSE /\ Waiting /\ TInv /\ host' = host /\ host \in Hosts
  BY TypeIs DEF IInv, TInv, Good, Loose, Fits, Next
<1>1. CASE RunSession
  <2>1. /\ Waiting' /\ (Orderly => Head(queue).class # "endComposition")
        /\ Spells(Head(queue)) => Head(queue).id \in KeyIds
    BY <1>0, <1>1, TakenWaits DEF RunSession
  <2>2. PICK e \in Choices(Head(queue)) : Ran(DoEditSession(ts, Head(queue), e))
    BY <1>1 DEF RunSession
  <2>3. Good(DoEditSession(ts, Head(queue), e))
    BY <1>0, <2>1, ChoicesGranted, SessionGood
  <2> QED BY <2>1, <2>2, <2>3, RanGood
<1>2. ASSUME NEW k \in host.keys, KeyDown(k)
      PROVE  Good(ts') /\ ts'.fault = FALSE /\ Waiting'
  <2>1. /\ ts' = ts /\ Pressed(k) \in Sessions /\ Pressed(k).class = "keyHandler"
        /\ UNCHANGED queue \/ Request(Pressed(k))
    BY <1>0, <1>2, KeyDownIs
  <2>2. Waiting'
    BY <1>0, <2>1, SameWaits, RequestWaits
  <2> QED BY <1>0, <2>1, <2>2
<1>3. ASSUME NEW c \in {"end", "before", "after"}, MoveCaret(c)
      PROVE  Good(ts') /\ ts'.fault = FALSE /\ Waiting'
  <2> DEFINE r == [ts EXCEPT !.caret = c]
  <2>1. ~Orderly
    BY <1>3 DEF MoveCaret, Enabled, Orderly, Calm, Prompt
  <2>2. ts' = r
    BY <1>3 DEF MoveCaret
  <2>3. r \in Service
    BY <1>0 DEF Service
  <2>4. OneReading(r) /\ Steady(r) /\ r.fault = FALSE
    BY <1>0, <2>1 DEF Shaped, Fields, OneReading, Steady, Orderly
  <2>5. Loose(r)
    BY <2>3, <2>4, ServiceShaped DEF Loose, Fits
  <2> QED BY <1>0, <2>1, <2>2, <2>4, <2>5, WildStep
<1>4. CASE Click
  <2>1. \/ UNCHANGED queue /\ \E e \in Choices(Clicked) : Ran(DoEditSession(ts, Clicked, e))
        \/ Request(Clicked) /\ UNCHANGED <<ts, erased>>
    BY <1>4 DEF Click, Clicked
  <2>2. CASE UNCHANGED queue /\ \E e \in Choices(Clicked) : Ran(DoEditSession(ts, Clicked, e))
    <3>1. PICK e \in Choices(Clicked) : Ran(DoEditSession(ts, Clicked, e))
      BY <2>2
    <3>2. Good(DoEditSession(ts, Clicked, e))
      BY <1>0, SessionTyped, ChoicesGranted, SessionGood
    <3>3. Waiting'
      BY <1>0, <2>2, SameWaits
    <3> QED BY <3>1, <3>2, <3>3, RanGood
  <2>3. CASE Request(Clicked) /\ UNCHANGED <<ts, erased>>
    BY <1>0, <2>3, SessionTyped, RequestWaits
  <2> QED BY <2>1, <2>2, <2>3
<1>5. CASE OnCompositionTerminated
  <2> DEFINE emptied   == RemoveDummyCompositionForComposing(ts)
             ended(e)  == TerminateComposition(emptied, e)
             result(e) == IF ~ts.ctx THEN Fault(ts)
                          ELSE Unless(ended(e), DeleteCandidateList(ended(e)))
  <2>1. ~Orderly
    BY <1>5 DEF OnCompositionTerminated, Enabled, Orderly, Calm, Prompt
  <2>2. PICK e \in Choices(EndSession) : Ran(result(e))
    BY <1>5 DEF OnCompositionTerminated
  <2>3. Loose(emptied) /\ ~emptied.fault
    BY <1>0, DummyLoose
  <2> HIDE DEF emptied
  <2>4. Loose(ended(e)) /\ Loose(DeleteCandidateList(ended(e)))
    BY <1>0, <2>3, ChoicesGranted, TerminateLoose, DeleteLoose
  <2> HIDE DEF ended
  <2>5. Loose(result(e))
    BY <1>0, <2>4, FaultLoose DEF Unless
  <2>6. Waiting'
    BY <1>0, <1>5, SameWaits DEF OnCompositionTerminated
  <2> HIDE DEF result
  <2> QED BY <2>1, <2>2, <2>5, <2>6, WildIsGood, RanGood
<1>6. CASE OnActivatedOff
  <2>1. ~Orderly
    BY <1>6 DEF OnActivatedOff, Enabled, Orderly, Calm, Prompt
  <2>2. Good(DeleteCandidateList(ts))
    BY <1>0, <2>1, DeleteLoose, WildIsGood
  <2>3. Waiting' /\ Ran(DeleteCandidateList(ts))
    BY <1>0, <1>6, SameWaits DEF OnActivatedOff
  <2> QED BY <2>2, <2>3, RanGood
<1>7. CASE LayoutDestroyed
  <2> DEFINE r == [ts EXCEPT !.wnd = FALSE, !.list = <<>>]
  <2>1. ~Orderly
    BY <1>7 DEF LayoutDestroyed, Enabled, Orderly, Calm, Prompt
  <2>2. ts' = r /\ r \in Service
    BY <1>0, <1>7, SmallTypes DEF LayoutDestroyed, EndCandidateList
  <2>3. OneReading(r) /\ Steady(r) /\ r.fault = FALSE
    BY <1>0, <2>1 DEF Shaped, Fields, OneReading, Steady, Orderly
  <2>4. Loose(r)
    BY <2>2, <2>3, ServiceShaped DEF Loose, Fits
  <2> QED BY <1>0, <2>1, <2>2, <2>3, <2>4, WildStep
<1>8. CASE OpenClose
  <2> DEFINE r == [ts EXCEPT !.open = ~@]
  <2>1. ts' = r /\ Waiting'
    BY <1>0, <1>8, SameWaits DEF OpenClose
  <2>2. r \in Service
    BY <1>0 DEF Service
  <2>3. /\ r.comp = ts.comp /\ r.caret = ts.caret /\ r.engine = ts.engine /\ r.list = ts.list
        /\ r.pres = ts.pres /\ r.wnd = ts.wnd /\ r.learned = ts.learned /\ r.text = ts.text
        /\ r.mode = ts.mode /\ r.buf = ts.buf /\ r.spent = ts.spent /\ r.fault = ts.fault
    BY <1>0 DEF Shaped, Fields
  <2> HIDE DEF r
  <2>4. OneReading(r) /\ Steady(r) /\ InStep(r)
    BY <1>0, <2>3 DEF Good, OneReading, Steady, InStep, Stray
  <2> QED BY <1>0, <2>1, <2>2, <2>3, <2>4, ServiceShaped DEF Good, Loose, Fits
<1>9. CASE Deactivate
  <2> DEFINE off == [ts EXCEPT !.engine = FALSE]
             r   == IF ts.pres THEN [EndCandidateList(off) EXCEPT !.pres = FALSE, !.mode = "none"]
                               ELSE off
  <2>1. ~Orderly
    BY <1>9 DEF Deactivate, Enabled, Orderly, Calm, Prompt
  <2>2. ts' = r
    BY <1>9 DEF Deactivate
  <2>3. off \in Service
    BY <1>0 DEF Service
  <2>4. EndCandidateList(off) \in Service
    BY <2>3, SmallTypes
  <2>5. r \in Service
    <3> HIDE DEF off
    <3>1. [EndCandidateList(off) EXCEPT !.pres = FALSE, !.mode = "none"] \in Service
      BY <2>4 DEF Service
    <3> QED BY <2>3, <3>1
  <2>6. /\ r.comp = ts.comp /\ r.learned = ts.learned /\ r.text = ts.text /\ r.buf = ts.buf
        /\ r.fault = FALSE /\ (r.list # <<>> => r.list = ts.list /\ r.pres = ts.pres /\ r.wnd = ts.wnd)
    <3>1. CASE ts.pres
      BY <1>0, <3>1 DEF EndCandidateList, Shaped, Fields
    <3>2. CASE ~ts.pres
      BY <1>0, <3>2 DEF Shaped, Fields
    <3> QED BY <3>1, <3>2
  <2> HIDE DEF r
  <2>7. OneReading(r) /\ Steady(r)
    BY <1>0, <2>1, <2>6 DEF OneReading, Steady, Orderly
  <2>8. Loose(r)
    BY <2>5, <2>7, ServiceShaped DEF Loose, Fits
  <2> QED BY <1>0, <2>1, <2>2, <2>6, <2>8, WildStep
<1> QED BY <1>1, <1>2, <1>3, <1>4, <1>5, <1>6, <1>7, <1>8, <1>9 DEF Next, UserStep, HostStep

LEMMA Inductive == IInv /\ [Next]_vars => IInv'
<1> SUFFICES ASSUME IInv, [Next]_vars PROVE IInv'
  OBVIOUS
<1>0. TInv'
  BY TNext DEF IInv
<1>1. host' = host
  BY DEF Next, vars
<1>2. Good(ts') /\ ts'.fault = FALSE /\ Waiting'
  <2>1. CASE Next
    BY <2>1, StepGood
  <2>2. CASE UNCHANGED vars
    BY <2>2, SameWaits DEF vars, IInv
  <2> QED BY <2>1, <2>2
<1>3. Good(ts)'
  BY <1>1, <1>2 DEF Good, Loose, Fits, OneReading, Steady, InStep, Stray, Orderly, Calm, Prompt,
                    BufferReading, BufferDisplay, LoneN
<1> QED BY <1>0, <1>2, <1>3 DEF IInv

LEMMA Invariant == Spec => []IInv
BY InitGood, Inductive, PTL DEF Spec

-----------------------------------------------------------------------------
(* The engine is never taught a text for a reading the person did not      *)
(* choose it for: NotifyCommitted, called by every handler that settles,   *)
(* is given what the buffer reads, and a text whose kana are that reading, *)
(* or the first of it that GetText answers; in every host.                 *)
THEOREM LearnedIsReadHolds == Spec => []LearnedIsRead
<1>1. IInv => LearnedIsRead
  BY DEF IInv, Good, Loose, Fits, OneReading, Reads, LearnedIsRead
<1> QED BY <1>1, Invariant, PTL

(* In a calm host the keystroke buffer, the composition and the candidates *)
(* are of the same reading after every session, however the keys and the   *)
(* sessions they asked for interleave; but for letters that spell nothing. *)
THEOREM ScreenIsTrueHolds == Spec => []ScreenIsTrue
<1>1. IInv => ScreenIsTrue
  BY DEF IInv, Good, Loose, Fits, OneReading, InStep, Stray, Orderly, ScreenIsTrue,
         BufferIsOnScreen, StrayOnScreen, ListAnswersReading
<1> QED BY <1>1, Invariant, PTL

(* In a prompt host the candidate handlers never meet a presenter whose    *)
(* window is gone: no null pointer is used while choosing.                 *)
THEOREM ChoosingHasWindowHolds == Spec => []ChoosingHasWindow
<1>1. IInv => ChoosingHasWindow
  BY DEF IInv, Good, Loose, Fits, Steady, ChoosingHasWindow
<1> QED BY <1>1, Invariant, PTL

-----------------------------------------------------------------------------
(* TextService implements Preedit, for every set of hosts and every number *)
(* of keys: a host that is not calm maps to a Preedit in which nothing     *)
(* happens, and in a calm one every session is one step of it or none.     *)
(*                                                                         *)
(* For each handler a lemma says which step, by the texts before and after *)
(* (Handled, Spelled).  That a key may be typed where it is, in order and  *)
(* once, rests on RInv: what is written, then what waits, then what is yet *)
(* to be typed, is increasing.                                             *)

-----------------------------------------------------------------------------
(* Increasing sequences of keys.                                           *)

Rising(q) == \A i, j \in DOMAIN q : i < j => q[i] < q[j]

Before(A, B) == \A x \in A, y \in B : x < y

LEMMA ConcatIs ==
  ASSUME NEW a \in Strings, NEW b \in Strings
  PROVE  /\ Len(a) \in Nat /\ Len(b) \in Nat /\ DOMAIN a = 1..Len(a) /\ DOMAIN b = 1..Len(b)
         /\ DOMAIN (a \o b) = 1..(Len(a) + Len(b))
         /\ \A i \in DOMAIN a : i \in DOMAIN (a \o b) /\ (a \o b)[i] = a[i]
         /\ \A i \in DOMAIN b : Len(a) + i \in DOMAIN (a \o b) /\ (a \o b)[Len(a) + i] = b[i]
         /\ \A i \in DOMAIN (a \o b) :
              \/ i \in DOMAIN a /\ (a \o b)[i] = a[i]
              \/ i - Len(a) \in DOMAIN b /\ i > Len(a) /\ (a \o b)[i] = b[i - Len(a)]
<1> DEFINE c == a \o b
           m == Len(a)
           n == Len(b)
<1>1. /\ Len(c) = m + n /\ c \in Seq(KeyIds)
      /\ \A i \in 1..(m + n) : c[i] = IF i <= m THEN a[i] ELSE b[i - m]
  BY ConcatProperties DEF Strings
<1>2. m \in Nat /\ n \in Nat /\ DOMAIN a = 1..m /\ DOMAIN b = 1..n /\ DOMAIN c = 1..(m + n)
  BY <1>1, LenProperties DEF Strings
<1> HIDE DEF c, m, n
<1>3. \A i \in DOMAIN a : i \in DOMAIN c /\ c[i] = a[i]
  BY <1>1, <1>2
<1>4. \A i \in DOMAIN b : m + i \in DOMAIN c /\ c[m + i] = b[i]
  <2> SUFFICES ASSUME NEW i \in 1..n PROVE m + i \in DOMAIN c /\ c[m + i] = b[i]
    BY <1>2
  <2>1. m + i \in 1..(m + n) /\ ~(m + i <= m) /\ (m + i) - m = i
    BY <1>2
  <2> QED BY <1>1, <1>2, <2>1
<1>5. \A i \in DOMAIN c : \/ i \in DOMAIN a /\ c[i] = a[i]
                          \/ i - m \in DOMAIN b /\ i > m /\ c[i] = b[i - m]
  <2> SUFFICES ASSUME NEW i \in 1..(m + n)
               PROVE  \/ i \in DOMAIN a /\ c[i] = a[i]
                      \/ i - m \in DOMAIN b /\ i > m /\ c[i] = b[i - m]
    BY <1>2
  <2>1. i <= m => i \in 1..m
    BY <1>2
  <2>2. ~(i <= m) => i > m /\ i - m \in 1..n
    BY <1>2
  <2> QED BY <1>1, <1>2, <2>1, <2>2
<1> QED BY <1>2, <1>3, <1>4, <1>5 DEF c, m, n

LEMMA CharsConcat ==
  ASSUME NEW a \in Strings, NEW b \in Strings
  PROVE  CharsOf(a \o b) = CharsOf(a) \union CharsOf(b)
<1> DEFINE c == a \o b
<1>1. /\ \A i \in DOMAIN a : i \in DOMAIN c /\ c[i] = a[i]
      /\ \A i \in DOMAIN b : Len(a) + i \in DOMAIN c /\ c[Len(a) + i] = b[i]
      /\ \A i \in DOMAIN c : \/ i \in DOMAIN a /\ c[i] = a[i]
                             \/ i - Len(a) \in DOMAIN b /\ c[i] = b[i - Len(a)]
  BY ConcatIs
<1> HIDE DEF c
<1>2. CharsOf(a) \subseteq CharsOf(c)
  BY <1>1 DEF CharsOf
<1>3. CharsOf(b) \subseteq CharsOf(c)
  BY <1>1 DEF CharsOf
<1>4. CharsOf(c) \subseteq CharsOf(a) \union CharsOf(b)
  BY <1>1 DEF CharsOf
<1> QED BY <1>2, <1>3, <1>4 DEF c

LEMMA CharsOne ==
  /\ CharsOf(<<>>) = {} /\ Rising(<<>>)
  /\ \A n \in KeyIds : CharsOf(<<n>>) = {n} /\ Rising(<<n>>)
<1>1. DOMAIN <<>> = {}
  OBVIOUS
<1>2. \A n : DOMAIN <<n>> = {1} /\ <<n>>[1] = n
  OBVIOUS
<1> QED BY <1>1, <1>2 DEF CharsOf, Rising

LEMMA RisingConcat ==
  ASSUME NEW a \in Strings, NEW b \in Strings
  PROVE  Rising(a \o b) <=> Rising(a) /\ Rising(b) /\ Before(CharsOf(a), CharsOf(b))
<1> DEFINE c == a \o b
           m == Len(a)
<1>1. /\ m \in Nat /\ DOMAIN a = 1..m /\ DOMAIN b = 1..Len(b) /\ Len(b) \in Nat
      /\ DOMAIN c = 1..(m + Len(b))
      /\ \A i \in DOMAIN a : i \in DOMAIN c /\ c[i] = a[i]
      /\ \A i \in DOMAIN b : m + i \in DOMAIN c /\ c[m + i] = b[i]
      /\ \A i \in DOMAIN c : \/ i \in DOMAIN a /\ c[i] = a[i]
                             \/ i - m \in DOMAIN b /\ i > m /\ c[i] = b[i - m]
  BY ConcatIs
<1> HIDE DEF c, m
<1>2. ASSUME Rising(c) PROVE Rising(a)
  BY <1>1, <1>2 DEF Rising
<1>3. ASSUME Rising(c) PROVE Rising(b)
  <2> SUFFICES ASSUME NEW i \in DOMAIN b, NEW j \in DOMAIN b, i < j PROVE b[i] < b[j]
    BY DEF Rising
  <2>1. m + i \in DOMAIN c /\ m + j \in DOMAIN c /\ m + i < m + j
    BY <1>1
  <2> QED BY <1>1, <1>3, <2>1 DEF Rising
<1>4. ASSUME Rising(c) PROVE Before(CharsOf(a), CharsOf(b))
  <2> SUFFICES ASSUME NEW i \in DOMAIN a, NEW j \in DOMAIN b PROVE a[i] < b[j]
    BY DEF Before, CharsOf
  <2>1. i \in DOMAIN c /\ m + j \in DOMAIN c /\ i < m + j
    BY <1>1
  <2>2. c[i] < c[m + j]
    BY <1>4, <2>1 DEF Rising
  <2> QED BY <1>1, <2>2
<1>5. ASSUME Rising(a), Rising(b), Before(CharsOf(a), CharsOf(b)) PROVE Rising(c)
  <2> SUFFICES ASSUME NEW i \in DOMAIN c, NEW j \in DOMAIN c, i < j PROVE c[i] < c[j]
    BY DEF Rising
  <2>1. CASE i \in DOMAIN a /\ c[i] = a[i] /\ j \in DOMAIN a /\ c[j] = a[j]
    BY <1>5, <2>1 DEF Rising
  <2>2. CASE i \in DOMAIN a /\ c[i] = a[i] /\ j - m \in DOMAIN b /\ c[j] = b[j - m]
    BY <1>5, <2>2 DEF Before, CharsOf
  <2>3. CASE i - m \in DOMAIN b /\ c[i] = b[i - m] /\ j - m \in DOMAIN b /\ c[j] = b[j - m]
    <3>1. i - m < j - m
      BY <1>1
    <3> QED BY <1>5, <2>3, <3>1 DEF Rising
  <2>4. ~(i > m /\ j \in DOMAIN a)
    BY <1>1
  <2> QED BY <1>1, <2>1, <2>2, <2>3, <2>4
<1> QED BY <1>2, <1>3, <1>4, <1>5 DEF c

LEMMA FrontRising ==
  ASSUME NEW q \in Strings, q # <<>>, Rising(q)
  PROVE  LET front == SubSeq(q, 1, Len(q) - 1)
         IN  front \in Strings /\ Rising(front) /\ CharsOf(front) \subseteq CharsOf(q)
<1> DEFINE n == Len(q)
           f == SubSeq(q, 1, n - 1)
<1>1. n \in Nat /\ n # 0 /\ DOMAIN q = 1..n
  BY StringTypes, LenProperties DEF Strings
<1>2. f \in Strings
  BY <1>1, StringTypes
<1>3. n - 1 \in Int /\ \A i \in 1..(n - 1) : q[i] \in KeyIds
  <2> HIDE DEF n
  <2> QED BY <1>1, ElementOfSeq DEF Strings, n
<1>4. /\ Len(f) = IF 1 <= n - 1 THEN (n - 1) - 1 + 1 ELSE 0
      /\ \A i \in 1..((n - 1) - 1 + 1) : f[i] = q[1 + i - 1]
  BY <1>3, SubSeqProperties
<1>5. DOMAIN f = 1..Len(f) /\ Len(f) \in Nat
  BY <1>2, LenProperties DEF Strings
<1> HIDE DEF f, n
<1>6. DOMAIN f = 1..(n - 1)
  BY <1>1, <1>4, <1>5
<1>7. \A i \in DOMAIN f : i \in DOMAIN q /\ f[i] = q[i]
  <2> SUFFICES ASSUME NEW i \in 1..(n - 1) PROVE i \in DOMAIN q /\ f[i] = q[i]
    BY <1>6
  <2>1. i \in 1..((n - 1) - 1 + 1) /\ (1 + i) - 1 = i /\ i \in 1..n
    BY <1>1
  <2> QED BY <1>1, <1>4, <2>1
<1> QED BY <1>2, <1>7 DEF Rising, CharsOf, f, n

-----------------------------------------------------------------------------
(* What a key makes of a text.                                             *)

Kept(t) == IF t.letters = <<>> THEN Len(t.kana) - 1 ELSE Len(t.kana)

Respelt(t, u, n) ==
  /\ Kept(t) <= Len(u.kana)
  /\ \A i \in 1..Kept(t) : u.kana[i] = t.kana[i]
  /\ CharsOf(Line(u)) \subseteq CharsOf(Line(t)) \union {n}

LEMMA RespeltAsIs ==
  ASSUME NEW t \in Texts, NEW n
  PROVE  Respelt(t, t, n)
<1>1. Len(t.kana) \in Nat
  BY TextTypes, StringTypes
<1> QED BY <1>1 DEF Respelt, Kept

LEMMA RestIs ==
  ASSUME NEW b \in Texts, NEW m \in Rest(b), Rising(b.letters)
  PROVE  m \in Strings /\ Rising(m) /\ CharsOf(m) \subseteq CharsOf(b.letters)
<1> DEFINE l == b.letters
<1>1. l \in Strings /\ <<>> \in Strings
  BY TextTypes, StringTypes
<1>2. CASE m = <<>> \/ m = l
  BY <1>1, <1>2, CharsOne
<1>3. CASE m = LastOf(l)
  <2>1. m \in Strings /\ CharsOf(m) \subseteq CharsOf(l) /\ Len(m) <= 1
    BY <1>1, <1>3, LastIs
  <2>2. DOMAIN m = 1..Len(m) /\ Len(m) \in Nat
    BY <2>1, LenProperties DEF Strings
  <2>3. \A i, j \in DOMAIN m : ~(i < j)
    BY <2>1, <2>2
  <2> QED BY <2>1, <2>3 DEF Rising
<1> QED BY <1>2, <1>3 DEF Rest

LEMMA Respells ==
  ASSUME NEW b \in Texts, NEW t \in Texts, t = BufferDisplay(b) \/ (b = NoText /\ t.kana = <<>>),
         NEW n \in KeyIds, NEW effect \in Effects,
         Rising(Line(t)), \A y \in CharsOf(Line(t)) : y < n
  PROVE  LET a == BufferAfterKeystroke(b, n, effect)
             u == BufferDisplay(a)
         IN  /\ a \in Texts /\ u \in Texts /\ Respelt(t, u, n) /\ Rising(Line(u))
             /\ Line(u) = Line(a) /\ CharsOf(b.kana) \subseteq CharsOf(Line(a))
<1> DEFINE a == BufferAfterKeystroke(b, n, effect)
           u == BufferDisplay(a)
<1>0. /\ a \in Texts
      /\ \E m \in Rest(b), end \in Ends(n), x \in Strings :
           a.kana = b.kana \o x /\ x \o a.letters = m \o end
  BY AfterIs, ZenonT(60)
<1> HIDE DEF a
<1>1. PICK m \in Rest(b), end \in Ends(n), x \in Strings :
        a \in Texts /\ a.kana = b.kana \o x /\ x \o a.letters = m \o end
  BY <1>0
<1> HIDE DEF a
<1>2. /\ b.kana \in Strings /\ b.letters \in Strings /\ a.kana \in Strings /\ a.letters \in Strings
      /\ t.kana \in Strings /\ Line(b) \in Strings /\ Line(t) \in Strings
  BY <1>1, TextTypes
<1>3. /\ u \in Texts /\ Line(u) = Line(a)
      /\ u.kana = a.kana \/ u.kana = a.kana \o a.letters
  BY <1>1, BufferIs
<1> HIDE DEF u
<1>4. Rising(Line(b)) /\ CharsOf(Line(b)) \subseteq CharsOf(Line(t))
  <2>1. CASE t = BufferDisplay(b)
    BY <2>1, BufferIs
  <2>2. CASE b = NoText
    <3>1. Line(b) = <<>>
      BY <2>2, TextTypes
    <3> QED BY <3>1, CharsOne
  <2> QED BY <2>1, <2>2
<1>5. /\ Rising(b.kana) /\ Rising(b.letters) /\ Before(CharsOf(b.kana), CharsOf(b.letters))
      /\ CharsOf(Line(b)) = CharsOf(b.kana) \union CharsOf(b.letters)
  BY <1>2, <1>4, RisingConcat, CharsConcat DEF Line
<1>6. m \in Strings /\ Rising(m) /\ CharsOf(m) \subseteq CharsOf(b.letters)
  BY <1>5, RestIs
<1>7. end \in Strings /\ Rising(end) /\ CharsOf(end) \subseteq {n}
  BY CharsOne, StringTypes DEF Ends
<1>8. /\ m \o end \in Strings /\ Rising(m \o end)
      /\ CharsOf(m \o end) \subseteq CharsOf(b.letters) \union {n}
  <2>1. Before(CharsOf(m), CharsOf(end))
    BY <1>4, <1>5, <1>6, <1>7 DEF Before
  <2> QED BY <1>6, <1>7, <2>1, StringTypes, RisingConcat, CharsConcat
<1>9. Line(a) = b.kana \o (m \o end)
  <2>1. \A p, q, r \in Seq(KeyIds) : (p \o q) \o r = p \o (q \o r)
    BY ConcatAssociative
  <2>2. (b.kana \o x) \o a.letters = b.kana \o (x \o a.letters)
    <3> DEFINE k == b.kana
               l == a.letters
    <3>1. k \in Seq(KeyIds) /\ x \in Seq(KeyIds) /\ l \in Seq(KeyIds)
      BY <1>1, <1>2 DEF Strings
    <3> HIDE DEF k, l
    <3>2. (k \o x) \o l = k \o (x \o l)
      BY <2>1, <3>1
    <3> QED BY <3>2 DEF k, l
  <2> QED BY <1>1, <2>2 DEF Line
<1>10. Rising(Line(a)) /\ CharsOf(Line(a)) = CharsOf(b.kana) \union CharsOf(m \o end)
  <2>1. Before(CharsOf(b.kana), CharsOf(m \o end))
    BY <1>4, <1>5, <1>8 DEF Before
  <2>2. Rising(b.kana \o (m \o end)) <=>
          Rising(b.kana) /\ Rising(m \o end) /\ Before(CharsOf(b.kana), CharsOf(m \o end))
    BY <1>2, <1>8, RisingConcat
  <2>3. CharsOf(b.kana \o (m \o end)) = CharsOf(b.kana) \union CharsOf(m \o end)
    BY <1>2, <1>8, CharsConcat
  <2> QED BY <1>5, <1>8, <1>9, <2>1, <2>2, <2>3
<1>11. CharsOf(Line(u)) \subseteq CharsOf(Line(t)) \union {n}
  BY <1>3, <1>4, <1>5, <1>8, <1>10
<1>12. Kept(t) <= Len(u.kana) /\ \A i \in 1..Kept(t) : u.kana[i] = t.kana[i]
  <2>1. PICK z \in Strings : u.kana = b.kana \o z
    <3>1. CASE u.kana = a.kana
      BY <1>1, <3>1
    <3>2. CASE u.kana = a.kana \o a.letters
      <4>1. u.kana = b.kana \o (m \o end)
        BY <1>9, <3>2 DEF Line
      <4> QED BY <1>8, <4>1
    <3> QED BY <1>3, <3>1, <3>2
  <2>2. /\ Len(b.kana) \in Nat /\ Len(z) \in Nat /\ DOMAIN b.kana = 1..Len(b.kana)
        /\ \A i \in DOMAIN b.kana : u.kana[i] = b.kana[i]
    <3> DEFINE k == b.kana
    <3>1. k \in Strings /\ z \in Strings /\ u.kana = k \o z
      BY <1>2, <2>1
    <3>2. u.kana = k \o z
      BY <3>1
    <3> HIDE DEF k
    <3>3. /\ Len(k) \in Nat /\ Len(z) \in Nat /\ DOMAIN k = 1..Len(k)
          /\ \A i \in DOMAIN k : (k \o z)[i] = k[i]
      BY <3>1, ConcatIs, ZenonT(60)
    <3>4. \A i \in DOMAIN k : u.kana[i] = k[i]
      BY <3>2, <3>3, ZenonT(60)
    <3> QED BY <3>3, <3>4, ZenonT(60) DEF k
  <2>3. Len(u.kana) = Len(b.kana) + Len(z)
    BY <1>2, <2>1, ConcatProperties DEF Strings
  <2>4. CASE t.kana = <<>>
    <3>1. Kept(t) <= 0 /\ Kept(t) \in Int /\ 1..Kept(t) = {}
      BY <2>4 DEF Kept
    <3> QED BY <2>2, <2>3, <3>1
  <2>5. CASE t = b
    <3>1. Kept(t) <= Len(b.kana) /\ Kept(t) \in Int
      BY <2>2, <2>5 DEF Kept
    <3> QED BY <2>2, <2>3, <2>5, <3>1
  <2>6. CASE LoneN(b) /\ t = [kana |-> Line(b), letters |-> <<>>]
    <3>1. Len(b.letters) = 1 /\ t.kana = b.kana \o b.letters /\ t.letters = <<>>
      BY <2>6 DEF LoneN, Line
    <3>2. Len(t.kana) = Len(b.kana) + 1 /\ \A i \in DOMAIN b.kana : t.kana[i] = b.kana[i]
      <4> DEFINE k == b.kana
                 l == b.letters
      <4>1. k \in Strings /\ l \in Strings /\ Len(l) = 1 /\ t.kana = k \o l
        BY <1>2, <3>1
      <4> HIDE DEF k, l
      <4>2. Len(t.kana) = Len(k) + 1
        <5>1. \A p, q \in Seq(KeyIds) : Len(p \o q) = Len(p) + Len(q)
          BY ConcatProperties
        <5>2. Len(k \o l) = Len(k) + Len(l)
          BY <4>1, <5>1, ZenonT(60) DEF Strings
        <5> QED BY <4>1, <5>2
      <4>3. \A i \in DOMAIN k : t.kana[i] = k[i]
        BY <4>1, ConcatIs
      <4> QED BY <4>2, <4>3 DEF k
    <3>3. Kept(t) = Len(b.kana)
      BY <2>2, <3>1, <3>2 DEF Kept
    <3> QED BY <2>2, <2>3, <3>2, <3>3
  <2>7. t = BufferDisplay(b) => t = b \/ (LoneN(b) /\ t = [kana |-> Line(b), letters |-> <<>>])
    BY DEF BufferDisplay
  <2> QED BY <2>4, <2>5, <2>6, <2>7
<1>13. Respelt(t, u, n)
  BY <1>11, <1>12 DEF Respelt
<1>14. CharsOf(b.kana) \subseteq CharsOf(Line(a))
  BY <1>10
<1>15. Rising(Line(u))
  BY <1>3, <1>10
<1> QED BY <1>1, <1>3, <1>13, <1>14, <1>15 DEF a, u

-----------------------------------------------------------------------------
(* What a session may do to the text, the document and the list.           *)

Straight(s) ==
  /\ Rising(s.doc) /\ Rising(Line(s.text))
  /\ Before(CharsOf(s.doc), CharsOf(Line(s.text)))

Below(s, n) == \A y \in Present(s) : y < n

\* What the document may receive of the composition.
Takable(s) == {Line(s.text)} \union (IF s.list # <<>> THEN {s.text.kana} ELSE {})

Quiet(r) == r.list = <<>>

Same(s, r)    == /\ r.text = s.text /\ r.doc = s.doc /\ (r.list # <<>> <=> s.list # <<>>)
                 /\ r.spent = s.spent
Dropped(s, r) == r.text = NoText /\ r.doc = s.doc /\ Quiet(r) /\ r.spent = s.spent
Settled(s, r) == /\ r.text = NoText /\ Quiet(r) /\ r.spent = s.spent
                 /\ \E taken \in Takable(s) : r.doc = s.doc \o taken
Shorter(s, r) == /\ s.text # NoText
                 /\ Line(r.text) = SubSeq(Line(s.text), 1, Len(Line(s.text)) - 1)
                 /\ r.doc = s.doc /\ Quiet(r) /\ r.spent = s.spent
Offered(s, r) == /\ s.text.kana # <<>> /\ r.list # <<>> /\ r.text = s.text /\ r.doc = s.doc
                 /\ r.spent = s.spent

Grown(s, text, n, r) ==
  /\ Respelt(text, r.text, n) /\ Rising(Line(r.text)) /\ Quiet(r)
  /\ s.spent \subseteq r.spent
  /\ CharsOf(Line(text)) \union {n} \subseteq CharsOf(Line(r.text)) \union r.spent

Longer(s, r, n)    == r.doc = s.doc /\ Grown(s, s.text, n, r)
TypedOver(s, r, n) == /\ \E taken \in Takable(s) : r.doc = s.doc \o taken
                      /\ Grown(s, NoText, n, r)

Handled(s, r) == Same(s, r) \/ Dropped(s, r) \/ Settled(s, r) \/ Shorter(s, r) \/ Offered(s, r)
Spelled(s, r, n) == Same(s, r) \/ Longer(s, r, n) \/ TypedOver(s, r, n)

\* Everything is over, with this in the document.
Over(s, r, doc) == /\ r.text = NoText /\ r.doc = doc /\ Quiet(r) /\ r.spent = s.spent
                   /\ ~r.fault

-----------------------------------------------------------------------------
(* What each handler does in a calm or prompt host.                        *)

LEMMA OrderlyIs ==
  ASSUME NEW s, Orderly, Loose(s)
  PROVE  /\ s \in Service /\ Shaped(s) /\ s.engine /\ s.caret = "end" /\ Covered(s)
         /\ s.text \in Texts /\ s.buf \in Texts /\ s.doc \in Strings /\ s.list \in Strings
         /\ Line(s.text) \in Strings /\ s.text.kana \in Strings
         /\ s.text # NoText => s.comp
         /\ s.list # <<>> => s.pres /\ s.wnd
         /\ s.doc \o <<>> = s.doc /\ Line(NoText) = <<>> /\ NoText.kana = <<>>
<1>1. s \in Service /\ Shaped(s) /\ s.engine /\ s.caret = "end" /\ Covered(s)
  BY DEF Loose, Fits, Steady, Covered
<1>2. s.text \in Texts /\ s.buf \in Texts /\ s.doc \in Strings /\ s.list \in Strings
  BY <1>1, FieldTypes
<1>3. Line(s.text) \in Strings /\ s.text.kana \in Strings
  BY <1>2, TextTypes
<1>4. s.doc \o <<>> = s.doc /\ Line(NoText) = <<>> /\ NoText.kana = <<>>
  BY <1>2, EmptyEnd, TextTypes, StringTypes DEF NoText
<1> QED BY <1>1, <1>2, <1>3, <1>4 DEF Loose, Fits, OneReading

\* In step, a list is of the kana on screen.
LEMMA ListIs ==
  ASSUME NEW s, Orderly, Good(s), s.list # <<>>
  PROVE  s.list = s.text.kana /\ s.text # NoText /\ s.comp /\ s.pres /\ s.wnd
<1>1. s.list = s.text.kana /\ Loose(s)
  BY DEF Good, InStep
<1> QED BY <1>1, OrderlyIs

LEMMA TerminateSettles ==
  ASSUME NEW s, NEW e, Orderly, Loose(s), s.comp, ~s.fault, Granted(e)
  PROVE  LET r == TerminateComposition(s, e)
         IN  /\ r.text = NoText /\ r.doc = s.doc \o Line(s.text) /\ ~r.fault
             /\ r.spent = s.spent
<1> DEFINE r == TerminateComposition(s, e)
<1>1. PICK told : /\ Loose(told) /\ ~told.fault /\ r = Ended(told)
                  /\ told.doc = s.doc /\ told.text = s.text /\ told.spent = s.spent
  BY TerminateIs
<1> HIDE DEF r
<1>2. /\ r.text = NoText /\ r.doc = s.doc \o Line(s.text) /\ ~r.fault
      /\ r.spent = s.spent
  BY <1>1, EndedLoose
<1> QED BY <1>2 DEF r

LEMMA CompleteSettles ==
  ASSUME NEW s, NEW e, Orderly, Loose(s), ~s.fault, Granted(e)
  PROVE  Over(s, HandleComplete(s, e), s.doc \o Line(s.text))
<1> DEFINE d == DeleteCandidateList(s)
           r == TerminateComposition(d, e)
<1>1. s.engine /\ s \in Service
  BY OrderlyIs
<1>2. /\ Cleared(d) /\ Loose(d) /\ ~d.fault /\ d.doc = s.doc /\ d.text = s.text
      /\ d.spent = s.spent
  BY <1>1, DeleteClears, DeleteIs DEF Cleared
<1>3. HandleComplete(s, e) = r
  BY <1>2 DEF HandleComplete, Unless
<1> HIDE DEF d
<1>4. CASE r = d /\ ~d.comp
  <2>1. d.text = NoText /\ d.doc \o <<>> = d.doc /\ Line(NoText) = <<>>
    BY <1>2, <1>4, OrderlyIs
  <2>2. d.doc = s.doc \o Line(s.text)
    BY <1>2, <2>1
  <2> QED BY <1>2, <1>3, <1>4, <2>1, <2>2 DEF Over, Quiet, Cleared
<1>5. CASE \E told : /\ Loose(told) /\ ~told.fault /\ r = Ended(told)
                     /\ told.doc = d.doc /\ told.text = d.text /\ told.spent = d.spent
                     /\ told = d \/ Cleared(told)
  <2>1. PICK told : /\ Loose(told) /\ ~told.fault /\ r = Ended(told)
                    /\ told.doc = d.doc /\ told.text = d.text /\ told.spent = d.spent
                    /\ Cleared(told)
    BY <1>2, <1>5
  <2> HIDE DEF r
  <2>2. /\ r.text = NoText /\ r.doc = told.doc \o Line(told.text) /\ ~r.fault
        /\ r.spent = told.spent /\ r.list = <<>>
    BY <2>1, EndedLoose DEF Cleared
  <2> QED BY <1>2, <1>3, <2>1, <2>2 DEF Over, Quiet
<1> QED BY <1>2, <1>4, <1>5, TerminateIs

LEMMA CancelDrops ==
  ASSUME NEW s, NEW e, Orderly, Loose(s), ~s.fault, Granted(e)
  PROVE  Over(s, HandleCancel(s, e), s.doc)
<1> DEFINE d == RemoveDummyCompositionForComposing(s)
<1>1. Loose(d) /\ ~d.fault /\ d.text = NoText /\ d.doc = s.doc /\ d.spent = s.spent
  BY DummyLoose
<1>2. HandleCancel(s, e) = HandleComplete(d, e)
  BY DEF HandleCancel, Unless
<1> HIDE DEF d
<1>3. Over(d, HandleComplete(d, e), d.doc \o Line(d.text))
  BY <1>1, CompleteSettles
<1>4. d.doc \o Line(d.text) = s.doc
  BY <1>1, OrderlyIs
<1> QED BY <1>1, <1>2, <1>3, <1>4 DEF Over

LEMMA OverSettles ==
  ASSUME NEW s, NEW r, NEW taken \in Takable(s), Over(s, r, s.doc \o taken)
  PROVE  Settled(s, r) /\ ~r.fault
BY DEF Over, Settled

LEMMA OverDrops ==
  ASSUME NEW s, NEW r, Over(s, r, s.doc)
  PROVE  Dropped(s, r) /\ ~r.fault
BY DEF Over, Dropped

LEMMA FaultSame ==
  ASSUME NEW s, Good(s)
  PROVE  Same(s, Fault(s)) /\ Same(s, s) /\ Fault(s).fault
<1>1. Shaped(s)
  BY DEF Good, Loose, Fits
<1> QED BY <1>1 DEF Same, Fault, Shaped, Fields

(* Without a list to choose from, the text settles and the buffer is empty,*)
(* so that a key that is typed over it starts anew.                        *)
LEMMA FinalizeHandles ==
  ASSUME NEW s, NEW e, NEW isCandidateList \in BOOLEAN,
         Orderly, Good(s), ~s.fault, Granted(e)
  PROVE  LET r == HandleCompositionFinalize(s, isCandidateList, e)
         IN  /\ Same(s, r) \/ Dropped(s, r) \/ Settled(s, r)
             /\ ~isCandidateList \/ s.mode = "none" => Over(s, r, s.doc \o Line(s.text))
<1> DEFINE chosen == isCandidateList /\ s.pres /\ s.mode # "none"
           r      == HandleCompositionFinalize(s, isCandidateList, e)
<1>0. Loose(s) /\ Covered(s) /\ s.list \in Strings
  BY OrderlyIs DEF Good
<1>1. CASE chosen /\ ~s.wnd
  <2>1. r = Fault(s)
    BY <1>1 DEF HandleCompositionFinalize
  <2> QED BY <1>1, <2>1, FaultSame
<1>2. CASE chosen /\ s.wnd
  <2> DEFINE beside == AddCharAndFinalize(s, s.list)
             told   == NotifyCommitted(beside, CandidateText(s.list))
  <2>1. /\ Loose(beside) /\ ~beside.fault /\ beside.buf = s.buf
        /\ beside.doc = s.doc \o s.list /\ beside.spent = s.spent
    <3>1. Loose(s) /\ s.list \in Strings
      BY <1>0
    <3> HIDE DEF beside
    <3>2. /\ Loose(beside) /\ beside.fault = s.fault /\ beside.buf = s.buf
          /\ beside.doc = s.doc \o s.list /\ beside.spent = s.spent
      BY <3>1, BesideLoose DEF beside
    <3> QED BY <3>2
  <2>2. /\ CandidateText(s.list) \in Texts
        /\ CandidateText(s.list) # NoText /\ BufferReading(s.buf) # <<>> =>
             Reads(CandidateText(s.list), BufferReading(s.buf))
    BY <1>0, ChosenReads
  <2>3. r = HandleCancel(told, e)
    BY <1>2 DEF HandleCompositionFinalize
  <2> HIDE DEF beside
  <2>4. Loose(told) /\ ~told.fault /\ told.doc = s.doc \o s.list /\ told.spent = s.spent
    <3> DEFINE text == CandidateText(s.list)
    <3>1. /\ text \in Texts
          /\ text # NoText /\ BufferReading(beside.buf) # <<>> => Reads(text, BufferReading(beside.buf))
      BY <2>1, <2>2
    <3> HIDE DEF text
    <3>2. LET q == NotifyCommitted(beside, text)
          IN  Loose(q) /\ q.fault = beside.fault /\ q.doc = beside.doc /\ q.spent = beside.spent
      BY <2>1, <3>1, NotifyIs, ZenonT(60)
    <3> QED BY <2>1, <3>2 DEF text
  <2> HIDE DEF told, r
  <2>5. Over(s, r, s.doc \o s.list)
    BY <2>3, <2>4, CancelDrops DEF Over
  <2>6. CASE s.list = <<>>
    <3>1. s.doc \o s.list = s.doc
      BY <1>0, <2>6, OrderlyIs
    <3> QED BY <1>2, <2>5, <3>1, OverDrops DEF r
  <2>7. CASE s.list # <<>>
    <3>1. s.list \in Takable(s)
      BY <2>7, ListIs DEF Takable
    <3> QED BY <1>2, <2>5, <3>1, OverSettles DEF r
  <2> QED BY <2>6, <2>7
<1>3. CASE ~chosen /\ s.comp
  <2> DEFINE told  == NotifyCommitted(s, Fetched(s.text))
             ended == TerminateComposition(told, e)
  <2>1. /\ Loose(told) /\ ~told.fault /\ told.doc = s.doc /\ told.text = s.text /\ told.comp
        /\ told.spent = s.spent
    BY <1>0, <1>3, FetchedReads, NotifyIs
  <2>2. r = HandleCancel(ended, e)
    BY <1>0, <1>3 DEF HandleCompositionFinalize
  <2> HIDE DEF told
  <2>3. /\ Loose(ended) /\ ~ended.fault /\ ended.doc = s.doc \o Line(s.text)
        /\ ended.spent = s.spent
    BY <2>1, TerminateLoose, TerminateSettles
  <2> HIDE DEF ended, r
  <2>4. Over(s, r, s.doc \o Line(s.text))
    BY <2>2, <2>3, CancelDrops DEF Over
  <2> QED BY <2>4, OverSettles DEF r, Takable
<1>4. CASE ~chosen /\ ~s.comp
  <2>1. r = HandleCancel(s, e)
    BY <1>4 DEF HandleCompositionFinalize
  <2>2. s.doc \o Line(s.text) = s.doc
    BY <1>0, <1>4, OrderlyIs
  <2> HIDE DEF r
  <2>3. Over(s, r, s.doc \o Line(s.text))
    BY <1>0, <2>1, <2>2, CancelDrops
  <2> QED BY <2>3, OverSettles DEF r, Takable
<1> QED BY <1>1, <1>2, <1>3, <1>4

LEMMA WorkerShows ==
  ASSUME NEW s, Typing(s)
  PROVE  LET r == HandleCompositionInputWorker(s)
         IN  /\ r.text = (IF s.buf = NoText THEN s.text ELSE BufferDisplay(s.buf))
             /\ r.doc = s.doc /\ Quiet(r) /\ r.spent = s.spent
<1> DEFINE display == BufferDisplay(s.buf)
           put     == [s EXCEPT !.text = display, !.caret = "end"]
           shown   == IF s.buf = NoText THEN s ELSE put
<1>0. s.buf \in Texts /\ Shaped(s) /\ ~s.fault
  BY FieldTypes DEF Typing
<1>1. AddComposingAndChar(s, display) = put
  BY DEF Typing, AddComposingAndChar, SetInputString, FindComposingRange
<1>2. GetReadingStrings(s) = {} <=> s.buf = NoText
  BY <1>0, TextTypes DEF GetReadingStrings
<1>3. ~shown.fault => HandleCompositionInputWorker(s) =
        IF ~s.pres THEN shown ELSE IF ~s.wnd THEN Fault(shown) ELSE [shown EXCEPT !.list = <<>>]
  <2>1. put.pres = s.pres /\ put.wnd = s.wnd
    BY <1>0 DEF Shaped, Fields
  <2> HIDE DEF put, display
  <2> QED BY <1>1, <1>2, <2>1 DEF HandleCompositionInputWorker, Unless, display
<1> HIDE DEF display
<1>6. /\ put.text = display /\ put.doc = s.doc /\ put.spent = s.spent /\ put.list = s.list
      /\ put.fault = s.fault /\ Shaped(put)
  BY <1>0 DEF Shaped, Fields
<1> HIDE DEF put
<1>7. /\ shown.text = (IF s.buf = NoText THEN s.text ELSE display)
      /\ shown.doc = s.doc /\ shown.spent = s.spent /\ shown.list = s.list
      /\ ~shown.fault /\ Shaped(shown)
  BY <1>0, <1>6
<1> HIDE DEF shown
<1> DEFINE r == HandleCompositionInputWorker(s)
<1>8. r.text = shown.text /\ r.doc = shown.doc /\ r.spent = shown.spent /\ r.list = <<>>
  <2>2. CASE ~s.pres
    BY <1>3, <1>7, <2>2 DEF Typing
  <2>3. CASE s.pres /\ ~s.wnd
    <3>1. r = Fault(shown) /\ s.list = <<>>
      BY <1>3, <1>7, <2>3 DEF Typing
    <3> QED BY <1>7, <3>1 DEF Fault, Shaped, Fields
  <2>4. CASE s.pres /\ s.wnd
    <3>1. r = [shown EXCEPT !.list = <<>>]
      BY <1>3, <1>7, <2>4
    <3> QED BY <1>7, <3>1 DEF Shaped, Fields
  <2> QED BY <2>2, <2>3, <2>4
<1> QED BY <1>7, <1>8 DEF Quiet, display

\* A key goes into the buffer, and the text is spelled anew.
LEMMA KeyShows ==
  ASSUME NEW s, NEW n \in KeyIds, NEW e, Orderly, Good(s), ~s.fault, s.comp, Granted(e),
         Rising(Line(s.text)), \A y \in CharsOf(Line(s.text)) : y < n
  PROVE  LET r == HandleCompositionInputWorker(AddVirtualKey(s, n, e))
         IN  r.doc = s.doc /\ Grown(s, s.text, n, r)
<1> DEFINE a == AddVirtualKey(s, n, e)
           r == HandleCompositionInputWorker(a)
<1>0. /\ Loose(s) /\ s.engine /\ Covered(s) /\ s.buf \in Texts /\ s.text \in Texts
      /\ e.effect \in Effects /\ s.text.kana \in Strings
      /\ s.text = BufferDisplay(s.buf) \/ (s.buf = NoText /\ Stray(s))
  BY OrderlyIs DEF Good, InStep, Granted
<1>1. Typing(a)
  BY <1>0, SpelledTyping
<1>2. /\ a.buf = BufferAfterKeystroke(s.buf, n, e.effect)
      /\ a.spent = s.spent \union ((CharsOf(s.buf.letters) \union {n}) \ CharsOf(Line(a.buf)))
      /\ \A f \in Fields \ {"buf", "spent"} : a[f] = s[f]
  <2>1. Loose(s) /\ e.effect \in Effects
    BY <1>0
  <2> QED BY <2>1, SpelledIs DEF a
<1> HIDE DEF a
<1>3. a.text = s.text /\ a.doc = s.doc
  BY <1>2 DEF Fields
<1>4. /\ r.text = (IF a.buf = NoText THEN s.text ELSE BufferDisplay(a.buf))
      /\ r.doc = s.doc /\ Quiet(r) /\ r.spent = a.spent
  BY <1>1, <1>3, WorkerShows
<1> HIDE DEF r
<1>5. CASE a.buf = NoText
  <2>1. CharsOf(Line(a.buf)) = {}
    BY <1>0, <1>5, OrderlyIs, CharsOne
  <2>2. r.text = s.text /\ n \in r.spent
    BY <1>2, <1>4, <1>5, <2>1
  <2>3. Grown(s, s.text, n, r)
    BY <1>0, <1>2, <1>4, <2>2, RespeltAsIs DEF Grown
  <2> QED BY <1>4, <2>3 DEF r, a
<1>6. CASE a.buf # NoText
  <2>1. s.text = BufferDisplay(s.buf) \/ (s.buf = NoText /\ s.text.kana = <<>>)
    BY <1>0 DEF Stray
  <2>2. /\ Respelt(s.text, BufferDisplay(a.buf), n) /\ Rising(Line(BufferDisplay(a.buf)))
        /\ Line(BufferDisplay(a.buf)) = Line(a.buf)
        /\ CharsOf(s.buf.kana) \subseteq CharsOf(Line(a.buf))
    BY <1>0, <1>2, <2>1, Respells
  <2>3. CharsOf(Line(s.text)) \subseteq CharsOf(Line(a.buf)) \union a.spent
    <3>1. CASE s.text = BufferDisplay(s.buf)
      <4>1. Line(s.text) = Line(s.buf)
        BY <1>0, <3>1, BufferIs
      <4>2. CharsOf(Line(s.buf)) = CharsOf(s.buf.kana) \union CharsOf(s.buf.letters)
        BY <1>0, TextTypes, CharsConcat DEF Line
      <4> QED BY <1>2, <2>2, <4>1, <4>2
    <3>2. CASE Stray(s)
      <4>1. CharsOf(Line(s.text)) = CharsOf(s.text.kana) \union CharsOf(s.text.letters)
        BY <1>0, TextTypes, CharsConcat DEF Line
      <4> QED BY <1>2, <3>2, <4>1, CharsOne DEF Stray
    <3> QED BY <1>0, <3>1, <3>2
  <2>4. r.text = BufferDisplay(a.buf)
    BY <1>4, <1>6
  <2>5. Grown(s, s.text, n, r)
    BY <1>2, <1>4, <2>2, <2>3, <2>4 DEF Grown
  <2> QED BY <1>4, <2>5 DEF r, a
<1> QED BY <1>5, <1>6

(* A key that spells goes on, or starts anew after what it settled.        *)
LEMMA InputSpells ==
  ASSUME NEW s, NEW n \in KeyIds, NEW e, Orderly, Good(s), ~s.fault, Granted(e),
         Straight(s), Below(s, n)
  PROVE  LET r == HandleCompositionInput(s, n, e)
         IN  Longer(s, r, n) \/ TypedOver(s, r, n)
<1> DEFINE over    == s.pres /\ s.mode # "none"
           settled == IF over THEN HandleCompositionFinalize(s, FALSE, e) ELSE s
           started == IF settled.comp THEN settled ELSE StartComposition(settled, e)
           r       == HandleCompositionInputWorker(AddVirtualKey(started, n, e))
<1>0. Loose(s)
  BY DEF Good
<1>1. /\ Good(settled) /\ ~settled.fault /\ settled.spent = s.spent
      /\ over => settled.text = NoText /\ settled.doc = s.doc \o Line(s.text)
      /\ ~over => settled = s
  BY FinalizeGood, FinalizeHandles DEF Over
<1> HIDE DEF settled, over
<1>2. /\ Good(started) /\ ~started.fault /\ started.comp
      /\ started.text = settled.text /\ started.doc = settled.doc /\ started.spent = settled.spent
  <2>1. settled.engine /\ e.start /\ Shaped(settled)
    BY <1>1, OrderlyIs DEF Good, Granted
  <2>2. LET q == StartComposition(settled, e)
        IN  /\ q.comp /\ q.text = settled.text /\ q.doc = settled.doc /\ q.fault = settled.fault
            /\ q.spent = settled.spent
    BY <2>1 DEF StartComposition, Shaped, Fields
  <2> QED BY <1>1, <2>2, StartGood
<1> HIDE DEF started
<1>3. Rising(Line(started.text)) /\ \A y \in CharsOf(Line(started.text)) : y < n
  BY <1>0, <1>1, <1>2, OrderlyIs, CharsOne DEF Straight, Below, Present
<1>4. r.doc = started.doc /\ Grown(started, started.text, n, r)
  BY <1>2, <1>3, KeyShows
<1>5. HandleCompositionInput(s, n, e) = r
  <2>1. started.engine /\ Covered(started)
    BY <1>2, OrderlyIs DEF Good
  <2> QED BY <1>1, <1>2, <2>1 DEF HandleCompositionInput, Unless, settled, started, over
<1> HIDE DEF r
<1>6. CASE over
  <2>1. Line(s.text) \in Takable(s)
    BY DEF Takable
  <2> QED BY <1>1, <1>2, <1>4, <1>5, <1>6, <2>1 DEF TypedOver, Grown
<1>7. CASE ~over
  BY <1>1, <1>2, <1>4, <1>5, <1>7 DEF Longer, Grown
<1> QED BY <1>6, <1>7

LEMMA ConvertHandles ==
  ASSUME NEW s, NEW e, Orderly, Good(s), Granted(e)
  PROVE  LET r == HandleCompositionConvert(s, e)
         IN  Same(s, r) \/ Offered(s, r)
<1> DEFINE found == GetCandidateList(s, e)
           asked == [EndCandidateList(s) EXCEPT !.pres = TRUE, !.mode = "original"]
           offered == [asked EXCEPT !.wnd = TRUE, !.list = found]
           r == HandleCompositionConvert(s, e)
<1>0. Loose(s) /\ s.engine /\ Shaped(s) /\ s.buf \in Texts
  BY OrderlyIs DEF Good
<1>1. CASE found = <<>>
  <2>1. r = s
    BY <1>0, <1>1 DEF HandleCompositionConvert
  <2> QED BY <2>1, FaultSame
<1>2. CASE found # <<>>
  <2>1. found = BufferReading(s.buf) /\ found # <<>>
    BY <1>2 DEF GetCandidateList
  <2>2. s.buf # NoText /\ BufferDisplay(s.buf).kana = found
    BY <1>0, <2>1, BufferIs, EmptyBuffer
  <2>3. s.text = BufferDisplay(s.buf) /\ e.window
    BY <2>2 DEF Good, InStep, Granted
  <2>4. s.text.kana # <<>> /\ s.comp
    BY <1>0, <2>1, <2>2, <2>3, OrderlyIs
  <2>5. r = offered
    BY <1>0, <1>2, <2>3, <2>4 DEF HandleCompositionConvert
  <2> HIDE DEF found, r
  <2>6. offered.list = found /\ offered.text = s.text /\ offered.doc = s.doc /\ offered.spent = s.spent
    BY <1>0 DEF EndCandidateList, Shaped, Fields
  <2> HIDE DEF offered
  <2>7. Offered(s, r)
    BY <1>2, <2>4, <2>5, <2>6 DEF Offered
  <2> QED BY <2>7 DEF r
<1> QED BY <1>1, <1>2

LEMMA BackspaceHandles ==
  ASSUME NEW s, NEW e, Orderly, Good(s), ~s.fault, Granted(e)
  PROVE  Handled(s, HandleCompositionBackspace(s, e))
<1> DEFINE left == RemoveVirtualKey(s)
           r    == HandleCompositionBackspace(s, e)
<1>0. /\ Loose(s) /\ s.engine /\ Covered(s) /\ s.buf \in Texts /\ s \in Service /\ Shaped(s)
      /\ OneReading(s) /\ Steady(s)
  BY OrderlyIs DEF Good, Loose, Fits
<1>1. CASE ~s.comp \/ s.buf = NoText
  <2>1. s.buf = NoText => Len(Line(s.buf)) = 0
    BY <1>0, OrderlyIs
  <2> HIDE DEF left
  <2>2. r = s
    <3>1. CASE ~s.comp
      BY <3>1 DEF HandleCompositionBackspace
    <3>2. CASE s.comp /\ Len(Line(s.buf)) = 0
      BY <1>0, <3>2 DEF HandleCompositionBackspace
    <3> QED BY <1>1, <2>1, <3>1, <3>2
  <2> QED BY <2>2, FaultSame DEF Handled
<1>2. CASE s.comp /\ s.buf # NoText
  <2>1. /\ left \in Service /\ left.buf \in Texts /\ left = [s EXCEPT !.buf = left.buf]
        /\ Line(left.buf) = SubSeq(Line(s.buf), 1, Len(Line(s.buf)) - 1)
    BY <1>0, <1>2, BackTypes
  <2>2. Line(s.buf) \in Strings /\ Line(s.buf) # <<>> /\ Len(Line(s.buf)) \in Nat \ {0}
    BY <1>0, <1>2, TextTypes, StringTypes
  <2>3. r = IF Len(Line(s.buf)) = 1 THEN HandleCancel(left, e) ELSE HandleCompositionInputWorker(left)
    BY <1>0, <1>2, <2>2 DEF HandleCompositionBackspace
  <2> HIDE DEF left, r
  <2>4. /\ left.comp /\ left.caret = "end" /\ left.engine /\ ~left.fault /\ left.list = s.list
        /\ left.pres = s.pres /\ left.wnd = s.wnd /\ left.learned = s.learned
        /\ left.text = s.text /\ left.mode = s.mode /\ left.spent = s.spent /\ left.doc = s.doc
    BY <1>0, <1>2, <2>1 DEF Covered, Shaped, Fields
  <2>5. Len(Line(left.buf)) = Len(Line(s.buf)) - 1
    BY <2>1, <2>2, FrontLength, ZenonT(60)
  <2>6. Len(Line(s.buf)) = 1 <=> left.buf = NoText
    <3>1. Line(left.buf) \in Strings /\ (Line(left.buf) = <<>> <=> left.buf = NoText)
      BY <2>1, TextTypes
    <3>2. Len(Line(left.buf)) = 0 <=> left.buf = NoText
      BY <3>1, StringTypes
    <3> HIDE DEF Line
    <3> QED BY <2>2, <2>5, <3>2
  <2>7. CASE left.buf = NoText
    <3>1. OneReading(left) /\ Steady(left)
      BY <1>0, <2>4, <2>7, EmptyBuffer DEF OneReading, Steady
    <3>2. Loose(left)
      BY <2>1, <3>1, ServiceShaped DEF Loose, Fits
    <3>3. Over(left, r, left.doc)
      BY <2>3, <2>4, <2>6, <2>7, <3>2, CancelDrops
    <3>4. Dropped(s, r)
      BY <2>4, <3>3 DEF Over, Dropped
    <3> QED BY <3>4 DEF Handled, r
  <2>8. CASE left.buf # NoText
    <3>1. Steady(left)
      BY <1>0, <2>4 DEF Steady
    <3>2. Typing(left)
      BY <1>0, <2>1, <2>4, <2>8, <3>1, ServiceShaped DEF Typing, OneReading
    <3>3. r = HandleCompositionInputWorker(left)
      BY <2>3, <2>6, <2>8
    <3>4. /\ r.text = BufferDisplay(left.buf) /\ r.doc = s.doc /\ Quiet(r) /\ r.spent = s.spent
      BY <2>4, <2>8, <3>2, <3>3, WorkerShows
    <3>5. Line(r.text) = Line(left.buf)
      BY <2>1, <3>4, BufferIs
    <3>6. s.text = BufferDisplay(s.buf)
      BY <1>2 DEF Good, InStep
    <3>7. Line(s.text) = Line(s.buf) /\ s.text # NoText
      BY <1>0, <1>2, <3>6, BufferIs
    <3>8. Shorter(s, r)
      BY <2>1, <3>4, <3>5, <3>7 DEF Shorter
    <3> QED BY <3>8 DEF Handled, r
  <2> QED BY <2>7, <2>8
<1> QED BY <1>1, <1>2

\* The chosen candidate replaces the text.
LEMMA ChosenWritten ==
  ASSUME NEW s, Orderly, Good(s), ~s.fault, s.list # <<>>
  PROVE  LET placed == AddComposingAndChar(s, CandidateText(s.list))
         IN  /\ Loose(placed) /\ ~placed.fault /\ placed.buf = s.buf /\ placed.doc = s.doc
             /\ placed.text = CandidateText(s.list) /\ placed.spent = s.spent
             /\ Line(CandidateText(s.list)) = s.text.kana
<1>1. Loose(s) /\ s.list = s.text.kana /\ s.comp
  BY ListIs DEF Good
<1>2. s.engine /\ s.caret = "end" /\ s.list \in Strings
  BY <1>1, OrderlyIs
<1>3. Line(CandidateText(s.list)) = s.list
  BY <1>2, EmptyEnd DEF Line, CandidateText
<1>4. LET placed == AddComposingAndChar(s, CandidateText(s.list))
      IN  /\ Loose(placed) /\ placed.buf = s.buf /\ placed.spent = s.spent
          /\ s.comp /\ s.engine => placed.fault = s.fault
          /\ s.comp /\ s.caret = "end" => /\ placed.text = CandidateText(s.list)
                                          /\ placed.doc = s.doc
  BY <1>1, ChosenLoose, ZenonT(60)
<1> QED BY <1>1, <1>2, <1>3, <1>4

LEMMA PlainHandles ==
  ASSUME NEW s, NEW e, Orderly, Loose(s), ~s.fault, Granted(e)
  PROVE  Over(s, HandleCancel(AddCharAndFinalize(s, <<>>), e), s.doc)
<1> DEFINE beside == AddCharAndFinalize(s, <<>>)
<1>1. s.doc \o <<>> = s.doc /\ <<>> \in Strings
  BY OrderlyIs, StringTypes
<1>2. Loose(beside) /\ beside.fault = s.fault /\ beside.doc = s.doc \o <<>> /\ beside.spent = s.spent
  BY <1>1, BesideLoose, ZenonT(60)
<1> HIDE DEF beside
<1>3. Over(beside, HandleCancel(beside, e), beside.doc)
  BY <1>2, CancelDrops
<1> QED BY <1>1, <1>2, <1>3 DEF Over, beside

LEMMA PunctuationHandles ==
  ASSUME NEW s, NEW e, Orderly, Good(s), ~s.fault, Granted(e)
  PROVE  LET r == HandleCompositionPunctuation(s, e)
         IN  Same(s, r) \/ Dropped(s, r)
<1> DEFINE chosen == s.mode # "none" /\ s.pres
           placed == IF chosen /\ s.list # <<>> THEN AddComposingAndChar(s, CandidateText(s.list))
                                                ELSE s
           r      == HandleCancel(AddCharAndFinalize(placed, <<>>), e)
<1>1. Loose(placed) /\ ~placed.fault /\ placed.doc = s.doc /\ placed.spent = s.spent
  BY ChosenWritten DEF Good
<1>4. \/ HandleCompositionPunctuation(s, e) = Fault(s)
      \/ HandleCompositionPunctuation(s, e) = Unless(placed, r)
  BY DEF HandleCompositionPunctuation
<1> HIDE DEF placed
<1>2. Over(placed, r, placed.doc)
  BY <1>1, PlainHandles
<1> HIDE DEF r
<1>3. Dropped(s, r)
  BY <1>1, <1>2 DEF Dropped, Over
<1> QED BY <1>1, <1>3, <1>4, FaultSame DEF Unless

LEMMA CandidateFinalizeHandles ==
  ASSUME NEW s, NEW e, Orderly, Good(s), ~s.fault, Granted(e)
  PROVE  LET r == HandleCandidateFinalize(s, e)
         IN  (r = Fault(s) /\ s.pres /\ ~s.wnd) \/ \E taken \in Takable(s) : Over(s, r, s.doc \o taken)
<1>0. Loose(s)
  BY DEF Good
<1>1. CASE s.list # <<>>
  <2> DEFINE chosen == CandidateText(s.list)
             placed == AddComposingAndChar(s, chosen)
             told   == NotifyCommitted(placed, chosen)
             r      == HandleComplete(told, e)
  <2>1. /\ Loose(placed) /\ ~placed.fault /\ placed.buf = s.buf /\ placed.doc = s.doc
        /\ placed.text = chosen /\ placed.spent = s.spent /\ Line(chosen) = s.text.kana
    BY <1>1, ChosenWritten
  <2>2. chosen \in Texts /\ (chosen # NoText /\ BufferReading(s.buf) # <<>> =>
                               Reads(chosen, BufferReading(s.buf)))
    BY <1>0, ChosenReads
  <2>3. HandleCandidateFinalize(s, e) = Unless(placed, r)
    BY <1>1, ListIs DEF HandleCandidateFinalize
  <2> HIDE DEF placed, chosen
  <2>4. Loose(told) /\ told.fault = placed.fault /\ told.text = placed.text
        /\ told.doc = placed.doc /\ told.spent = placed.spent
    BY <2>1, <2>2, NotifyIs, ZenonT(60)
  <2> HIDE DEF told
  <2>5. Over(told, r, told.doc \o Line(told.text))
    BY <2>1, <2>4, CompleteSettles
  <2> HIDE DEF r
  <2>6. Over(s, r, s.doc \o s.text.kana) /\ s.text.kana \in Takable(s)
    BY <1>1, <2>1, <2>4, <2>5 DEF Over, Takable
  <2> QED BY <2>1, <2>3, <2>6 DEF Unless
<1>2. CASE s.list = <<>>
  <2>1. Over(s, HandleComplete(s, e), s.doc \o Line(s.text)) /\ Line(s.text) \in Takable(s)
    BY <1>0, CompleteSettles DEF Takable
  <2> QED BY <1>2, <2>1 DEF HandleCandidateFinalize
<1> QED BY <1>1, <1>2

\* What the document may receive.
LEMMA TakableIs ==
  ASSUME NEW s \in Service, Straight(s), NEW taken \in Takable(s)
  PROVE  /\ taken \in Strings /\ s.doc \o taken \in Strings /\ Rising(s.doc \o taken)
         /\ CharsOf(taken) \subseteq CharsOf(Line(s.text))
         /\ CharsOf(s.doc \o taken) = CharsOf(s.doc) \union CharsOf(taken)
<1>1. s.text \in Texts /\ s.doc \in Strings
  BY FieldTypes
<1>2. s.text.kana \in Strings /\ s.text.letters \in Strings /\ Line(s.text) \in Strings
  BY <1>1, TextTypes
<1>3. /\ CharsOf(Line(s.text)) = CharsOf(s.text.kana) \union CharsOf(s.text.letters)
      /\ Rising(s.text.kana)
  BY <1>2, CharsConcat, RisingConcat DEF Line, Straight
<1>4. taken \in Strings /\ Rising(taken) /\ CharsOf(taken) \subseteq CharsOf(Line(s.text))
  BY <1>2, <1>3 DEF Takable, Straight
<1>5. Before(CharsOf(s.doc), CharsOf(taken))
  BY <1>4 DEF Straight, Before
<1>6. Rising(s.doc \o taken)
  BY <1>1, <1>4, <1>5, RisingConcat DEF Straight
<1> QED BY <1>1, <1>4, <1>6, CharsConcat, StringTypes

(* A key that is typed over the candidates.                                *)
LEMMA OverCandidatesSpells ==
  ASSUME NEW s, NEW n \in KeyIds, NEW e, Orderly, Good(s), ~s.fault, Granted(e),
         Straight(s), Below(s, n)
  PROVE  LET chosen == HandleCandidateFinalize(s, e)
             r      == Unless(chosen, HandleCompositionInput(chosen, n, e))
         IN  (Same(s, r) /\ s.pres /\ ~s.wnd) \/ TypedOver(s, r, n)
<1> DEFINE chosen == HandleCandidateFinalize(s, e)
           r      == HandleCompositionInput(chosen, n, e)
<1>1. CASE chosen = Fault(s) /\ s.pres /\ ~s.wnd
  <2>1. chosen.fault /\ Same(s, chosen)
    BY <1>1, FaultSame
  <2> QED BY <1>1, <2>1 DEF Unless
<1>2. CASE \E taken \in Takable(s) : Over(s, chosen, s.doc \o taken)
  <2>0. PICK taken \in Takable(s) : Over(s, chosen, s.doc \o taken)
    BY <1>2
  <2>1. Good(chosen) /\ s \in Service
    BY CandidateFinalizeGood, OrderlyIs DEF Good
  <2>2. ~chosen.fault /\ chosen.text = NoText /\ chosen.doc = s.doc \o taken
        /\ chosen.list = <<>> /\ chosen.spent = s.spent
    BY <2>0 DEF Over, Quiet
  <2> HIDE DEF chosen
  <2>3. /\ s.doc \o taken \in Strings /\ Rising(s.doc \o taken)
        /\ CharsOf(taken) \subseteq CharsOf(Line(s.text))
        /\ CharsOf(s.doc \o taken) = CharsOf(s.doc) \union CharsOf(taken)
    BY <2>1, TakableIs
  <2>4. Line(NoText) = <<>> /\ CharsOf(<<>>) = {} /\ Rising(<<>>)
    BY CharsOne, TextTypes, StringTypes
  <2>5. Straight(chosen) /\ Below(chosen, n)
    BY <2>2, <2>3, <2>4 DEF Straight, Below, Present, Before
  <2>6. Longer(chosen, r, n) \/ TypedOver(chosen, r, n)
    BY <2>1, <2>2, <2>5, InputSpells
  <2>7. (s.doc \o taken) \o <<>> = s.doc \o taken /\ Takable(chosen) = {<<>>}
    BY <2>2, <2>3, <2>4, EmptyEnd DEF Takable
  <2> HIDE DEF r
  <2>8. r.doc = s.doc \o taken
    BY <2>2, <2>6, <2>7 DEF Longer, TypedOver
  <2>9. Grown(chosen, NoText, n, r)
    BY <2>2, <2>6 DEF Longer, TypedOver
  <2>10. Grown(s, NoText, n, r)
    BY <2>2, <2>9 DEF Grown
  <2> QED BY <2>2, <2>8, <2>10 DEF Unless, TypedOver, r, chosen
<1> QED BY <1>1, <1>2, CandidateFinalizeHandles

LEMMA SelectHandles ==
  ASSUME NEW s, NEW e, Orderly, Good(s), ~s.fault, Granted(e)
  PROVE  LET r == HandleCandidateSelectByNumber(s, e)
         IN  Same(s, r) \/ Settled(s, r)
<1> DEFINE done == HandleCandidateFinalize(s, e)
<1>1. Same(s, done) \/ Settled(s, done)
  BY CandidateFinalizeHandles, FaultSame, OverSettles
<1>2. LET r == HandleCandidateWorker(s, e)
      IN  Same(s, r) \/ Settled(s, r)
  BY <1>1, FaultSame DEF HandleCandidateWorker
<1> QED BY <1>2, FaultSame DEF HandleCandidateSelectByNumber

(* Every session, by whether the key it was asked for spells.              *)
LEMMA SessionRefines ==
  ASSUME NEW s, NEW session, NEW e, Orderly, Good(s), ~s.fault, Granted(e), Straight(s),
         session.class # "endComposition",
         Spells(session) => session.id \in KeyIds /\ Below(s, session.id)
  PROVE  /\ ~Spells(session) => Handled(s, DoEditSession(s, session, e))
         /\ Spells(session) => Spelled(s, DoEditSession(s, session, e), session.id)
<1>0. Loose(s)
  BY DEF Good
<1>1. Handled(s, HandleCompositionFinalize(s, FALSE, e))
  BY FinalizeHandles DEF Handled
<1>2. Handled(s, HandleCompositionFinalize(s, TRUE, e))
  BY FinalizeHandles DEF Handled
<1>3. Handled(s, HandleCancel(s, e)) /\ Handled(s, HandleCompositionDoubleSingleByte(s, e))
  <2>1. Dropped(s, HandleCancel(s, e))
    BY <1>0, CancelDrops, OverDrops
  <2>2. Dropped(s, HandleCompositionDoubleSingleByte(s, e))
    BY <1>0, PlainHandles, OverDrops DEF HandleCompositionDoubleSingleByte
  <2> QED BY <2>1, <2>2 DEF Handled
<1>4. Same(s, HandleCompositionArrowKey(s)) /\ Same(s, HandleCandidateArrowKey(s))
  BY FaultSame DEF HandleCompositionArrowKey, HandleCandidateArrowKey
<1>5. Handled(s, HandleCandidateFinalize(s, e))
  BY CandidateFinalizeHandles, FaultSame, OverSettles DEF Handled
<1>8. Same(s, s)
  BY FaultSame
<1>9. Handled(s, HandleCompositionConvert(s, e)) /\ Handled(s, HandleCompositionPunctuation(s, e))
      /\ Handled(s, HandleCandidateSelectByNumber(s, e))
  BY ConvertHandles, PunctuationHandles, SelectHandles DEF Handled
<1>10. CASE Spells(session)
  <2> DEFINE chosen == HandleCandidateFinalize(s, e)
  <2>0. Below(s, session.id) /\ session.id \in KeyIds
    BY <1>10
  <2>3. Spelled(s, HandleCompositionInput(s, session.id, e), session.id)
    BY <2>0, InputSpells DEF Spelled
  <2>4. Spelled(s, Unless(chosen, HandleCompositionInput(chosen, session.id, e)), session.id)
    BY <2>0, OverCandidatesSpells DEF Spelled
  <2> HIDE DEF chosen
  <2>1. CASE session.fn = "input"
    BY <1>4, <2>3, <1>8, <1>10, <2>1 DEF DoEditSession, Spelled
  <2>2. CASE session.fn = "finalizeCandidateListAndInput"
    BY <1>4, <2>4, <1>8, <1>10, <2>2 DEF DoEditSession, Spelled, chosen
  <2> QED BY <1>10, <2>1, <2>2 DEF Spells
<1>11. CASE ~Spells(session)
  <2>1. \A r : Same(s, r) => Handled(s, r)
    BY DEF Handled
  <2>2. Handled(s, HandleCompositionBackspace(s, e))
    BY BackspaceHandles
  <2> QED BY <1>1, <1>2, <1>3, <1>4, <1>5, <1>8, <1>9, <1>11, <2>1, <2>2
          DEF Spells, DoEditSession
<1> QED BY <1>10, <1>11

-----------------------------------------------------------------------------
(* The order of keys: written, waiting, still to be typed.                 *)

InOrder ==
  \A i, j \in DOMAIN queue :
    i < j /\ Spells(queue[i]) /\ Spells(queue[j]) => queue[i].id < queue[j].id

Ahead ==
  \A i \in DOMAIN queue :
    Spells(queue[i]) => queue[i].id <= typed /\ Below(ts, queue[i].id)

Ordered == Straight(ts) /\ Below(ts, typed + 1) /\ InOrder /\ Ahead

RInv == IInv /\ (Orderly => Ordered)

LEMMA RInit == Init => RInv
<1> SUFFICES ASSUME Init PROVE RInv
  OBVIOUS
<1>1. ts.doc = <<>> /\ ts.text = NoText /\ queue = <<>>
  BY DEF Init
<1>2. Line(NoText) = <<>> /\ CharsOf(<<>>) = {} /\ Rising(<<>>) /\ DOMAIN <<>> = {}
  BY CharsOne, TextTypes, StringTypes
<1>3. Ordered
  BY <1>1, <1>2 DEF Ordered, Straight, Below, Present, Before, InOrder, Ahead
<1> QED BY <1>3, InitGood DEF RInv

(* What a session that does not spell makes of the characters.             *)
LEMMA HandledOrder ==
  ASSUME NEW s \in Service, NEW r, Straight(s), Handled(s, r)
  PROVE  Straight(r) /\ Present(r) \subseteq Present(s)
<1>0. Line(NoText) = <<>> /\ CharsOf(<<>>) = {} /\ Rising(<<>>)
  BY CharsOne, TextTypes, StringTypes
<1>1. CASE r.text = s.text /\ r.doc = s.doc
  BY <1>1 DEF Straight, Present
<1>2. CASE Dropped(s, r)
  BY <1>0, <1>2 DEF Dropped, Straight, Present, Before
<1>3. CASE Settled(s, r)
  <2>1. PICK taken \in Takable(s) : r.doc = s.doc \o taken
    BY <1>3 DEF Settled
  <2>2. /\ Rising(s.doc \o taken) /\ CharsOf(taken) \subseteq CharsOf(Line(s.text))
        /\ CharsOf(s.doc \o taken) = CharsOf(s.doc) \union CharsOf(taken)
    BY TakableIs
  <2> QED BY <1>0, <1>3, <2>1, <2>2 DEF Settled, Straight, Present, Before
<1>4. CASE Shorter(s, r)
  <2>1. Line(s.text) \in Strings /\ Line(s.text) # <<>>
    BY <1>4, FieldTypes, TextTypes DEF Shorter
  <2>2. Rising(Line(r.text)) /\ CharsOf(Line(r.text)) \subseteq CharsOf(Line(s.text))
    BY <1>4, <2>1, FrontRising DEF Shorter, Straight
  <2> QED BY <1>4, <2>2 DEF Shorter, Straight, Present, Before
<1> QED BY <1>1, <1>2, <1>3, <1>4 DEF Handled, Same, Offered

(* What one that spells makes of them.                                     *)
LEMMA SpelledOrder ==
  ASSUME NEW s \in Service, NEW r, NEW n \in KeyIds, Straight(s), Below(s, n), Spelled(s, r, n)
  PROVE  Straight(r) /\ Present(r) \subseteq Present(s) \union {n}
<1>0. Line(NoText) = <<>> /\ CharsOf(<<>>) = {}
  BY CharsOne, TextTypes, StringTypes
<1>1. CASE Same(s, r)
  BY <1>1 DEF Same, Straight, Present
<1>2. CASE Longer(s, r, n)
  <2>1. CharsOf(Line(r.text)) \subseteq CharsOf(Line(s.text)) \union {n} /\ Rising(Line(r.text))
    BY <1>2 DEF Longer, Grown, Respelt
  <2> QED BY <1>2, <2>1 DEF Longer, Straight, Present, Before, Below
<1>3. CASE TypedOver(s, r, n)
  <2>1. PICK taken \in Takable(s) : r.doc = s.doc \o taken
    BY <1>3 DEF TypedOver
  <2>2. /\ Rising(s.doc \o taken) /\ CharsOf(taken) \subseteq CharsOf(Line(s.text))
        /\ CharsOf(s.doc \o taken) = CharsOf(s.doc) \union CharsOf(taken)
    BY TakableIs
  <2>3. CharsOf(Line(r.text)) \subseteq {n} /\ Rising(Line(r.text))
    BY <1>0, <1>3 DEF TypedOver, Grown, Respelt
  <2> QED BY <2>1, <2>2, <2>3 DEF Straight, Present, Before, Below
<1> QED BY <1>1, <1>2, <1>3 DEF Spelled

LEMMA LaterStill ==
  ASSUME NEW m \in Int, NEW n \in Int, m <= n
  PROVE  \A x \in KeyIds : (x <= m => x <= n) /\ (x < m + 1 => x < n + 1)
<1>1. KeyIds \subseteq Int
  BY TextServiceAssumption DEF KeyIds
<1> QED BY <1>1

LEMMA PresentTypes ==
  ASSUME NEW s \in Service
  PROVE  Present(s) \subseteq KeyIds
<1>1. s.doc \in Strings /\ Line(s.text) \in Strings
  BY FieldTypes, TextTypes
<1> QED BY <1>1, StringTypes DEF Present

(* A key is understood.                                                    *)
LEMMA KeyOrders ==
  ASSUME RInv, Orderly, NEW k \in host.keys, KeyDown(k), host' = host
  PROVE  Ordered'
<1> DEFINE asked == Pressed(k)
<1>0. /\ Ordered /\ TInv /\ typed \in Nat /\ queue \in Seq(Sessions) /\ ts \in Service
      /\ SpelledIds
  <2>1. Ordered /\ TInv
    BY DEF RInv, IInv
  <2> QED BY <2>1, TypeIs, HostIs DEF TInv
<1>1. /\ ts' = ts /\ asked \in Sessions /\ asked.id = typed' /\ typed' \in 0..host.spelled
      /\ \/ UNCHANGED <<queue, typed>>
         \/ /\ Request(asked)
            /\ typed' = typed + (IF Spells(asked) THEN 1 ELSE 0)
  BY <1>0, KeyDownIs
<1> HIDE DEF asked
<1>2. Straight(ts') /\ Present(ts') = Present(ts)
  BY <1>0, <1>1 DEF Ordered
<1>3. CASE UNCHANGED <<queue, typed>>
  BY <1>0, <1>1, <1>3 DEF Ordered, InOrder, Ahead
<1>4. CASE Request(asked) /\ typed' = typed + (IF Spells(asked) THEN 1 ELSE 0)
  <2>3. typed \in Int /\ typed' \in Int /\ typed <= typed' /\ typed < typed + 1
        /\ (Spells(asked) => typed' = typed + 1)
    BY <1>0, <1>4
  <2>4. /\ DOMAIN queue' = DOMAIN queue \union {Len(queue) + 1}
        /\ Len(queue) \in Nat /\ DOMAIN queue = 1..Len(queue)
        /\ \A i \in DOMAIN queue : queue'[i] = queue[i]
        /\ queue'[Len(queue) + 1] = asked
    BY <1>0, <1>1, <1>4, QueueGrows
  <2>5. Present(ts) \subseteq KeyIds
    BY <1>0, PresentTypes
  <2>6. \A i \in DOMAIN queue : Spells(queue[i]) => queue[i].id \in KeyIds
    BY <1>0 DEF SpelledIds
  <2>7. Below(ts', typed' + 1)
    BY <1>0, <1>2, <2>3, <2>5, LaterStill DEF Below, Ordered
  <2>8. Ahead'
    <3> SUFFICES ASSUME NEW i \in DOMAIN queue', Spells(queue'[i])
                 PROVE  queue'[i].id <= typed' /\ Below(ts', queue'[i].id)
      BY DEF Ahead
    <3>1. CASE i \in DOMAIN queue
      <4>1. queue'[i].id \in KeyIds /\ queue'[i].id <= typed /\ Below(ts, queue'[i].id)
        BY <1>0, <2>4, <2>6, <3>1 DEF Ordered, Ahead
      <4> QED BY <1>2, <2>3, <4>1, LaterStill DEF Below
    <3>2. CASE i = Len(queue) + 1
      <4>1. queue'[i] = asked /\ typed' = typed + 1
        BY <2>3, <2>4, <3>2
      <4> QED BY <1>0, <1>1, <1>2, <2>3, <4>1 DEF Ordered, Below
    <3> QED BY <2>4, <3>1, <3>2
  <2>9. InOrder'
    <3> SUFFICES ASSUME NEW i \in DOMAIN queue', NEW j \in DOMAIN queue', i < j,
                        Spells(queue'[i]), Spells(queue'[j])
                 PROVE  queue'[i].id < queue'[j].id
      BY DEF InOrder
    <3>1. i \in DOMAIN queue
      BY <2>4
    <3>2. CASE j \in DOMAIN queue
      BY <1>0, <2>4, <3>1, <3>2 DEF Ordered, InOrder
    <3>3. CASE j = Len(queue) + 1
      <4>1. queue'[i].id \in KeyIds /\ queue'[i].id <= typed
        BY <1>0, <2>4, <2>6, <3>1 DEF Ordered, Ahead
      <4>2. queue'[j] = asked /\ typed' = typed + 1
        BY <2>3, <2>4, <3>3
      <4>3. queue'[i].id < typed + 1
        <5>1. KeyIds \subseteq Int
          BY <1>0, HostIs, TypeIs DEF TInv
        <5> DEFINE m == queue'[i].id
        <5>2. m \in KeyIds /\ m <= typed
          BY <4>1
        <5> HIDE DEF m
        <5>3. m < typed + 1
          BY <2>3, <5>1, <5>2
        <5> QED BY <5>3 DEF m
      <4> QED BY <1>1, <4>2, <4>3
    <3> QED BY <2>4, <3>2, <3>3
  <2> QED BY <1>2, <2>7, <2>8, <2>9 DEF Ordered
<1> QED BY <1>1, <1>3, <1>4

(* A session runs: the head of the queue, or a click that is granted at    *)
(* once.                                                                   *)
LEMMA RanMaps ==
  ASSUME NEW r, Good(r), Ran(r)
  PROVE  /\ ts'.text = r.text /\ ts'.doc = r.doc /\ ts'.spent = r.spent
         /\ \A s : Handled(s, r) => Handled(s, ts')
         /\ \A s, n : Spelled(s, r, n) => Spelled(s, ts', n)
<1>1. ts'.text = r.text /\ ts'.doc = r.doc /\ ts'.list = r.list /\ ts'.spent = r.spent
  BY DEF Ran, Good, Loose, Fits, Shaped, Fields
<1>2. \A s : Handled(s, r) => Handled(s, ts')
  BY <1>1 DEF Handled, Same, Quiet, Dropped, Settled, Shorter, Offered
<1>3. \A s, n : Spelled(s, r, n) => Spelled(s, ts', n)
  BY <1>1 DEF Spelled, Same, Quiet, Longer, TypedOver, Grown
<1> QED BY <1>1, <1>2, <1>3

LEMMA RunOrders ==
  ASSUME RInv, Orderly, RunSession, host' = host
  PROVE  /\ Ordered'
         /\ Handled(ts, ts') \/ \E n \in KeyIds : Below(ts, n) /\ Spelled(ts, ts', n)
<1> DEFINE session == Head(queue)
<1>0. /\ Ordered /\ Good(ts) /\ ~ts.fault /\ Waiting /\ Straight(ts) /\ TInv
      /\ queue # <<>> /\ queue' = Tail(queue) /\ typed' = typed
  BY DEF RInv, IInv, Ordered, RunSession
<1>1. PICK e \in Choices(session) : Ran(DoEditSession(ts, session, e))
  BY DEF RunSession
<1>2. /\ session.class # "endComposition" /\ Granted(e) /\ host \in Hosts
      /\ queue \in Seq(Sessions) /\ ts \in Service /\ typed \in 0..MaxTyped
  <2>1. TypeOK
    BY <1>0 DEF TInv
  <2> QED BY <1>0, <2>1, TakenWaits, ChoicesGranted, TypeIs
<1>6. /\ 1 \in DOMAIN queue /\ queue[1] = session
      /\ DOMAIN queue' \subseteq Nat \ {0}
      /\ \A i \in DOMAIN queue' : i + 1 \in DOMAIN queue /\ queue'[i] = queue[i + 1]
  BY <1>0, <1>2, QueueShrinks
<1>7. Spells(session) => /\ session.id \in KeyIds /\ session.id <= typed
                         /\ Below(ts, session.id)
  BY <1>0, <1>6 DEF Ordered, Ahead, TInv, SpelledIds
<1> DEFINE r == DoEditSession(ts, session, e)
<1>3. Good(r)
  BY <1>0, <1>2, <1>7, SessionGood
<1>4. /\ ~Spells(session) => Handled(ts, r)
      /\ Spells(session) => Spelled(ts, r, session.id)
  BY <1>0, <1>2, <1>7, SessionRefines
<1> HIDE DEF r
<1>5. /\ ~Spells(session) => Handled(ts, ts')
      /\ Spells(session) => Spelled(ts, ts', session.id)
  BY <1>1, <1>3, <1>4, RanMaps DEF r
<1> HIDE DEF session
<1>8. InOrder'
  <2> SUFFICES ASSUME NEW i \in DOMAIN queue', NEW j \in DOMAIN queue', i < j,
                      Spells(queue'[i]), Spells(queue'[j])
               PROVE  queue'[i].id < queue'[j].id
    BY DEF InOrder
  <2>1. i + 1 \in DOMAIN queue /\ j + 1 \in DOMAIN queue /\ i + 1 < j + 1
    BY <1>6
  <2> QED BY <1>0, <1>6, <2>1 DEF Ordered, InOrder
<1>9. CASE ~Spells(session)
  <2>1. Straight(ts') /\ Present(ts') \subseteq Present(ts)
    BY <1>0, <1>2, <1>5, <1>9, HandledOrder
  <2>2. \A m : Below(ts, m) => Below(ts', m)
    BY <2>1 DEF Below
  <2>3. Ahead'
    BY <1>0, <1>6, <2>2 DEF Ordered, Ahead
  <2>4. Below(ts', typed' + 1)
    BY <1>0, <2>2 DEF Ordered
  <2> QED BY <1>5, <1>8, <1>9, <2>1, <2>3, <2>4 DEF Ordered
<1>10. CASE Spells(session)
  <2>1. Straight(ts') /\ Present(ts') \subseteq Present(ts) \union {session.id}
    BY <1>0, <1>2, <1>5, <1>7, <1>10, SpelledOrder
  <2>2. \A m : Below(ts, m) /\ session.id < m => Below(ts', m)
    BY <2>1 DEF Below
  <2>3. session.id < typed + 1
    <3>1. KeyIds \subseteq Int /\ typed \in Int
      BY <1>2, HostIs
    <3>2. session.id \in Int /\ session.id <= typed
      BY <1>7, <1>10, <3>1
    <3> DEFINE n == session.id
    <3> HIDE DEF n
    <3>3. n \in Int /\ n <= typed
      BY <3>2 DEF n
    <3>4. n < typed + 1
      BY <3>1, <3>3
    <3> QED BY <3>4 DEF n
  <2>4. Below(ts', typed' + 1)
    BY <1>0, <2>2, <2>3 DEF Ordered
  <2>5. Ahead'
    <3> SUFFICES ASSUME NEW i \in DOMAIN queue', Spells(queue'[i])
                 PROVE  queue'[i].id <= typed' /\ Below(ts', queue'[i].id)
      BY DEF Ahead
    <3>1. i + 1 \in DOMAIN queue /\ queue'[i] = queue[i + 1] /\ 1 < i + 1
      BY <1>6
    <3>2. queue'[i].id <= typed /\ Below(ts, queue'[i].id)
      BY <1>0, <3>1 DEF Ordered, Ahead
    <3>3. session.id < queue'[i].id
      BY <1>0, <1>6, <1>10, <3>1 DEF Ordered, InOrder
    <3> QED BY <1>0, <2>2, <3>2, <3>3
  <2> QED BY <1>5, <1>7, <1>8, <1>10, <2>1, <2>4, <2>5 DEF Ordered
<1> QED BY <1>9, <1>10

LEMMA ClickOrders ==
  ASSUME RInv, Orderly, Click, host' = host
  PROVE  Ordered' /\ Handled(ts, ts')
<1>0. /\ Ordered /\ Good(ts) /\ ~ts.fault /\ Straight(ts) /\ typed' = typed
      /\ host \in Hosts /\ queue \in Seq(Sessions) /\ ts \in Service
  BY TypeIs DEF RInv, IInv, TInv, Ordered, Click
<1>1. Clicked.class # "endComposition" /\ ~Spells(Clicked) /\ Clicked \in Sessions
  BY SessionTyped
<1>2. CASE UNCHANGED queue /\ \E e \in Choices(Clicked) : Ran(DoEditSession(ts, Clicked, e))
  <2>1. PICK e \in Choices(Clicked) : Ran(DoEditSession(ts, Clicked, e))
    BY <1>2
  <2>2. Granted(e)
    BY <1>0, ChoicesGranted
  <2>3. Handled(ts, DoEditSession(ts, Clicked, e)) /\ Good(DoEditSession(ts, Clicked, e))
    BY <1>0, <1>1, <2>2, SessionRefines, SessionGood
  <2>4. Handled(ts, ts')
    BY <2>1, <2>3, RanMaps
  <2>5. Straight(ts') /\ Present(ts') \subseteq Present(ts)
    BY <1>0, <2>4, HandledOrder
  <2>6. \A m : Below(ts, m) => Below(ts', m)
    BY <2>5 DEF Below
  <2> QED BY <1>0, <1>2, <2>4, <2>5, <2>6 DEF Ordered, InOrder, Ahead
<1>3. CASE Request(Clicked) /\ UNCHANGED ts
  <2>1. /\ DOMAIN queue' = DOMAIN queue \union {Len(queue) + 1}
        /\ \A i \in DOMAIN queue : queue'[i] = queue[i]
        /\ queue'[Len(queue) + 1] = Clicked
    BY <1>0, <1>1, <1>3, QueueGrows
  <2>2. \A i \in DOMAIN queue' : Spells(queue'[i]) => i \in DOMAIN queue
    BY <1>1, <2>1
  <2>3. InOrder' /\ Ahead'
    BY <1>0, <1>3, <2>1, <2>2 DEF Ordered, InOrder, Ahead
  <2> QED BY <1>0, <1>3, <2>3 DEF Ordered, Handled, Same
<1> QED BY <1>2, <1>3 DEF Click, Clicked

-----------------------------------------------------------------------------
(* What the session did is a step of Preedit.                              *)

LEMMA RespeltMaps ==
  ASSUME NEW t, NEW u, NEW n, Respelt(t, u, n)
  PROVE  Abstract!Respelled(t, u, n)
<1>1. \A i \in DOMAIN Line(u) : Line(u)[i] = n \/ \E j \in DOMAIN Line(t) : Line(u)[i] = Line(t)[j]
  BY DEF Respelt, CharsOf
<1> QED BY <1>1 DEF Respelt, Kept, Line, Abstract!Respelled, Abstract!Kept, Abstract!Shown

LEMMA HandledMaps ==
  ASSUME Calm, Calm', ts \in Service, Handled(ts, ts')
  PROVE  [Abstract!Next]_(Abstract!vars)
<1>1. CASE Same(ts, ts')
  BY <1>1 DEF Same, Abstract!vars
<1>2. CASE Dropped(ts, ts')
  <2>1. Abstract!Cancel
    BY <1>2 DEF Dropped, Quiet, Abstract!Cancel, Abstract!Nothing, NoText
  <2> QED BY <2>1 DEF Abstract!Next
<1>3. CASE Settled(ts, ts')
  <2>1. Abstract!Taken = Takable(ts)
    BY DEF Abstract!Taken, Abstract!Shown, Takable, Line
  <2>2. Abstract!Settle
    BY <1>3, <2>1 DEF Settled, Quiet, Abstract!Settle, Abstract!Nothing, NoText
  <2> QED BY <2>2 DEF Abstract!Next
<1>4. CASE Shorter(ts, ts')
  <2>0. Line(ts.text) # <<>>
    BY <1>4, FieldTypes, TextTypes DEF Shorter
  <2>1. Abstract!TakeBack
    BY <1>4, <2>0 DEF Shorter, Quiet, Abstract!TakeBack, Abstract!Shown, Line
  <2> QED BY <2>1 DEF Abstract!Next
<1>5. CASE Offered(ts, ts')
  <2>1. Abstract!Offer
    BY <1>5 DEF Offered, Abstract!Offer
  <2> QED BY <2>1 DEF Abstract!Next
<1> QED BY <1>1, <1>2, <1>3, <1>4, <1>5 DEF Handled

LEMMA SpelledMaps ==
  ASSUME Calm, Calm', ts \in Service, ts' \in Service, Straight(ts'),
         NEW n \in KeyIds, Spelled(ts, ts', n)
  PROVE  [Abstract!Next]_(Abstract!vars)
<1>1. ts'.doc \in Strings /\ Line(ts'.text) \in Strings
  BY FieldTypes, TextTypes
<1>2. Abstract!Increasing(ts'.doc \o Abstract!Shown(ts'.text))
  <2>1. Rising(ts'.doc \o Line(ts'.text))
    BY <1>1, RisingConcat DEF Straight
  <2> QED BY <2>1 DEF Rising, Line, Abstract!Increasing, Abstract!Shown
<1>3. CASE Same(ts, ts')
  BY <1>3 DEF Same, Abstract!vars
<1>4. CASE Longer(ts, ts', n)
  <2>1. Abstract!Respelled(ts.text, ts'.text, n) /\ ts'.doc = ts.doc /\ ts'.list = <<>>
    BY <1>4, RespeltMaps DEF Longer, Grown, Quiet
  <2>2. Abstract!Type(n)
    BY <1>2, <2>1 DEF Abstract!Type
  <2> QED BY <2>2 DEF Abstract!Next
<1>5. CASE TypedOver(ts, ts', n)
  <2>1. Abstract!Respelled(NoText, ts'.text, n) /\ ts'.list = <<>>
        /\ \E taken \in Takable(ts) : ts'.doc = ts.doc \o taken
    BY <1>5, RespeltMaps DEF TypedOver, Grown, Quiet
  <2>2. Abstract!Taken = Takable(ts) /\ NoText = Abstract!Nothing
    BY DEF Abstract!Taken, Abstract!Shown, Takable, Line, NoText, Abstract!Nothing
  <2>3. Abstract!TypeOver(n)
    BY <1>2, <2>1, <2>2 DEF Abstract!TypeOver
  <2> QED BY <2>3 DEF Abstract!Next
<1> QED BY <1>3, <1>4, <1>5 DEF Spelled

LEMMA RNext ==
  ASSUME RInv, [Next]_vars
  PROVE  RInv' /\ [Abstract!Next]_(Abstract!vars)
<1>0. IInv'
  BY Inductive DEF RInv
<1>1. CASE UNCHANGED vars
  BY <1>0, <1>1
  DEF vars, RInv, Ordered, InOrder, Ahead, Orderly, Calm, Prompt, Abstract!vars
<1>2. CASE Next /\ ~Orderly
  <2>1. host' = host /\ ~Calm /\ ~Calm' /\ ~Orderly'
    BY <1>2 DEF Next, Orderly, Calm, Prompt
  <2> QED BY <1>0, <2>1 DEF RInv, Abstract!vars
<1>3. CASE Next /\ Orderly
  <2>1. host' = host /\ Orderly' /\ Ordered /\ (Calm <=> Calm') /\ ts \in Service /\ ts' \in Service
    BY <1>0, <1>3, TypeIs DEF Next, Orderly, Calm, Prompt, RInv, IInv, TInv, TypeOK
  <2>2. ~Calm => UNCHANGED Abstract!vars
    BY <2>1 DEF Abstract!vars
  <2>3. SUFFICES /\ Ordered'
                 /\ Calm /\ Calm' => [Abstract!Next]_(Abstract!vars)
    BY <1>0, <2>1, <2>2 DEF RInv
  <2>4. CASE RunSession
    <3>1. /\ Ordered' /\ Straight(ts')
          /\ Handled(ts, ts') \/ \E n \in KeyIds : Below(ts, n) /\ Spelled(ts, ts', n)
      BY <1>3, <2>1, <2>4, RunOrders DEF Ordered
    <3> QED BY <2>1, <3>1, HandledMaps, SpelledMaps
  <2>5. CASE \E k \in host.keys : KeyDown(k)
    <3>1. UNCHANGED ts
      BY <2>5 DEF KeyDown
    <3>2. UNCHANGED Abstract!vars
      BY <2>1, <3>1 DEF Abstract!vars
    <3> QED BY <1>3, <2>1, <2>5, <3>2, KeyOrders
  <2>6. CASE Click
    BY <1>3, <2>1, <2>6, ClickOrders, HandledMaps
  <2>7. CASE OpenClose
    <3>1. ts' = [ts EXCEPT !.open = ~@] /\ UNCHANGED <<queue, typed>>
      BY <2>7 DEF OpenClose
    <3>2. Same(ts, ts')
      BY <3>1 DEF RInv, IInv, Good, Loose, Fits, Shaped, Fields, Same
    <3>3. Ordered'
      BY <2>1, <3>1, <3>2 DEF Same, Ordered, InOrder, Ahead, Straight, Below, Present
    <3> QED BY <2>1, <3>2, <3>3, HandledMaps DEF Handled
  <2>8. ~(\E c \in {"end", "before", "after"} : MoveCaret(c)) /\ ~OnCompositionTerminated
        /\ ~OnActivatedOff /\ ~LayoutDestroyed /\ ~Deactivate
    BY <1>3 DEF Orderly, Calm, Prompt, Enabled, MoveCaret, OnCompositionTerminated,
                OnActivatedOff, LayoutDestroyed, Deactivate
  <2> QED BY <1>3, <2>4, <2>5, <2>6, <2>7, <2>8 DEF Next, UserStep, HostStep
<1> QED BY <1>1, <1>2, <1>3

(* Through edit sessions that run later than the keys were understood, the *)
(* person sees the abstract preedit: what is spelled reaches the document  *)
(* whole, in the order in which it was typed and once, unless taken back,  *)
(* and candidates are offered for the kana in the composition.             *)
THEOREM ImplementsPreedit == Spec => PreeditSpec
<1>1. Init => Abstract!Init
  BY DEF Init, Abstract!Init, Abstract!Nothing, NoText
<1>2. Spec => []RInv
  <2>1. RInv /\ [Next]_vars => RInv'
    BY RNext
  <2> QED BY RInit, <2>1, PTL DEF Spec
<1>3. RInv /\ [Next]_vars => [Abstract!Next]_(Abstract!vars)
  BY RNext
<1> QED BY <1>1, <1>2, <1>3, PTL DEF Spec, PreeditSpec, Abstract!Spec

-----------------------------------------------------------------------------
(* No key is lost in a prompt host.  Its one waiting session finds what it *)
(* was understood on still on the screen (Careful), so what is written is  *)
(* settled or kept by it, and a key that spells is added.                  *)

Careful(s, session) ==
  LET fn == session.fn
  IN /\ fn = "input" => session.cat = "composing"
     /\ fn = "finalizeCandidateListAndInput" => session.cat = "candidate" /\ s.mode = "original"
     /\ fn = "punctuation" => s.buf = NoText
     /\ fn # "doubleSingleByte"
     /\ session.cat = "composing" /\ fn = "finalizeCandidateList" => s.mode = "none"

Keeps(s, r) == \/ Same(s, r) \/ Settled(s, r) \/ Offered(s, r)
               \/ Dropped(s, r) /\ CharsOf(Line(s.text)) \subseteq s.spent

LEMMA SessionKeeps ==
  ASSUME NEW s, NEW session, NEW e, Prompt, Good(s), ~s.fault, Granted(e), Straight(s),
         session.class # "endComposition", Careful(s, session),
         Spells(session) => session.id \in KeyIds /\ Below(s, session.id)
  PROVE  LET r == DoEditSession(s, session, e)
         IN  /\ Spells(session) => Longer(s, r, session.id) \/ TypedOver(s, r, session.id)
             /\ ~Spells(session) /\ ~TakesBack(session) => Keeps(s, r)
<1> DEFINE id == session.id
<1>0. Orderly /\ Loose(s)
  BY DEF Orderly, Good
<1>1. CASE session.fn = "input"
  <2>1. session.cat = "composing" /\ id \in KeyIds /\ Below(s, id)
    BY <1>1 DEF Careful, Spells
  <2>2. DoEditSession(s, session, e) = HandleCompositionInput(s, id, e)
    BY <1>1, <2>1, MovesAre DEF DoEditSession
  <2> QED BY <1>0, <1>1, <2>1, <2>2, InputSpells DEF Spells
<1>2. CASE session.fn = "finalizeCandidateListAndInput"
  <2>1. session.cat = "candidate" /\ s.mode = "original" /\ id \in KeyIds /\ Below(s, id)
    BY <1>2 DEF Careful, Spells
  <2>2. s.wnd
    BY <1>0, <2>1 DEF Loose, Fits, Steady
  <2> DEFINE chosen == HandleCandidateFinalize(s, e)
             r == Unless(chosen, HandleCompositionInput(chosen, id, e))
  <2>3. DoEditSession(s, session, e) = r
    BY <1>2, <2>1, MovesAre DEF DoEditSession
  <2>4. TypedOver(s, r, id)
    BY <1>0, <2>1, <2>2, OverCandidatesSpells
  <2> HIDE DEF r
  <2> QED BY <1>2, <2>3, <2>4 DEF Spells
<1>3. CASE ~Spells(session) /\ ~TakesBack(session)
  <2>0. Line(s.text) \in Takable(s)
    BY DEF Takable
  <2>1. Keeps(s, HandleCompositionFinalize(s, FALSE, e))
    BY <1>0, <2>0, FinalizeHandles, OverSettles DEF Keeps
  <2>2. s.mode = "none" => Keeps(s, HandleCompositionFinalize(s, TRUE, e))
    BY <1>0, <2>0, FinalizeHandles, OverSettles DEF Keeps
  <2>3. Keeps(s, HandleCompositionArrowKey(s)) /\ Keeps(s, HandleCandidateArrowKey(s))
    BY FaultSame DEF HandleCompositionArrowKey, HandleCandidateArrowKey, Keeps
  <2>4. Keeps(s, HandleCandidateFinalize(s, e))
    BY <1>0, CandidateFinalizeHandles, FaultSame, OverSettles DEF Keeps
  <2>5. Keeps(s, HandleCompositionConvert(s, e)) /\ Keeps(s, HandleCandidateSelectByNumber(s, e))
    BY <1>0, ConvertHandles, SelectHandles DEF Keeps
  <2>6. s.buf = NoText => Keeps(s, HandleCompositionPunctuation(s, e))
    <3> SUFFICES ASSUME s.buf = NoText PROVE Keeps(s, HandleCompositionPunctuation(s, e))
      OBVIOUS
    <3>1. s.text = NoText \/ Stray(s)
      BY <1>0, EmptyBuffer DEF Good, InStep
    <3>2. s.text.kana \in Strings /\ s.text.letters \in Strings /\ Line(NoText) = <<>>
      BY <1>0, OrderlyIs, TextTypes
    <3>3. CharsOf(Line(s.text)) = CharsOf(s.text.kana) \union CharsOf(s.text.letters)
      BY <3>2, CharsConcat DEF Line
    <3>4. CharsOf(Line(s.text)) \subseteq s.spent
      BY <3>1, <3>2, <3>3, CharsOne DEF Stray
    <3> QED BY <1>0, <3>4, PunctuationHandles DEF Keeps
  <2>7. Keeps(s, s)
    BY FaultSame DEF Keeps
  <2> QED BY <1>3, <2>1, <2>2, <2>3, <2>4, <2>5, <2>6, <2>7
          DEF Careful, Spells, TakesBack, DoEditSession
<1> QED BY <1>1, <1>2, <1>3 DEF Spells, TakesBack

-----------------------------------------------------------------------------
(* The keys a session leaves, and adds.                                    *)

Tally(s) == Present(s) \union s.spent

\* The letters a chosen candidate was not offered for.
Lost(s) == IF s.list # <<>> THEN CharsOf(s.text.letters) ELSE {}

LEMMA TakenKeeps ==
  ASSUME NEW s \in Service, Straight(s), NEW taken \in Takable(s)
  PROVE  Present(s) \subseteq CharsOf(s.doc \o taken) \union Lost(s)
<1>1. CharsOf(s.doc \o taken) = CharsOf(s.doc) \union CharsOf(taken)
  BY TakableIs
<1>2. s.text.kana \in Strings /\ s.text.letters \in Strings
  BY FieldTypes, TextTypes
<1>3. CharsOf(Line(s.text)) = CharsOf(s.text.kana) \union CharsOf(s.text.letters)
  BY <1>2, CharsConcat DEF Line
<1> QED BY <1>1, <1>3 DEF Takable, Lost, Present

LEMMA KeepsKeys ==
  ASSUME NEW s \in Service, Straight(s), NEW r
  PROVE  /\ Keeps(s, r) => Tally(s) \subseteq Tally(r) \union Lost(s)
         /\ Handled(s, r) => Tally(s) \subseteq Tally(r) \union CharsOf(Line(s.text))
         /\ \A n \in KeyIds : Longer(s, r, n) \/ TypedOver(s, r, n) =>
              Tally(s) \union {n} \subseteq Tally(r) \union Lost(s)
<1>1. Same(s, r) \/ Offered(s, r) => Tally(s) = Tally(r)
  BY DEF Same, Offered, Tally, Present
<1>2. Settled(s, r) => Tally(s) \subseteq Tally(r) \union Lost(s)
  <2> SUFFICES ASSUME Settled(s, r) PROVE Tally(s) \subseteq Tally(r) \union Lost(s)
    OBVIOUS
  <2>1. PICK taken \in Takable(s) : r.doc = s.doc \o taken
    BY DEF Settled
  <2>2. Present(s) \subseteq CharsOf(r.doc) \union Lost(s)
    BY <2>1, TakenKeeps
  <2> QED BY <2>2 DEF Settled, Tally, Present
<1>3. Dropped(s, r) \/ Shorter(s, r) => Tally(s) \subseteq Tally(r) \union CharsOf(Line(s.text))
  BY DEF Dropped, Shorter, Tally, Present
<1>4. Lost(s) \subseteq CharsOf(Line(s.text))
  <2>1. s.text.kana \in Strings /\ s.text.letters \in Strings
    BY FieldTypes, TextTypes
  <2> QED BY <2>1, CharsConcat DEF Line, Lost
<1>5. Dropped(s, r) /\ CharsOf(Line(s.text)) \subseteq s.spent => Tally(s) \subseteq Tally(r)
  BY DEF Dropped, Tally, Present
<1>6. ASSUME NEW n \in KeyIds, Longer(s, r, n) PROVE Tally(s) \union {n} \subseteq Tally(r)
  BY <1>6 DEF Longer, Grown, Tally, Present
<1>7. ASSUME NEW n \in KeyIds, TypedOver(s, r, n)
      PROVE  Tally(s) \union {n} \subseteq Tally(r) \union Lost(s)
  <2>1. PICK taken \in Takable(s) : r.doc = s.doc \o taken
    BY <1>7 DEF TypedOver
  <2>2. Present(s) \subseteq CharsOf(r.doc) \union Lost(s)
    BY <2>1, TakenKeeps
  <2> QED BY <1>7, <2>2 DEF TypedOver, Grown, Tally, Present
<1>8. Keeps(s, r) => Tally(s) \subseteq Tally(r) \union Lost(s)
  BY <1>1, <1>2, <1>5 DEF Keeps
<1>9. Handled(s, r) => Tally(s) \subseteq Tally(r) \union CharsOf(Line(s.text))
  BY <1>1, <1>2, <1>3, <1>4 DEF Handled
<1> QED BY <1>6, <1>7, <1>8, <1>9

-----------------------------------------------------------------------------
(* The steps of a prompt host.                                             *)

Attended == queue = <<>> \/ (Len(queue) = 1 /\ Careful(ts, Head(queue)))

PInv == RInv /\ (Prompt => Attended) /\ KeysSurvive

Waited == {queue[i].id : i \in {j \in DOMAIN queue : Spells(queue[j])}}

LEMMA SurviveIs ==
  KeysSurvive <=> (Prompt => 1..typed \subseteq Tally(ts) \union erased \union Waited)
BY DEF KeysSurvive, Tally, Waited

(* A key is understood when nothing waits.                                 *)
LEMMA KeyAttended ==
  ASSUME PInv, Prompt, NEW k \in host.keys, KeyDown(k), host' = host
  PROVE  Attended' /\ 1..typed' \subseteq (Tally(ts) \union erased \union Waited)'
<1> DEFINE asked == Pressed(k)
<1>0. TInv /\ ts \in Service /\ queue \in Seq(Sessions) /\ typed \in Nat /\ k \in Keys
  <2>1. TInv /\ TypeOK
    BY DEF PInv, RInv, IInv, TInv
  <2> QED BY <2>1, TypeIs, HostIs
<1>1. /\ UNCHANGED <<ts, erased>> /\ asked \in Sessions /\ asked.id = typed'
      /\ Understood(SessionOf(k, Now), k, Now)
      /\ asked.fn = SessionOf(k, Now).fn /\ asked.cat = SessionOf(k, Now).cat
      /\ \/ UNCHANGED <<queue, typed>>
         \/ /\ Request(asked)
            /\ typed' = typed + (IF Spells(asked) THEN 1 ELSE 0)
  BY <1>0, KeyDownIs
<1> HIDE DEF asked
<1>2. 1..typed \subseteq Tally(ts) \union erased \union Waited
  BY SurviveIs DEF PInv
<1>3. Now.mode = ts.mode /\ ~Now.wide /\ (Now.buffered <=> ts.buf # NoText)
  BY <1>0, NowIsUsed
<1>4. Careful(ts, asked)
  <2>1. k \notin Marks
    BY DEF Prompt
  <2> QED BY <1>1, <1>3, <2>1 DEF Careful, Understood, Spelling
<1>5. CASE UNCHANGED <<queue, typed>>
  BY <1>1, <1>2, <1>5 DEF PInv, Attended, Waited, Tally
<1>6. CASE Request(asked) /\ typed' = typed + (IF Spells(asked) THEN 1 ELSE 0)
  <2>1. queue' = Append(queue, asked) /\ Len(queue) < 1
    BY <1>6 DEF Request, Prompt
  <2>2. queue = <<>>
    BY <2>1 DEF PInv, Attended
  <2>3. queue' = <<asked>> /\ Len(queue') = 1 /\ Head(queue') = asked
    BY <2>1, <2>2
  <2>4. DOMAIN queue = {} /\ DOMAIN queue' = {1} /\ queue'[1] = asked
    BY <2>2, <2>3
  <2>5. Waited = {}
    BY <2>4 DEF Waited
  <2>6. Waited' = IF Spells(asked) THEN {asked.id} ELSE {}
    BY <2>4 DEF Waited
  <2>7. 1..typed' \subseteq 1..typed \union (IF Spells(asked) THEN {typed'} ELSE {})
    BY <1>0, <1>6
  <2>8. Tally(ts)' = Tally(ts) /\ erased' = erased
    BY <1>1 DEF Tally
  <2>9. Attended'
    BY <1>1, <1>4, <2>3 DEF Attended
  <2> QED BY <1>1, <1>2, <2>5, <2>6, <2>7, <2>8, <2>9
<1> QED BY <1>1, <1>5, <1>6

(* The session runs before the next key.                                   *)
LEMMA RunAttended ==
  ASSUME PInv, Prompt, RunSession, host' = host
  PROVE  Attended' /\ 1..typed' \subseteq (Tally(ts) \union erased \union Waited)'
<1> DEFINE session == Head(queue)
<1>0. /\ Good(ts) /\ ~ts.fault /\ Waiting /\ Ordered /\ Straight(ts) /\ Orderly /\ TInv
      /\ queue # <<>> /\ queue' = Tail(queue) /\ typed' = typed
  BY DEF PInv, RInv, IInv, Ordered, Orderly, RunSession
<1>1. Len(queue) = 1 /\ Careful(ts, session)
  BY <1>0 DEF PInv, Attended
<1>2. PICK e \in Choices(session) : Ran(DoEditSession(ts, session, e))
  BY DEF RunSession
<1>3. /\ session.class # "endComposition" /\ Granted(e) /\ host \in Hosts
      /\ queue \in Seq(Sessions) /\ ts \in Service
  <2>1. TypeOK
    BY <1>0 DEF TInv
  <2> QED BY <1>0, <2>1, TakenWaits, ChoicesGranted, TypeIs
<1>6. queue' = <<>> /\ DOMAIN queue = {1} /\ queue[1] = session
  BY <1>0, <1>1, <1>3
<1>5. Spells(session) => session.id \in KeyIds /\ Below(ts, session.id)
  BY <1>0, <1>6 DEF Ordered, Ahead, TInv, SpelledIds
<1> DEFINE r == DoEditSession(ts, session, e)
<1>4. Good(r)
  BY <1>0, <1>3, <1>5, SessionGood
<1>7. /\ Spells(session) => Longer(ts, r, session.id) \/ TypedOver(ts, r, session.id)
      /\ ~Spells(session) /\ ~TakesBack(session) => Keeps(ts, r)
      /\ ~Spells(session) => Handled(ts, r)
  BY <1>0, <1>1, <1>3, <1>5, SessionKeeps, SessionRefines
<1> HIDE DEF r
<1>8. Tally(ts') = Tally(r)
  BY <1>2, <1>4, RanMaps DEF r, Tally, Present
<1>9. /\ Leaves(session) = (IF TakesBack(session) THEN CharsOf(Line(ts.text)) ELSE Lost(ts))
      /\ erased' = erased \union (Leaves(session) \ Present(ts'))
  BY DEF Leaves, Lost, RunSession
<1> HIDE DEF session
<1>10. Tally(ts) \union (IF Spells(session) THEN {session.id} ELSE {})
         \subseteq Tally(ts') \union erased'
  <2>1. CASE Spells(session)
    <3>1. ~TakesBack(session)
      BY <2>1 DEF Spells, TakesBack
    <3>2. Tally(ts) \union {session.id} \subseteq Tally(r) \union Lost(ts)
      BY <1>0, <1>3, <1>5, <1>7, <2>1, KeepsKeys
    <3> QED BY <1>8, <1>9, <2>1, <3>1, <3>2 DEF Tally
  <2>2. CASE ~Spells(session) /\ ~TakesBack(session)
    <3>1. Tally(ts) \subseteq Tally(r) \union Lost(ts)
      BY <1>0, <1>3, <1>7, <2>2, KeepsKeys
    <3> QED BY <1>8, <1>9, <2>2, <3>1 DEF Tally
  <2>3. CASE ~Spells(session) /\ TakesBack(session)
    <3>1. Tally(ts) \subseteq Tally(r) \union CharsOf(Line(ts.text))
      BY <1>0, <1>3, <1>7, <2>3, KeepsKeys
    <3> QED BY <1>8, <1>9, <2>3, <3>1 DEF Tally
  <2> QED BY <2>1, <2>2, <2>3
<1>11. Waited' = {} /\ Waited = IF Spells(session) THEN {session.id} ELSE {}
  <2>1. DOMAIN <<>> = {}
    OBVIOUS
  <2>2. Waited' = {}
    BY <1>6, <2>1 DEF Waited
  <2>3. Waited = IF Spells(session) THEN {session.id} ELSE {}
    BY <1>6 DEF Waited
  <2> QED BY <2>2, <2>3
<1>12. 1..typed \subseteq Tally(ts) \union erased \union Waited
  BY SurviveIs DEF PInv
<1>13. Attended'
  BY <1>6 DEF Attended
<1>14. 1..typed' \subseteq Tally(ts') \union erased'
  BY <1>0, <1>9, <1>10, <1>11, <1>12
<1> QED BY <1>11, <1>13, <1>14 DEF Tally

LEMMA PInit == Init => PInv
<1> SUFFICES ASSUME Init PROVE PInv
  OBVIOUS
<1>1. typed = 0 /\ queue = <<>>
  BY DEF Init
<1>2. 1..typed = {}
  BY <1>1
<1> QED BY <1>1, <1>2, RInit, SurviveIs DEF PInv, Attended

LEMMA PNext == PInv /\ [Next]_vars => PInv'
<1> SUFFICES ASSUME PInv, [Next]_vars PROVE PInv'
  OBVIOUS
<1>1. RInv'
  BY RNext DEF PInv
<1>2. host' = host /\ (Prompt' <=> Prompt)
  BY DEF Next, vars, Prompt
<1>3. CASE ~Prompt
  BY <1>1, <1>2, <1>3 DEF PInv, KeysSurvive
<1>4. CASE Prompt
  <2>1. SUFFICES Attended' /\ 1..typed' \subseteq (Tally(ts) \union erased \union Waited)'
    <3>1. KeysSurvive'
      BY <2>1 DEF KeysSurvive, Tally, Waited
    <3> QED BY <1>1, <2>1, <3>1 DEF PInv
  <2>2. Attended /\ 1..typed \subseteq Tally(ts) \union erased \union Waited
    BY <1>4, SurviveIs DEF PInv
  <2>3. CASE UNCHANGED vars
    BY <2>2, <2>3 DEF vars, Attended, Careful, Tally, Waited
  <2>4. CASE RunSession
    BY <1>2, <1>4, <2>4, RunAttended
  <2>5. CASE \E k \in host.keys : KeyDown(k)
    BY <1>2, <1>4, <2>5, KeyAttended
  <2>6. CASE OpenClose
    <3>1. ts' = [ts EXCEPT !.open = ~@] /\ UNCHANGED <<queue, typed, erased>>
      BY <2>6 DEF OpenClose
    <3>2. ts'.text = ts.text /\ ts'.doc = ts.doc /\ ts'.mode = ts.mode /\ ts'.buf = ts.buf
          /\ ts'.spent = ts.spent
      BY <3>1 DEF PInv, RInv, IInv, Good, Loose, Fits, Shaped, Fields
    <3>3. Tally(ts') = Tally(ts)
      BY <3>2 DEF Tally, Present
    <3> QED BY <2>2, <3>1, <3>2, <3>3 DEF Attended, Careful, Tally, Waited
  <2>7. ~(\E c \in {"end", "before", "after"} : MoveCaret(c)) /\ ~OnCompositionTerminated
        /\ ~OnActivatedOff /\ ~LayoutDestroyed /\ ~Deactivate /\ ~Click
    BY <1>4 DEF Prompt, Enabled, MoveCaret, OnCompositionTerminated,
                OnActivatedOff, LayoutDestroyed, Deactivate, Click
  <2> QED BY <2>3, <2>4, <2>5, <2>6, <2>7 DEF Next, UserStep, HostStep
<1> QED BY <1>3, <1>4

(* In a prompt host a key that spells waits in a session, or stands, by    *)
(* itself or in a kana, in the composition or in the document, unless      *)
(* Backspace or Escape removed it, or it was a letter that spells nothing  *)
(* or that was not kana yet when a candidate was chosen: also where ending *)
(* a composition is refused.                                               *)
THEOREM KeysSurviveHolds == Spec => []KeysSurvive
<1>1. Spec => []PInv
  BY PInit, PNext, PTL DEF Spec
<1>2. PInv => KeysSurvive
  BY DEF PInv
<1> QED BY <1>1, <1>2, PTL
=============================================================================
