----------------------------- MODULE KeyRouting -----------------------------
(***************************************************************************)
(* Which keys the text service takes, and what it does with them: the      *)
(* decision CSampleIME::_IsKeyEaten and                                    *)
(* CCompositionProcessorEngine::IsVirtualKeyNeed make for a keystroke.     *)
(*                                                                         *)
(* A key is a class of keystrokes the code cannot tell apart: the virtual  *)
(* key, the character the layout gives it and whether a modifier is held.  *)
(* A decision is the record [cat, fn, eaten] of a _KEYSTROKE_STATE and the *)
(* BOOL beside it.  The code's tests, tried one after the other, are       *)
(* tables from keys to decisions, joined by ++.                            *)
(***************************************************************************)

\* Of two tables that know a key, the left one decides.
f ++ g == [k \in DOMAIN f \union DOMAIN g |-> IF k \in DOMAIN f THEN f[k] ELSE g[k]]

Letters  == {"letter", "packetLetter"}             \* plain A..Z
Digits   == {"digit", "packetDigit", "shiftDigit"} \* virtual key 0..9
Marks    == {"mark", "shiftDigit"}                 \* in PunctuationTable
Wild     == {"wild"}                               \* * and ?, also in it
Vertical == {"up", "down", "prior", "next", "home", "end"}
Arrows   == Vertical \union {"left", "right"}
Others   == {"minus",         \* VK_OEM_MINUS
             "subtract",      \* the - of the number pad
             "shiftLetter", "ctrlLetter", "space", "enter", "escape", "back",
             "function"}
TouchKeys == {"packetNext", "packetPrior"}  \* THIRDPARTY_NEXTPAGE, _PREVPAGE
Keys == Letters \union Digits \union Marks \union Wild \union Arrows
          \union Others \union TouchKeys

Modes         == {"none", "original", "phrase", "incremental", "withNext"}
ChoosingModes == {"original", "phrase", "withNext"}

(* ConvertVKey gives these no character, or none below '~' and above ' '.  *)
Silent    == Arrows \union {"function"}
Printable == Keys \ (Silent \union TouchKeys
                       \union {"ctrlLetter", "enter", "escape", "back"})

Held == {"shiftDigit", "shiftLetter", "ctrlLetter", "wild"}  \* a modifier is down

(* VKeyFromVKPacketAndWchar: the virtual key behind a VK_PACKET.           *)
VKeyFromVKPacketAndWchar(k) ==
  LET ours == [packetLetter |-> "letter", packetDigit |-> "digit",
               packetNext |-> "next", packetPrior |-> "prior"]
  IN IF k \in DOMAIN ours THEN ours[k] ELSE k

-----------------------------------------------------------------------------
Eat(cat, fn)  == [cat |-> cat, fn |-> fn, eaten |-> TRUE]
Pass(cat, fn) == [cat |-> cat, fn |-> fn, eaten |-> FALSE]
NotOurs       == Pass("none", "none")

To(keys, decision)  == [k \in keys |-> decision]
Look(table, k)      == IF k \in DOMAIN table THEN table[k] ELSE NotOurs

(* _KeystrokeComposition: A..Z and the long-vowel key, no modifier.        *)
Keystrokes == Letters \union {"minus"}
IsVirtualKeyKeystrokeComposition(k) == k \in Keystrokes

MoveFn == [left |-> "moveLeft", right |-> "moveRight", up |-> "moveUp", down |-> "moveDown",
           prior |-> "movePageUp", next |-> "movePageDown",
           home |-> "movePageTop", end |-> "movePageBottom"]

Moves(cat, keys) == [k \in keys |-> Eat(cat, MoveFn[k])]

\* Mutant: the list keeps the letters to itself.
InputTableNotWhileChoosing(mode, buffered) ==
  To(IF mode \in {"none", "incremental"} THEN Keystrokes ELSE {},
     Eat("composing", "input"))

(* The keys that spell: the first tests of IsVirtualKeyNeed.               *)
InputTable(mode, buffered) ==
  IF mode \in {"none", "incremental"}
  THEN To(Keystrokes \union (IF buffered THEN Wild ELSE {}), Eat("composing", "input"))
  ELSE To(Keystrokes, IF mode = "original"
                      THEN Eat("candidate", "finalizeCandidateListAndInput")
                      ELSE Eat("composing", "input"))

(* "System pre-defined keystroke", while composing and not choosing.       *)
ComposingTable ==
  Moves("composing", Arrows)
    ++ [enter  |-> Eat("composing", "finalizeCandidateList"),
        escape |-> Eat("composing", "cancel"),
        back   |-> Eat("composing", "backspace"),
        space  |-> Eat("composing", "convert")]

ListTable(cat) ==
  Moves(cat, Vertical)
    ++ [enter  |-> Eat(cat, "finalizeCandidateList"),
        escape |-> Eat(cat, "cancel"),
        space  |-> Eat(cat, "convert")]

IncrementalTable ==
  To({"left", "right"}, Pass("invoke", "cancel"))
    ++ [back |-> Eat("composing", "backspace")]
    ++ ListTable("candidate")

\* Mutant: Backspace as while composing.
CandidateTableErasing ==
  [back |-> Eat("candidate", "backspace")] ++ ListTable("candidate")

\* Mutant: the keys of the list as in the phrase list.
CandidateTablePhrase ==
  [back |-> Eat("candidate", "cancel")] ++ ListTable("phrase")

CandidateTable ==
  [back |-> Eat("candidate", "cancel")] ++ ListTable("candidate")

SystemTable(composing, mode) ==
  IF mode = "original" THEN CandidateTable
  ELSE IF mode = "withNext"
  THEN [escape |-> Eat("invoke", "finalizeTextStore")] ++ CandidateTable
  ELSE IF mode = "phrase"
  THEN [back |-> Eat("candidate", "cancel")] ++ ListTable("phrase")
  ELSE IF ~composing THEN To({}, NotOurs)
  ELSE IF mode = "none" THEN ComposingTable ELSE IncrementalTable

(* IsKeystrokeRange: the numbers beside the candidates.  Only the phrase   *)
(* and next-word lists look at the modifiers.                              *)
IsKeystrokeRange(mode) ==
  IF mode \in {"original", "incremental"}
  THEN To(Digits, Eat("candidate", "selectByNumber"))
  ELSE IF mode = "withNext"
  THEN To(Digits \ Held, Eat("candidate", "selectByNumber"))
  ELSE IF mode = "phrase"
  THEN To(Digits \ Held, Eat("phrase", "selectByNumber"))
         ++ To(Digits, Pass("invoke", "finalizeTextStoreAndInput"))
  ELSE To({}, NotOurs)

(* IsVirtualKeyNeed with a keystroke state to fill: OnTestKeyDown and      *)
(* OnKeyDown.  buffered: _keystrokeBuffer is not empty.  A key no table    *)
(* knows settles the text before the application sees it, if it has a      *)
(* character.                                                              *)
IsVirtualKeyNeed(k, composing, mode, buffered) ==
  LET v      == VKeyFromVKPacketAndWchar(k)
      table  == InputTable(mode, buffered) ++ SystemTable(composing, mode)
                  ++ IsKeystrokeRange(mode)
      settle == To(Keys \ (Silent \union Keystrokes),
                   Pass("invoke", "finalizeTextStore"))
  IN IF v \in DOMAIN table THEN table[v] ELSE Look(settle, k)

(* The same call with a null state, as the key-up handlers make it: the    *)
(* keystroke table and the range are not consulted.                        *)
IsVirtualKeyNeedStateless(k, composing, mode, buffered) ==
  LET v == VKeyFromVKPacketAndWchar(k)
  IN \/ v \in Wild /\ mode \in {"none", "incremental"} /\ buffered
     \/ Look(SystemTable(composing, mode), v).eaten

-----------------------------------------------------------------------------
IsPunctuation(k)      == k \in Marks \union Wild
IsDoubleSingleByte(k) == k \in Printable

(* [open, disabled, wide, composing, mode, buffered]: what the decision    *)
(* reads besides the key.                                                  *)
Situations == [open : BOOLEAN, disabled : BOOLEAN, wide : BOOLEAN,
               composing : BOOLEAN, mode : Modes, buffered : BOOLEAN]

(* _IsKeyEaten after IsVirtualKeyNeed declined the key.                    *)
Widened(k, at, need) ==
  IF at.mode = "none" /\ IsPunctuation(k) THEN Eat("composing", "punctuation")
  ELSE IF at.mode = "none" /\ at.wide /\ IsDoubleSingleByte(k)
  THEN Eat("composing", "doubleSingleByte")
  ELSE [need EXCEPT !.eaten = k \in TouchKeys]

\* Mutant: the widening tests do not ask whether the keyboard is open.
IsKeyEatenClosedToo(k, at) ==
  LET need == IF at.open THEN IsVirtualKeyNeed(k, at.composing, at.mode, at.buffered)
                         ELSE NotOurs
  IN IF at.disabled THEN NotOurs
     ELSE IF need.eaten THEN need ELSE Widened(k, at, need)

IsKeyEaten(k, at) ==
  IF at.disabled THEN NotOurs
  ELSE IF ~at.open THEN [NotOurs EXCEPT !.eaten = k \in TouchKeys]
  ELSE LET need == IsVirtualKeyNeed(k, at.composing, at.mode, at.buffered)
       IN IF need.eaten THEN need ELSE Widened(k, at, need)

\* Mutant: symbols are taken while choosing as well.
IsKeyUpEatenChoosing(k, at) ==
  /\ ~at.disabled
  /\ \/ k \in TouchKeys
     \/ at.open /\ IsVirtualKeyNeedStateless(k, at.composing, at.mode, at.buffered)
     \/ at.open /\ IsPunctuation(k)

(* OnTestKeyUp and OnKeyUp.                                                *)
IsKeyUpEaten(k, at) ==
  /\ ~at.disabled
  /\ \/ k \in TouchKeys
     \/ at.open /\ IsVirtualKeyNeedStateless(k, at.composing, at.mode, at.buffered)
     \/ /\ at.open /\ at.mode = "none"
        /\ IsPunctuation(k) \/ (at.wide /\ IsDoubleSingleByte(k))

-----------------------------------------------------------------------------
NoSession == [cat |-> "none", fn |-> "none"]

(* OnTestKeyDown: a key may run an edit session although the application   *)
(* gets it.                                                                *)
TestSession(d) ==
  IF d.cat = "invoke" THEN [cat |-> "composing", fn |-> d.fn] ELSE NoSession

(* OnKeyDown, called for a key that is eaten.  The page keys of the touch  *)
(* keyboard are eaten but not always processed.                            *)
DownSession(k, d) ==
  IF k = "escape" THEN [cat |-> "composing", fn |-> d.fn]
                  ELSE [cat |-> d.cat, fn |-> d.fn]

(* The methods CKeyStateComposing, CKeyStateCandidate and CKeyStatePhrase  *)
(* override; the base class answers E_NOTIMPL for the rest.                *)
MoveFns == {MoveFn[k] : k \in Arrows}
ListFns == MoveFns \union {"finalizeCandidateList", "cancel", "selectByNumber"}

Implemented ==
  [composing |-> MoveFns \union
     {"input", "finalizeTextStoreAndInput", "finalizeTextStore",
      "finalizeCandidateListAndInput", "finalizeCandidateList", "convert",
      "convertWildcard", "cancel", "backspace", "doubleSingleByte", "punctuation"},
   candidate |-> ListFns \union {"finalizeCandidateListAndInput", "convert"},
   phrase |-> ListFns]

HasHandler(session) ==
  session.cat \in DOMAIN Implemented /\ session.fn \in Implemented[session.cat]

-----------------------------------------------------------------------------
(* What is expected of the decision in a situation, for every key.         *)

(* Every key the text service takes runs a handler: none is swallowed and  *)
(* answered with E_NOTIMPL (KeyEventSink.cpp:143, "eat only keys that      *)
(* CKeyHandlerEditSession can handles").                                   *)
EatenKeysAreHandled(at) ==
  \A k \in Keys \ TouchKeys :
    IsKeyEaten(k, at).eaten => HasHandler(DownSession(k, IsKeyEaten(k, at)))

(* "Closed means closed: eat nothing" (KeyEventSink.cpp:109): in direct    *)
(* input no key is taken, widened, or used to settle text.                 *)
ClosedMeansClosed(at) ==
  ~at.open => \A k \in Keys :
    /\ IsKeyEaten(k, at).eaten => k \in TouchKeys
    /\ TestSession(IsKeyEaten(k, at)) = NoSession

(* A key-up is never taken when the key-down went to the application: the  *)
(* stateless path agrees with the one that fills the keystroke state.      *)
UpFollowsDown(at) ==
  \A k \in Keys : IsKeyUpEaten(k, at) => IsKeyEaten(k, at).eaten

(* Kana can always be typed: with the keyboard open, a letter or the       *)
(* long-vowel key spells, whatever is on screen.                           *)
LettersAlwaysSpell(at) ==
  at.open /\ ~at.disabled => \A k \in Keystrokes :
    IsKeyEaten(k, at).fn \in {"input", "finalizeCandidateListAndInput"}

(* A key is the text service's or the application's, down and up, never    *)
(* half of each and never nobody's.                                        *)
SoundSituations ==
  {at \in Situations : EatenKeysAreHandled(at) /\ ClosedMeansClosed(at)
                         /\ UpFollowsDown(at) /\ LettersAlwaysSpell(at)}
=============================================================================
