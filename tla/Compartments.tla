---------------------------- MODULE Compartments -----------------------------
(***************************************************************************)
(* The input mode (CompositionProcessorEngine.cpp, Compartment.cpp,        *)
(* LanguageBar.cpp): three compartments of the thread say whether the      *)
(* keyboard is open, wide and punctuating, and a fourth, the conversion    *)
(* mode, repeats each as a bit.  The engine listens to all four and makes  *)
(* the others follow the one that changed; three buttons of the language   *)
(* bar show the first three and flip them.                                 *)
(*                                                                         *)
(* SetValue calls the listeners before it returns, so that a callback that *)
(* writes is interrupted by the callbacks of what it writes, and goes on   *)
(* with the conversion mode it read before them.  calls is the stack of    *)
(* callbacks of the engine.  External, of TSF: SetValue of a compartment   *)
(* from inside its own notification is documented to be refused; the model *)
(* has both, a TSF that refuses and one that does not.  Clearing a         *)
(* compartment may notify or not.                                          *)
(***************************************************************************)
EXTENDS Integers, Sequences, FiniteSets

\* OPENCLOSE and NATIVE, DoubleSingleByte and FULLSHAPE, Punctuation and SYMBOL.
Bits == {"open", "width", "punct"}
Conversion == "conversion"

VARIABLES
  flags,          \* the compartments of the three modes; empty reads as FALSE
  conv,           \* the bits set in the conversion mode
  calls,          \* the engine's callbacks under way, the innermost last
  stage,          \* of the engine: "down", "up", or "closing", in its destructor
  closing,        \* buttons its destructor has yet to clean up
  buttons,        \* see LangBarItemButtons
  refuses,        \* whether TSF refuses a write from inside a notification
  wish,           \* history: the last value asked for from outside
  agreed          \* history: bits something has been written to since Setup

modeVars == <<flags, conv, calls, stage, closing, buttons, refuses,
              wish, agreed>>

Flags  == [Bits -> BOOLEAN]
NoWish == [of |-> "nothing"]

Wishes == {NoWish} \union [of : Bits, is : BOOLEAN]
            \union [of : {Conversion}, is : SUBSET Bits]

Frames ==
  [of   : Bits \union {Conversion},   \* the compartment that changed
   read : SUBSET Bits,                \* conversionMode, a local variable
   todo : Seq(Bits)]                  \* modes the callback has yet to look at

LangBarItemButtons ==
  [added    : SUBSET Bits,    \* _AddItem and _RegisterCompartment succeeded
   sink     : SUBSET Bits,    \* _pLangBarItemSink is set
   asked    : SUBSET Bits,    \* the language bar has the present icon
   icon     : Flags,          \* and what that icon says
   disabled : BOOLEAN]        \* TF_LBI_STATUS_DISABLED, of all three

NoButtons == [added |-> {}, sink |-> {}, asked |-> {},
              icon |-> [b \in Bits |-> FALSE], disabled |-> FALSE]

-----------------------------------------------------------------------------
(* The language bar.                                                       *)

\* OnUpdate tells the language bar to ask again, if it listens.
OnUpdate(btns, changed) == [btns EXCEPT !.asked = @ \ (changed \intersect btns.sink)]

\* Mutant: nobody is told.
SetStatusQuietly(btns, set) == [btns EXCEPT !.disabled = set]

SetStatus(btns, set) ==
  IF btns.disabled = set THEN btns
  ELSE OnUpdate([btns EXCEPT !.disabled = set], Bits)

GetIcon(b) == flags[b] /\ ~buttons.disabled

-----------------------------------------------------------------------------
(* Writing a compartment: the button of a mode hears of it, then the       *)
(* engine.                                                                 *)

Frame(c, mode) ==
  [of |-> c, read |-> mode,
   todo |-> IF c = Conversion THEN <<"width", "punct", "open">> ELSE <<c>>]

Refused(c) == refuses /\ \E i \in DOMAIN calls : calls[i].of = c

Call(frames, c, mode) ==
  IF stage = "down" THEN frames ELSE Append(frames, Frame(c, mode))

\* frames: the stack as it is when the call is made.
SetFlag(frames, b, value) ==
  /\ IF Refused(b)
     THEN calls' = frames /\ UNCHANGED <<flags, buttons>>
     ELSE /\ flags' = [flags EXCEPT ![b] = value]
          /\ buttons' = OnUpdate(buttons, {b} \intersect buttons.added)
          /\ calls' = Call(frames, b, conv)
  /\ UNCHANGED conv

SetConversion(frames, mode) ==
  /\ IF Refused(Conversion)
     THEN calls' = frames /\ UNCHANGED conv
     ELSE conv' = mode /\ calls' = Call(frames, Conversion, mode)
  /\ UNCHANGED <<flags, buttons>>

-----------------------------------------------------------------------------
(* The callbacks.  The frame stays on the stack while what it writes is    *)
(* being told.                                                             *)

Top    == calls[Len(calls)]
Bottom == SubSeq(calls, 1, Len(calls) - 1)
Passed == Append(Bottom, [Top EXCEPT !.todo = Tail(@)])

Following(mode, b) == IF flags[b] THEN mode \union {b} ELSE mode \ {b}

Write(mode) ==
  IF mode = conv THEN calls' = Passed /\ UNCHANGED <<flags, conv, buttons>>
                 ELSE SetConversion(Passed, mode)

\* Mutant: the width is compared twice.
PrivateCompartmentUpdatedTwice ==
  /\ Top.of \in {"width", "punct"} /\ Top.todo # <<>>
  /\ Write(Following(Following(conv, "width"), "width"))

PrivateCompartmentsUpdated ==
  /\ Top.of \in {"width", "punct"} /\ Top.todo # <<>>
  /\ Write(Following(Following(conv, "width"), "punct"))

\* Mutant: the bit is flipped, whatever the compartment says.
KeyboardOpenCompartmentFlips ==
  /\ Top.of = "open" /\ Top.todo # <<>>
  /\ Write(IF "open" \in conv THEN conv \ {"open"} ELSE conv \union {"open"})

KeyboardOpenCompartmentUpdated ==
  /\ Top.of = "open" /\ Top.todo # <<>>
  /\ Write(Following(conv, "open"))

\* Mutant: only what is to be switched on is written.
ConversionModeSwitchesOn ==
  LET b == Head(Top.todo)
  IN /\ Top.of = Conversion /\ Top.todo # <<>>
     /\ IF b \in Top.read /\ ~flags[b]
        THEN SetFlag(Passed, b, TRUE)
        ELSE calls' = Passed /\ UNCHANGED <<flags, conv, buttons>>

(* One mode of the three, by the conversion mode read at the start.        *)
ConversionModeCompartmentUpdated ==
  LET b == Head(Top.todo)
  IN /\ Top.of = Conversion /\ Top.todo # <<>>
     /\ IF flags[b] # (b \in Top.read)
        THEN SetFlag(Passed, b, b \in Top.read)
        ELSE calls' = Passed /\ UNCHANGED <<flags, conv, buttons>>

Return ==
  /\ Top.todo = <<>> /\ calls' = Bottom
  /\ wish' = IF Bottom = <<>> THEN NoWish ELSE wish
  /\ UNCHANGED <<flags, conv, buttons, stage, closing, agreed>>

CompartmentCallback ==
  /\ calls # <<>>
  /\ \/ Return
     \/ /\ \/ PrivateCompartmentsUpdated
           \/ KeyboardOpenCompartmentUpdated
           \/ ConversionModeCompartmentUpdated
        /\ UNCHANGED <<wish, stage, closing, agreed>>

-----------------------------------------------------------------------------
(* From outside, on the same thread.                                       *)

Asked(c, value) == wish' = IF stage = "up" THEN [of |-> c, is |-> value] ELSE NoWish

\* The application, another text service, the touch keyboard.
SetMode(b, value) ==
  /\ calls = <<>> /\ stage # "closing"
  /\ SetFlag(calls, b, value)
  /\ Asked(b, value) /\ agreed' = agreed \union {b}
  /\ UNCHANGED <<stage, closing>>

SetConversionMode(mode) ==
  /\ calls = <<>> /\ stage # "closing"
  /\ SetConversion(calls, mode)
  /\ Asked(Conversion, mode) /\ agreed' = Bits
  /\ UNCHANGED <<stage, closing>>

\* The keys with a name of their own: Hankaku/Zenkaku, Shift+Space, Ctrl+period.
OnPreservedKey(b) == stage = "up" /\ SetMode(b, ~flags[b])

OnClick(b) == stage = "up" /\ b \in buttons.added /\ SetMode(b, ~flags[b])

\* The language bar asks for an icon, and starts and stops listening.
FetchIcon(b) ==
  /\ b \in buttons.added /\ calls = <<>>
  /\ buttons' = [buttons EXCEPT !.asked = @ \union {b}, !.icon[b] = GetIcon(b)]
  /\ UNCHANGED <<flags, conv, calls, stage, closing, wish, agreed>>

AdviseSink(b) ==
  /\ b \in buttons.added \ buttons.sink
  /\ buttons' = [buttons EXCEPT !.sink = @ \union {b}, !.asked = @ \ {b}]
  /\ UNCHANGED <<flags, conv, calls, stage, closing, wish, agreed>>

UnadviseSink(b) ==
  /\ b \in buttons.sink
  /\ buttons' = [buttons EXCEPT !.sink = @ \ {b}, !.asked = @ \ {b}]
  /\ UNCHANGED <<flags, conv, calls, stage, closing, wish, agreed>>

\* _UpdateLanguageBarOnSetFocus: a document without a context disables them.
UpdateLanguageBarOnSetFocus(hasContext) ==
  /\ stage = "up" /\ calls = <<>>
  /\ buttons' = SetStatus(buttons, ~hasContext)
  /\ UNCHANGED <<flags, conv, calls, stage, closing, wish, agreed>>

-----------------------------------------------------------------------------
(* The engine's life.                                                      *)

InitializeSampleIMECompartment == [b \in Bits |-> b # "width"]

InitLanguageBar(added) == [NoButtons EXCEPT !.added = added]

(* SetupLanguageProfile: the modes get their initial values, the buttons   *)
(* that the language bar accepts are added, and only then the conversion   *)
(* compartment and the sinks exist: the conversion mode is left as it was. *)
Setup(added) ==
  /\ stage = "down"
  /\ flags' = InitializeSampleIMECompartment
  /\ buttons' = InitLanguageBar(added)
  /\ stage' = "up" /\ agreed' = {}
  /\ UNCHANGED <<conv, calls, closing, wish>>

\* ~CCompositionProcessorEngine.
BeginTeardown ==
  /\ stage = "up" /\ calls = <<>>
  /\ stage' = "closing" /\ closing' = <<"open", "width", "punct">>
  /\ UNCHANGED <<flags, conv, calls, buttons, wish, agreed>>

(* The button leaves the language bar and clears its compartment, while    *)
(* the engine still listens.  OPENCLOSE is never cleared.                  *)
CleanUp ==
  /\ stage = "closing" /\ calls = <<>> /\ closing # <<>>
  /\ closing' = Tail(closing)
  /\ LET b       == Head(closing)
         cleared == b \in buttons.added /\ b # "open"
     IN /\ buttons' = [buttons EXCEPT !.added = @ \ {b}, !.sink = @ \ {b},
                                      !.asked = @ \ {b}]
        /\ flags' = IF cleared THEN [flags EXCEPT ![b] = FALSE] ELSE flags
        /\ calls' \in {calls} \union
             (IF cleared THEN {Call(calls, b, conv)} ELSE {})
  /\ UNCHANGED <<conv, stage, wish, agreed>>

(* The sinks are unadvised; then Deactivate clears the compartments: the   *)
(* width twice, the punctuation not at all.                                *)
EndTeardown ==
  /\ stage = "closing" /\ calls = <<>> /\ closing = <<>>
  /\ stage' = "down" /\ agreed' = {}
  /\ flags' = [flags EXCEPT !["width"] = FALSE]
  /\ buttons' = NoButtons
  /\ UNCHANGED <<conv, calls, closing, wish>>

-----------------------------------------------------------------------------
ModeInit ==
  /\ flags \in Flags /\ conv \in SUBSET Bits
  /\ calls = <<>> /\ stage = "down" /\ closing = <<>>
  /\ buttons = NoButtons /\ refuses \in BOOLEAN
  /\ wish = NoWish /\ agreed = {}

\* The language bar and what it shows.
BarNext ==
  \/ \E b \in Bits : FetchIcon(b) \/ AdviseSink(b) \/ UnadviseSink(b)
  \/ \E hasContext \in BOOLEAN : UpdateLanguageBarOnSetFocus(hasContext)

ModeStep ==
  \/ CompartmentCallback
  \/ \E b \in Bits : OnPreservedKey(b) \/ OnClick(b)
  \/ \E b \in Bits, value \in BOOLEAN : SetMode(b, value)
  \/ \E mode \in SUBSET Bits : SetConversionMode(mode)
  \/ BarNext
  \/ \E added \in SUBSET Bits : Setup(added)
  \/ BeginTeardown \/ CleanUp \/ EndTeardown

ModeNext == ModeStep /\ UNCHANGED refuses

ModeSpec == ModeInit /\ [][ModeNext]_modeVars

-----------------------------------------------------------------------------
ModeTypeOK ==
  /\ flags \in Flags /\ conv \in SUBSET Bits
  /\ calls \in Seq(Frames)
  /\ stage \in {"down", "up", "closing"} /\ closing \in Seq(Bits)
  /\ buttons \in LangBarItemButtons
  /\ refuses \in BOOLEAN /\ wish \in Wishes /\ agreed \in SUBSET Bits

(* With nothing left to tell, a mode that something has been written to    *)
(* and its bit of the conversion mode say the same, in whatever order the  *)
(* nested callbacks ran.                                                   *)
ModesAgree ==
  calls = <<>> /\ stage = "up" => \A b \in agreed : flags[b] <=> b \in conv

(* The last value asked for is the one that stays: no callback undoes it   *)
(* with the conversion mode it read too early.                             *)
Granted(w) ==
  /\ w.of = Conversion => conv' = w.is
  /\ w.of \in Bits => flags'[w.of] = w.is

LastWishStays == [][calls # <<>> /\ calls' = <<>> => Granted(wish)]_modeVars

(* Callbacks do not answer each other for ever: the stack never holds the  *)
(* conversion mode a third time.                                           *)
NestingEnds ==
  Cardinality({i \in DOMAIN calls : calls[i].of = Conversion}) <= 2

(* A button the language bar listens to and has asked for shows the mode   *)
(* it stands for, and is shown off in a document without a context.        *)
IconIsTrue ==
  calls = <<>> => \A b \in buttons.asked \intersect buttons.sink :
                    buttons.icon[b] = GetIcon(b)

(* When the callbacks have run, they have ended and everything that shows  *)
(* a mode shows the same.                                                  *)
ModesSettle == ModesAgree /\ NestingEnds /\ IconIsTrue
=============================================================================
