--------------------------- MODULE MCTextService ----------------------------
(* The hosts TLC runs the text service in.                                 *)
EXTENDS TextService

\* TSF grants the sessions later than the keys were understood.
Deferring ==
  [keys    |-> {"letter", "space", "enter", "escape", "back", "down", "digit",
                "shiftLetter"},
   events  |-> {"click", "openClose"}, refuses |-> {},
   n       |-> {2}, effects |-> Effects,
   spelled |-> 3, waits |-> 2, written |-> 3]

\* Every session runs before the next key; some compositions will not end.
Stubborn ==
  [keys    |-> {"letter", "space", "enter", "escape", "back", "down", "left",
                "digit", "shiftLetter", "minus", "wild", "next", "ctrlLetter"},
   events  |-> {"openClose"}, refuses |-> {"end"},
   n       |-> {2}, effects |-> {"goesOn", "syllable", "closes", "stray"},
   spelled |-> 4, waits |-> 1, written |-> 4]

\* Everything that may happen, in any order, and every refusal.
Turmoil ==
  [keys    |-> {"letter", "space", "enter", "back", "down", "digit", "mark"},
   events  |-> AllEvents, refuses |-> AllRefusals,
   n       |-> {}, effects |-> {"goesOn", "syllable"},
   spelled |-> 2, waits |-> 2, written |-> 2]

\* The caret leaves the composition while sessions wait.
Wandering ==
  [keys    |-> {"letter", "space", "back", "down"},
   events  |-> {"caret", "terminated", "layoutDestroyed"}, refuses |-> {"end"},
   n       |-> {}, effects |-> {"syllable"},
   spelled |-> 2, waits |-> 2, written |-> 2]

MCHosts == {Deferring, Stubborn, Wandering, Turmoil}
=============================================================================
