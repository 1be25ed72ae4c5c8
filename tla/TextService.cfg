\* Four applications: one defers sessions, one is prompt but will not end a
\* composition, in one the caret wanders, and in one everything may happen.
SPECIFICATION FairSpec
CONSTANTS
  Hosts <- MCHosts
  MaxTyped = 4
  PRECEDING_TEXT_MAX = 2
INVARIANTS
  TypeOK
  ScreenIsTrue
  LearnedIsRead
  KeysSurvive
  ChoosingHasWindow
  RoutingIsSound
PROPERTIES
  OutsideEnds
  PreeditSpec
CHECK_DEADLOCK FALSE
