\* The letters of "sannin".
SPECIFICATION KanaSpec
CONSTANTS
  Strokes = {"s", "a", "n", "i"}
  MaxStrokes = 6
INVARIANTS
  TypedAsWhole
CHECK_DEADLOCK FALSE
