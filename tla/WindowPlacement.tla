--------------------------- MODULE WindowPlacement ---------------------------
(***************************************************************************)
(* Where the candidate window goes when the text under it has moved        *)
(* (BaseWindow.cpp, called by _LayoutChangeNotification of                 *)
(* CandidateListUIPresenter.cpp): below the text, above it where there is  *)
(* no room below, or against an edge of the work area of its monitor.      *)
(***************************************************************************)
EXTENDS Integers, Sequences

CONSTANTS
  WorkAreas,    \* of the monitors, as rectangles
  Sizes,        \* the widths and heights a window may have
  Coordinates,  \* where text may be
  Border        \* the width of a window's border

ASSUME PlacementAssumption ==
  /\ Coordinates \subseteq Int /\ Sizes \subseteq Nat
  /\ WorkAreas \subseteq [left : Int, top : Int, right : Int, bottom : Int]
  /\ Coordinates # {} /\ Sizes # {} /\ WorkAreas # {} /\ Border \in Nat

Rect(left, top, right, bottom) ==
  [left |-> left, top |-> top, right |-> right, bottom |-> bottom]

OffsetRect(r, x, y) == Rect(r.left + x, r.top + y, r.right + x, r.bottom + y)

Width(r)  == r.right - r.left
Height(r) == r.bottom - r.top

Inside(bounds, r) ==
  /\ bounds.left <= r.left /\ r.right <= bounds.right
  /\ bounds.top <= r.top /\ r.bottom <= bounds.bottom

\* Over one edge, over both, or over none of the two of a direction.
Over(low, high, from, to, flag) ==
  {f \in {flag.both, flag.low, flag.high} :
    /\ f = flag.both => from < low /\ to > high
    /\ f = flag.low  => from < low /\ to <= high
    /\ f = flag.high => from >= low /\ to > high}

\* Empty for RECT_INSIDE.
RectInRect(bounds, r) ==
  Over(bounds.left, bounds.right, r.left, r.right,
       [both |-> "tooWide", low |-> "overLeft", high |-> "overRight"])
    \union Over(bounds.top, bounds.bottom, r.top, r.bottom,
                [both |-> "tooTall", low |-> "overTop", high |-> "overBottom"])

\* The edges with which a rectangle is taken.
Fits(edges) ==
  /\ edges \cap {"overTop", "overBottom"} = {}
  /\ edges = {} \/ edges \cap {"overLeft", "overRight"} # {}

Below(text, window) == OffsetRect(window, text.left, text.bottom)
Above(text, window) == OffsetRect(window, text.left, text.top - Height(window))

\* Against the edges of the work area; what is over the left or the top of it
\* goes to the edge of the first monitor.
DockedLeft(edges, area, window, left) ==
  IF "overLeft" \in edges THEN 0
  ELSE IF "overRight" \in edges THEN area.right - Width(window) ELSE left

DockedTop(edges, area, window) ==
  IF "overTop" \in edges THEN 0 ELSE area.bottom - Height(window)

\* Mutant: nothing is moved away from an edge beside the text.
CalcPointBeside(text, area, window) ==
  LET below == Below(text, window)
      above == Above(text, window)
      edges == RectInRect(area, below)
  IN IF Fits(edges) THEN [x |-> text.left, y |-> below.top]
     ELSE IF Fits(RectInRect(area, above)) THEN [x |-> text.left, y |-> above.top]
     ELSE [x |-> DockedLeft(edges, area, window, text.left),
           y |-> DockedTop(edges, area, window)]

\* Mutant: the window is put above by the height of the text.
CalcPointCovering(text, area, window) ==
  LET below == Below(text, window)
      above == OffsetRect(window, text.left, text.top - Height(text))
      under == RectInRect(area, below)
      over  == RectInRect(area, above)
      Left(edges) == DockedLeft(edges, area, window, text.left)
  IN IF Fits(under)     THEN [x |-> Left(under), y |-> below.top]
     ELSE IF Fits(over) THEN [x |-> Left(over), y |-> above.top]
     ELSE [x |-> Left(under), y |-> DockedTop(under, area, window)]

CalcFitPointAroundTextExtent(text, area, window) ==
  LET below == Below(text, window)
      above == Above(text, window)
      under == RectInRect(area, below)
      over  == RectInRect(area, above)
      Left(edges) == DockedLeft(edges, area, window, text.left)
  IN IF Fits(under)     THEN [x |-> Left(under), y |-> below.top]
     ELSE IF Fits(over) THEN [x |-> Left(over), y |-> above.top]
     ELSE [x |-> Left(under), y |-> DockedTop(under, area, window)]

\* Where a window ends up whose client area has this size.
Placed(text, area, window, border) ==
  LET point == CalcFitPointAroundTextExtent(text, area, window)
      whole == Rect(0, 0, window.right + 2 * border, window.bottom + 2 * border)
  IN OffsetRect(whole, point.x, point.y)

-----------------------------------------------------------------------------
VARIABLE placing    \* the text, its monitor, the client area of the window

TextExtents == {Rect(x, y, x + w, y + h) : x, y \in Coordinates, w, h \in Sizes}

Windows == {Rect(0, 0, w, h) : w, h \in Sizes}

\* Only a window that GDI draws has a border.
Layouts == [text : TextExtents, area : WorkAreas, window : Windows, border : {0, Border}]

PlacingInit == placing = CHOOSE layout \in Layouts : TRUE

\* The text moves on, or is another; the window grows and shrinks with the
\* list; the application goes to another monitor; another window is created.
LayoutChange ==
  \/ \E x, y \in -1..1 : placing' = [placing EXCEPT !.text = OffsetRect(@, x, y)]
  \/ \E text \in {t \in TextExtents : t.left = placing.text.left /\ t.top = placing.text.top} :
       placing' = [placing EXCEPT !.text = text]
  \/ \E window \in Windows : placing' = [placing EXCEPT !.window = window]
  \/ \E area \in WorkAreas : placing' = [placing EXCEPT !.area = area]
  \/ \E border \in {0, Border} : placing' = [placing EXCEPT !.border = border]

PlacingStep == LayoutChange /\ placing'.text \in TextExtents

NoPlacing == UNCHANGED placing

PlacingTypeOK == placing \in Layouts

\* Where the window is then.
Window == Placed(placing.text, placing.area, placing.window, placing.border)

\* Larger to the right and below; a window has a border on both sides.
Extended(r, by) == Rect(r.left, r.top, r.right + by, r.bottom + by)
Borders == 2 * placing.border

Covers(r, s) ==
  r.left < s.right /\ s.left < r.right /\ r.top < s.bottom /\ s.top < r.bottom

(* The window is inside the work area of the monitor its text is on, up to *)
(* the width of its borders, and, on the first monitor, also when the text *)
(* has been moved off the screen.                                          *)
PlacedOnMonitor ==
  LET area == placing.area
      text == placing.text
  IN /\ Width(placing.window) <= Width(area) /\ Height(placing.window) <= Height(area)
     /\ \/ area.left = 0 /\ area.top = 0
        \/ area.left <= text.left /\ area.top <= text.top
     => Inside(Extended(area, Borders), Window)

(* A window no wider than the work area covers the text, but for the width *)
(* of its borders, only where there is room for it neither below nor above.*)
TextUncovered ==
  LET area == placing.area
      text == placing.text
      high == Height(placing.window)
  IN /\ Width(placing.window) <= Width(area)
     /\ \/ text.bottom + high <= area.bottom /\ area.top <= text.bottom
        \/ area.top <= text.top - high /\ text.top <= area.bottom
     => ~Covers(text, Extended(Window, -Borders))

(* The window is beside the text and on its monitor wherever it can be.    *)
PlacedBesideText == PlacedOnMonitor /\ TextUncovered
=============================================================================
