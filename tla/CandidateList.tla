--------------------------- MODULE CandidateList ----------------------------
(***************************************************************************)
(* The candidate window's selection, its pages and its scroll bar          *)
(* (CandidateWindow.cpp, ScrollBarWindow.cpp, BaseWindow.cpp), driven by   *)
(* the arrow keys, the digits, the mouse, the paint messages and, where    *)
(* the application draws the list itself, by that application              *)
(* (CandidateListUIPresenter.cpp).                                         *)
(*                                                                         *)
(* list is what CCandidateWindow holds.  Candidates are numbered from 0,   *)
(* as in the code; pages is _PageIndex, the first candidate of every page. *)
(* Painting may move the pages, so what a digit means depends on what has  *)
(* been painted: seen is what the person, or the application, has in front *)
(* of them.  The text of the candidates is left out.                       *)
(***************************************************************************)
EXTENDS Integers, Sequences

CONSTANTS
  PageSize,       \* entries of _pIndexRange: the digits a candidate is picked by
  MaxCount        \* bound: candidates in a list

ASSUME CandidateListAssumption ==
  PageSize \in Nat \ {0} /\ MaxCount \in Nat

VARIABLES
  list,           \* see CandidateWindow
  pick            \* the last pick, see Picks

listVars == <<list, pick>>

\* bound: MaxIndex stands for the largest UINT, which no digit reaches.
MaxIndex == MaxCount + 2 * PageSize
Indices  == 0..MaxIndex

CandidateWindow ==
  [count    : 0..MaxCount,        \* _candidateList.Count()
   sel      : Indices,            \* _currentSelection
   pages    : Seq(Indices),       \* _PageIndex
   sticky   : BOOLEAN,            \* _dontAdjustOnEmptyItemPage
   store    : BOOLEAN,            \* store app: a real scroll bar
   show     : BOOLEAN,            \* _isShowMode: drawn by the service
   dirty    : BOOLEAN,            \* a paint message is due
   seen     : [first : Indices, sel : Indices],
   pos      : 0..MaxCount,        \* _scrollInfo.nPos
   capture  : {"none", "bar", "up", "down"},   \* _pUIObjCapture
   timer    : {"none", "up", "down"}]          \* _pTimerUIObj

\* _MakeCandidateWindow and _ClearList leave no candidates and no pages.
Empty(store, show) ==
  [count |-> 0, sel |-> 0, pages |-> <<>>, sticky |-> FALSE, store |-> store,
   show |-> show, dirty |-> FALSE, seen |-> [first |-> 0, sel |-> 0],
   pos |-> 0, capture |-> "none", timer |-> "none"]

Picks ==
  [seen  : Indices,    \* the candidate the person picks, as it is on screen
   taken : Indices,    \* the one the handler takes; 0 until it runs
   waits : BOOLEAN,    \* a click waits for its session
   moved : BOOLEAN]    \* history: the selection was moved, or a row picked
                       \* unseen, while a click waited

NoPick == [seen |-> 0, taken |-> 0, waits |-> FALSE, moved |-> FALSE]

Smaller(a, b) == IF a < b THEN a ELSE b
Larger(a, b)  == IF a > b THEN a ELSE b

-----------------------------------------------------------------------------
(* Pages.                                                                  *)

\* The last page that does not begin after the selection; 0 without pages.
GetCurrentPage(w) ==
  IF w.pages = <<>> THEN 0
  ELSE CHOOSE i \in DOMAIN w.pages :
         /\ i < Len(w.pages) => w.pages[i + 1] > w.sel
         /\ \A j \in 2..i : w.pages[j] <= w.sel

First(w) == w.pages[GetCurrentPage(w)]

\* Mutant: one page too few when there are pages after the selection.
NewPageCountShort(w) ==
  LET before == w.sel > 0
      after  == w.count > w.sel + PageSize
  IN IF before
     THEN IF after THEN (w.count - 2) \div PageSize + 1 ELSE 1 + (w.sel - 1) \div PageSize
     ELSE IF after THEN (w.count - 1) \div PageSize + 1 ELSE 1

NewPageCount(w) ==
  LET before == w.sel > 0
      after  == w.count > w.sel + PageSize
  IN IF before
     THEN IF after THEN (w.count - 2) \div PageSize + 2 ELSE 2 + (w.sel - 1) \div PageSize
     ELSE IF after THEN (w.count - 1) \div PageSize + 1 ELSE 1

(* A page begins at the selection, and the pages before and after are full.*)
AdjustPageIndexForSelection(w) ==
  LET rest == w.sel % PageSize
  IN IF w.count < PageSize THEN w
     ELSE [w EXCEPT !.pages = [i \in 1..NewPageCount(w) |->
             IF i = 1 THEN 0
             ELSE IF rest = 0 THEN (i - 1) * PageSize
                              ELSE rest + (i - 2) * PageSize]]

\* count - PageSize is unsigned: a list shorter than a page has no such page.
CurrentPageHasEmptyItems(w) ==
  LET page == GetCurrentPage(w)
  IN /\ page \in {1, Len(w.pages)} \ {0}
     /\ w.count >= PageSize
     /\ w.pages[page] > w.count - PageSize

(* Painting fills the last page, unless a move has made its gap stay.      *)
AdjustPageIndex(w) ==
  LET refilled(sel) ==
        [AdjustPageIndexForSelection([w EXCEPT !.sel = sel]) EXCEPT
            !.sel = w.sel, !.sticky = FALSE]
  IN IF ~CurrentPageHasEmptyItems(w) \/ w.sticky THEN w
     ELSE IF GetCurrentPage(w) = Len(w.pages) THEN refilled(w.count - PageSize)
     ELSE IF First(w) < PageSize              THEN refilled(0)
     ELSE [w EXCEPT !.sticky = FALSE]

-----------------------------------------------------------------------------
(* Moves without the scroll bar.  A move that returns FALSE is absent.     *)

InList(w, i) == i \in 0..(w.count - 1)

SetSelectionOffset(w, offset) ==
  LET moved   == w.sel + offset
      special == CurrentPageHasEmptyItems(w) /\ Len(w.pages) > 1
      next    == [w EXCEPT !.sel = moved, !.sticky = @ \/ special]
  IN IF ~InList(w, moved) THEN w
     ELSE IF special /\ moved >= w.pages[Len(w.pages)] THEN next
     ELSE AdjustPageIndexForSelection(next)

MovablePage(w, offset) == GetCurrentPage(w) + offset \in DOMAIN w.pages
                          /\ GetCurrentPage(w) > 0

MovePageQuietly(w, offset) ==
  LET target == w.pages[GetCurrentPage(w) + offset] + (w.sel - First(w))
  IN IF ~MovablePage(w, offset) THEN w
     ELSE [w EXCEPT !.sel    = Smaller(target, w.count - 1),
                    !.sticky = @ \/ (w.sel % PageSize = 0 /\ w.sel = First(w))]

SelectQuietly(w, i) ==
  IF InList(w, i) THEN AdjustPageIndexForSelection([w EXCEPT !.sel = i]) ELSE w

-----------------------------------------------------------------------------
(* The scroll bar.  Without a store app it is CScrollBarNullWindow, which  *)
(* does nothing.                                                           *)

InvalidateRect(w) == [w EXCEPT !.dirty = TRUE]

\* The codes of WM_VSCROLL; any other comes with a position.
Lines == {"lineUp", "lineDown"}
Pages == {"pageUp", "pageDown"}

Direction(code) == IF code \in {"lineUp", "pageUp"} THEN -1 ELSE 1

LineCode(offset) == IF offset > 0 THEN "lineDown" ELSE "lineUp"
PageCode(offset) == IF offset > 0 THEN "pageDown" ELSE "pageUp"

OnVScroll(w, code, pos) ==
  InvalidateRect(IF code \in Lines      THEN SetSelectionOffset(w, Direction(code))
                 ELSE IF code \in Pages THEN MovePageQuietly(w, Direction(code))
                 ELSE SelectQuietly(w, pos))

\* Mutant: the position is not kept in its range.
SetCurPosUnclamped(w, pos, code) ==
  IF ~w.store THEN w
  ELSE IF (w.capture # "none" /\ code # "none") \/ code = "thumb"
  THEN OnVScroll([w EXCEPT !.pos = pos], code, pos)
  ELSE [w EXCEPT !.pos = pos]

\* The window hears of a move while the mouse is captured, and of a thumb
\* position always; code "none" is -1.
SetCurPos(w, pos, code) ==
  LET most  == Larger(w.count - PageSize, 0)
      moved == [w EXCEPT !.pos = Larger(Smaller(pos, most), 0)]
  IN IF ~w.store THEN w
     ELSE IF (w.capture # "none" /\ code # "none") \/ code = "thumb"
     THEN OnVScroll(moved, code, moved.pos)
     ELSE moved

\* An unsigned sum.
Shifted(w, offset) == IF w.sel + offset > MaxIndex THEN 0 ELSE w.sel + offset

MoveSelection(w, offset) ==
  IF ~InList(w, Shifted(w, offset)) THEN w
  ELSE SetCurPos([w EXCEPT !.sel = Shifted(w, offset), !.sticky = TRUE],
                 w.pos + offset, LineCode(offset))

MovePage(w, offset) ==
  IF ~MovablePage(w, offset) THEN w
  ELSE SetCurPos(MovePageQuietly(w, offset), w.pos + PageSize * offset,
                 PageCode(offset))

SetSelection(w, i) ==
  LET index == IF i = -1 THEN w.count - 1 ELSE i
  IN IF InList(w, index) THEN SetCurPos(SelectQuietly(w, index), index, "thumb") ELSE w

-----------------------------------------------------------------------------
(* The presenter: after a move that was made the list is painted again, or *)
(* the application that draws it is told which of its data to read again.  *)

\* Mutant: the application is not told of the selection.
AnnounceNothing(w, moved, flags) == IF moved /\ w.show THEN InvalidateRect(w) ELSE w

Announce(w, moved, flags) ==
  IF ~moved THEN w ELSE IF w.show THEN InvalidateRect(w)
  ELSE [w EXCEPT !.seen = [first |-> IF "page" \in flags THEN First(w) ELSE @.first,
                           sel   |-> w.sel]]

Arrows == {"up", "down", "pageUp", "pageDown", "top", "bottom"}

AdviseUIChangedByArrowKey(w, arrow) ==
  LET d == IF arrow \in {"up", "pageUp"} THEN -1 ELSE 1
  IN IF arrow \in {"up", "down"}
     THEN Announce(MoveSelection(w, d), InList(w, Shifted(w, d)), {"sel"})
     ELSE IF arrow \in {"pageUp", "pageDown"}
     THEN Announce(MovePage(w, d), MovablePage(w, d), {"sel", "page"})
     ELSE Announce(SetSelection(w, IF arrow = "top" THEN 0 ELSE -1), w.count > 0,
                   {"sel", "page"})

\* Mutant: painted with the first candidate found before the pages moved.
PaintWithOldFirst(w) ==
  LET adjusted == AdjustPageIndex(w)
  IN IF w.pages = <<>> THEN [w EXCEPT !.dirty = FALSE]
     ELSE [adjusted EXCEPT !.dirty = FALSE,
                           !.seen = [first |-> First(w), sel |-> w.sel]]

(* _OnPaint.  Where Direct2D fails after it has adjusted the pages, GDI    *)
(* adjusts them a second time.                                             *)
OnPaint(w) ==
  LET adjusted == AdjustPageIndex(w)
  IN IF w.pages = <<>> THEN [w EXCEPT !.dirty = FALSE]
     ELSE [adjusted EXCEPT !.dirty = FALSE,
                           !.seen = [first |-> First(adjusted), sel |-> w.sel]]

-----------------------------------------------------------------------------
(* Actions.                                                                *)

(* While a click waits for its session, what that will take may change:    *)
(* whatever moves the selection, or makes another list, says so.           *)
Stirred == [seen |-> 0, taken |-> 0, waits |-> pick.waits, moved |-> pick.waits]

\* What the person takes a row, or the selection, for: what is painted there.
SeenAt(row, index) == IF list.show /\ ~list.dirty THEN list.seen.first + row ELSE index
SeenSelected == IF list.show /\ list.dirty THEN list.sel ELSE list.seen.sel

(* A handler takes the candidate at once; what is on screen while a click  *)
(* waits has not been painted since.                                       *)
Picked(seen, index) ==
  [seen |-> seen, taken |-> index, waits |-> pick.waits, moved |-> pick.waits]

Waiting(seen) == [seen |-> seen, taken |-> 0, waits |-> TRUE, moved |-> pick.waits]

(* A conversion fills a new window.                                        *)
SetText(n) ==
  LET starts == [i \in 1..(n \div PageSize + 1) |-> (i - 1) * PageSize]
  IN /\ list.pages = <<>> /\ n > 0
     /\ list' = Announce([list EXCEPT !.count = n, !.pages = starts, !.pos = 0],
                         TRUE, {"sel", "page"})
     /\ pick' = Stirred

(* A letter typed over the list empties it; the window stays.              *)
ClearList ==
  /\ list' = [list EXCEPT !.count = 0, !.sel = 0, !.pages = <<>>, !.dirty = TRUE]
  /\ pick' = Stirred

Arrow(arrow) ==
  /\ list' = AdviseUIChangedByArrowKey(list, arrow)
  /\ pick' = Stirred

\* Mutant: the row counts from the first candidate, not from the page's.
DigitOfList(row) ==
  /\ row < list.count /\ list.pages # <<>>
  /\ pick' = Picked(SeenAt(row, row), row) /\ list' = Empty(list.store, list.show)

(* _SetSelectionInPage looks at the row alone: on the last page a row past *)
(* the end is selected and nothing is taken.  Any other ends the list.     *)
Digit(row) ==
  LET index == First(list) + row
  IN /\ row < list.count /\ list.pages # <<>>
     /\ IF index < list.count
        THEN pick' = Picked(SeenAt(row, index), index) /\ list' = Empty(list.store, list.show)
        ELSE pick' = Stirred /\ list' = [list EXCEPT !.sel = index]

(* Enter, or the application's Finalize, takes what is selected, if that   *)
(* is a candidate, and ends the list.                                      *)
Finalize ==
  /\ list.pages # <<>> /\ list' = Empty(list.store, list.show)
  /\ pick' = IF InList(list, list.sel) THEN Picked(SeenSelected, list.sel) ELSE Stirred

\* Mutant: the row is selected only once its session runs.
ClickRowLater(row) ==
  LET index == First(list) + row
  IN /\ list.show /\ list.pages # <<>> /\ index < list.count
     /\ \/ pick' = Picked(SeenAt(row, index), index) /\ list' = Empty(list.store, list.show)
        \/ pick' = Waiting(SeenAt(row, index)) /\ UNCHANGED list

(* _OnLButtonDown on a row: the list ends, or TSF denies the session for   *)
(* now.  Nothing is painted anew.                                          *)
ClickRow(row) ==
  LET index == First(list) + row
  IN /\ list.show /\ list.pages # <<>> /\ index < list.count
     /\ \/ pick' = Picked(SeenAt(row, index), index) /\ list' = Empty(list.store, list.show)
        \/ pick' = Waiting(SeenAt(row, index)) /\ list' = [list EXCEPT !.sel = index]

(* The session that waited takes what is selected by then, of the list     *)
(* there is by then.                                                       *)
FinishClick ==
  /\ pick.waits
  /\ list' = Empty(list.store, list.show)
  /\ pick' = IF InList(list, list.sel) THEN [pick EXCEPT !.taken = list.sel, !.waits = FALSE]
                                       ELSE NoPick

(* _OnLButtonDown in the scroll bar: outside its buttons nothing scrolls.  *)
PressBar ==
  /\ list.store /\ list.show /\ list.capture = "none"
  /\ list' = [list EXCEPT !.capture = "bar"]
  /\ UNCHANGED pick

ScrollLine(w, button) ==
  LET d == IF button = "up" THEN -1 ELSE 1
  IN SetCurPos(OnVScroll(w, LineCode(d), 0), w.pos + d, "none")

PressButton(button) ==
  /\ list.store /\ list.show /\ list.capture = "none"
  /\ list' = [ScrollLine([list EXCEPT !.capture = button], button) EXCEPT !.timer = button]
  /\ pick' = Stirred

(* _OnTimer: the button repeats while the pointer is over it.              *)
OnTimer ==
  /\ list.timer # "none"
  /\ list' = ScrollLine(list, list.timer)
  /\ pick' = Stirred

OnLButtonUp ==
  /\ list.capture # "none"
  /\ list' = [list EXCEPT !.capture = "none", !.timer = "none"]
  /\ UNCHANGED pick

Paint ==
  /\ list.show
  /\ list' = OnPaint(list)
  /\ UNCHANGED pick

(* The application that draws the list pages it as many rows at a time as  *)
(* it shows, and selects whatever index it names.                          *)
SetPageIndex(rows) ==
  /\ ~list.show /\ list.count > 0
  /\ list' = [list EXCEPT !.pages = [i \in 1..((list.count - 1) \div rows + 1)
                                       |-> (i - 1) * rows]]
  /\ UNCHANGED pick

AppSetSelection(i) ==
  /\ ~list.show /\ list.count > 0
  /\ list' = [list EXCEPT !.sel = i, !.seen.sel = i]
  /\ pick' = Stirred

-----------------------------------------------------------------------------
ListInit == \E store, show \in BOOLEAN : list = Empty(store, show) /\ pick = NoPick

\* What takes a candidate, or tries to.
ListPick ==
  \/ \E row \in 0..(PageSize - 1) : Digit(row) \/ ClickRow(row)
  \/ Finalize \/ FinishClick

ListMove ==
  \/ \E n \in 1..MaxCount : SetText(n)
  \/ ClearList
  \/ \E arrow \in Arrows : Arrow(arrow)
  \/ PressBar
  \/ \E button \in {"up", "down"} : PressButton(button)
  \/ OnTimer
  \/ OnLButtonUp
  \/ Paint
  \/ \E rows \in 1..PageSize : SetPageIndex(rows)
  \/ \E i \in Indices : AppSetSelection(i)

ListNext == ListPick \/ ListMove

ListSpec == ListInit /\ [][ListNext]_listVars

-----------------------------------------------------------------------------
Stray(w) == w.count > 0 /\ w.sel >= w.count

ListTypeOK ==
  /\ list \in CandidateWindow
  /\ pick \in Picks

(* However pages are cut, by a conversion, a move, a scroll or a paint,    *)
(* every candidate is on one: the first page begins the list, a page begins*)
(* within reach of the one before, and the last reaches the end.           *)
PagesCover ==
  list.count > 0 =>
    /\ list.pages # <<>> /\ list.pages[1] = 0
    /\ \A i \in 1..(Len(list.pages) - 1) :
         list.pages[i + 1] - list.pages[i] \in 1..PageSize
    /\ list.count <= list.pages[Len(list.pages)] + PageSize

(* The selected candidate is among those the current page shows: it never  *)
(* leaves the screen.                                                      *)
SelectionOnPage ==
  list.count > 0 /\ ~Stray(list) =>
    list.sel - First(list) \in 0..(PageSize - 1)

(* With no paint message due and no click waiting, what is on screen is    *)
(* what a digit or a click would be read against.                          *)
PaintedIsCurrent ==
  list.show /\ ~list.dirty /\ list.count > 0 /\ ~pick.waits =>
    /\ list.seen.first = First(list)
    /\ Stray(list) \/ list.seen.sel = list.sel

(* The candidate taken, by a digit, by Enter or by a click, at once or     *)
(* when its session comes, is the one that was seen there - unless the     *)
(* selection was moved on while the click waited.                          *)
PickIsSeen == ~pick.waits /\ ~pick.moved => pick.seen = pick.taken

(* An application that draws the list itself knows what is selected.       *)
HostSeesSelection ==
  ~list.show /\ list.count > 0 /\ ~Stray(list) => list.seen.sel = list.sel

(* However it moves, the selection is one of the candidates that are shown.*)
SelectionIsShown == PagesCover /\ SelectionOnPage /\ HostSeesSelection

(* What is taken is what was seen, and what is seen is current.            *)
TakenIsSeen == PaintedIsCurrent /\ PickIsSeen

(* The person takes what is shown, and the selection is among it.          *)
ListIsTrue == SelectionIsShown /\ TakenIsSeen
=============================================================================
