-------------------------- MODULE CandidateDrawing ---------------------------
(***************************************************************************)
(* The candidate window as it gets on screen: the window that is made for  *)
(* composition or for GDI (CandidateWindow.cpp), the device stack a        *)
(* composed window is drawn through (CandidateSurface.cpp), the renderer   *)
(* (CandidateRenderer.cpp) and the shadow beside a plain window            *)
(* (ShadowWindow.cpp).                                                     *)
(*                                                                         *)
(* Any call of Direct3D, Direct2D or DirectComposition may fail, one in a  *)
(* paint, and the device may be lost between two paints; from then on what *)
(* was built on it fails until it is built again.                          *)
(***************************************************************************)
EXTENDS Naturals, Sequences

CONSTANT MaxSize    \* bound: how large a window may be

ASSUME DrawingAssumption == MaxSize \in Nat \ {0}

VARIABLE draw       \* see Drawings

\* In the order in which Initialize builds them.
Stack  == <<"d3dDevice", "d2dFactory", "d2dDevice", "d2dContext", "dxgiFactory", "dcompDevice">>
Built  == {Stack[i] : i \in DOMAIN Stack}
Places == 0..1

\* The calls of a paint that may fail beside those of Initialize.
Failures == Built \union {"none", "renderer", "swapChain", "attach", "resize", "bind",
                          "draw", "present", "target", "dc"}

Surfaces ==
  [have     : SUBSET Built,
   chain    : 0..MaxSize,     \* _swapChain: how large its buffers are, 0 if none
   back     : BOOLEAN,        \* _backBuffer
   attached : BOOLEAN,        \* the window shows the swap chain
   width    : 0..MaxSize,     \* _width and _height
   lost     : BOOLEAN]        \* the device was lost since it was built

Shadows ==
  [exists : BOOLEAN, visible : BOOLEAN, gradient : BOOLEAN,
   place : Places, size : 0..MaxSize,
   drawn : 0..MaxSize]        \* the size its picture was drawn for

Drawings ==
  [wnd      : {"none", "plain", "composed"},   \* WS_EX_NOREDIRECTIONBITMAP
   size     : 0..MaxSize, place : Places, visible : BOOLEAN,
   stack    : BOOLEAN,                         \* _pSurface
   surface  : Surfaces,
   renderer : {"none", "ready", "unavailable"},
   target   : BOOLEAN,                         \* the renderer's DC target
   shadow   : Shadows,
   \* history
   said     : BOOLEAN,    \* the last paint was reported drawn
   stale    : BOOLEAN,    \* and its buffers could not be resized
   torn     : BOOLEAN,    \* a paint has failed to attach the window
   misses   : 0..2]       \* paints in a row that showed nothing, none failing

Released ==
  [have |-> {}, chain |-> 0, back |-> FALSE, attached |-> FALSE, width |-> 0, lost |-> FALSE]

NoShadow ==
  [exists |-> FALSE, visible |-> FALSE, gradient |-> TRUE, place |-> 0, size |-> 0, drawn |-> 0]

NoDrawing ==
  [wnd |-> "none", size |-> 0, place |-> 0, visible |-> FALSE, stack |-> FALSE,
   surface |-> Released, renderer |-> "none", target |-> FALSE, shadow |-> NoShadow,
   said |-> FALSE, stale |-> FALSE, torn |-> FALSE, misses |-> 0]

-----------------------------------------------------------------------------
(* CandidateSurface.                                                       *)

AtLeastOne(size) == IF size = 0 THEN 1 ELSE size

IsAvailable(s) == "d2dContext" \in s.have

\* Mutant: what was built before the failure stays.
InitializeHalf(s, failing) ==
  IF IsAvailable(s) THEN s
  ELSE [Released EXCEPT !.have =
         {Stack[i] : i \in {j \in DOMAIN Stack : \A k \in 1..j : Stack[k] # failing}}]

Initialize(s, failing) ==
  IF IsAvailable(s) THEN s
  ELSE IF failing \in Built THEN Released
  ELSE [Released EXCEPT !.have = Built]

\* The target, the visual, the content, the root, the commit: all or nothing
\* to see.
Attach(s, size, failing) ==
  IF ~IsAvailable(s) THEN s
  ELSE LET width == AtLeastOne(size)
       IN [s EXCEPT !.width = width,
                    !.chain = IF failing = "swapChain" THEN 0 ELSE width,
                    !.attached = failing \notin {"swapChain", "attach"}]

AttachFails(s, failing) == ~IsAvailable(s) \/ failing \in {"swapChain", "attach"}

\* Mutant: the back buffer is kept.
ResizeBound(s, size, failing) ==
  LET width == AtLeastOne(size)
  IN IF width = s.width THEN s
     ELSE IF s.chain = 0 THEN [s EXCEPT !.width = width]
     ELSE IF failing = "resize" \/ s.lost \/ s.back THEN s
     ELSE [s EXCEPT !.width = width, !.chain = width]

(* ResizeBuffers fails while the back buffer is alive.                     *)
Resize(s, size, failing) ==
  LET width == AtLeastOne(size)
  IN IF width = s.width THEN s
     ELSE IF s.chain = 0 THEN [s EXCEPT !.width = width]
     ELSE IF failing = "resize" \/ s.lost THEN [s EXCEPT !.back = FALSE]
     ELSE [s EXCEPT !.back = FALSE, !.width = width, !.chain = width]

Begins(s, failing) ==
  IsAvailable(s) /\ s.chain # 0 /\ (s.back \/ ~(failing = "bind" \/ s.lost))

DrawFails(s, failing) == failing = "draw" \/ s.lost

\* Mutant: a failed EndDraw leaves everything as it is.
EndDrawKept(s, failing) == [s EXCEPT !.back = TRUE]

\* EndDraw: what cannot be drawn to any more is released.
EndDraw(s, failing) == IF DrawFails(s, failing) THEN Released ELSE [s EXCEPT !.back = TRUE]

-----------------------------------------------------------------------------
(* The shadow.                                                             *)

InitShadow(h, d) == IF h.gradient THEN [h EXCEPT !.drawn = d.size] ELSE h

AdjustWindowPos(h, d) == [h EXCEPT !.place = d.place, !.size = d.size]

OnOwnerWndMoved(h, d, resized) ==
  IF ~h.exists \/ ~h.visible THEN h
  ELSE IF resized THEN InitShadow(AdjustWindowPos(h, d), d) ELSE AdjustWindowPos(h, d)

ShowShadow(h, d, shown) ==
  IF h.exists THEN [OnOwnerWndMoved(h, d, TRUE) EXCEPT !.visible = shown] ELSE h

\* Mutant: the window's own messages do not show the shadow.
ShownOnce(d, shown) ==
  [d EXCEPT !.visible = shown,
            !.shadow = OnOwnerWndMoved(ShowShadow(@, d, shown), d, FALSE)]

(* _Show, and the WM_SHOWWINDOW and WM_WINDOWPOSCHANGED of a window that   *)
(* was not as it is to be: the shadow is shown before its window, and      *)
(* follows it only once it is shown itself.                                *)
Shown(d, shown) ==
  LET first == ShowShadow(d.shadow, d, shown)
  IN [d EXCEPT !.visible = shown,
               !.shadow = IF d.visible = shown THEN first
                          ELSE OnOwnerWndMoved(ShowShadow(first, d, shown), d, FALSE)]

\* SetWindowPos: WM_WINDOWPOSCHANGED.
Moved(d, place) ==
  LET there == [d EXCEPT !.place = place]
  IN [there EXCEPT !.shadow = OnOwnerWndMoved(@, there, FALSE)]

-----------------------------------------------------------------------------
(* The window.                                                             *)

\* Mutant: a window that could not be attached keeps what was built.
CreateMainWindowHalf(size, failing) ==
  LET s == Initialize(Released, failing)
  IN [NoDrawing EXCEPT !.wnd = IF IsAvailable(s) THEN "composed" ELSE "plain",
                       !.stack = IsAvailable(s), !.size = size,
                       !.surface = Attach(s, size, failing)]

(* _CreateMainWindow: the device stack decides what window it is, for as   *)
(* long as it exists.                                                      *)
CreateMainWindow(size, failing) ==
  LET s == Initialize(Released, failing)
  IN [NoDrawing EXCEPT !.wnd = IF IsAvailable(s) THEN "composed" ELSE "plain",
                       !.stack = IsAvailable(s), !.size = size,
                       !.surface = IF AttachFails(s, failing) THEN Released
                                   ELSE Attach(s, size, failing)]

\* A composed window has its shadow from the compositor.
CreateBackGroundShadowWindow(d, whole) ==
  IF d.stack THEN d ELSE [d EXCEPT !.shadow.exists = whole]

(* _Create: a window whose shadow or scroll bar could not be made has      *)
(* neither, and is never given a size.                                     *)
CreateDrawing(failing, whole) ==
  [CreateBackGroundShadowWindow(CreateMainWindow(0, failing), whole)
     EXCEPT !.size = IF whole THEN MaxSize ELSE 0]

-----------------------------------------------------------------------------
(* A paint.                                                                *)

\* What can be seen after it.
Seen(d, said) == d.size # 0 /\ (d.wnd = "plain" \/ (said /\ d.surface.attached))

Painted(d, said, failing) ==
  [d EXCEPT !.said = said,
            !.stale = said /\ failing = "resize",
            !.misses = IF Seen(d, said) \/ failing # "none" THEN 0
                       ELSE IF @ = 2 THEN 2 ELSE @ + 1]

(* Draw onto the surface: attached first if it is not available, then      *)
(* resized, whether or not that works.                                     *)
DrawOnSurface(d, failing) ==
  LET again   == ~IsAvailable(d.surface)
      ready   == Initialize(d.surface, failing)
      failed  == again /\ AttachFails(ready, failing)
      tried   == IF again THEN Attach(ready, d.size, failing) ELSE d.surface
      resized == Resize(tried, d.size, failing)
  IN IF failed
     THEN Painted([d EXCEPT !.surface = tried, !.torn = @ \/ IsAvailable(ready)], FALSE, failing)
     ELSE IF ~Begins(resized, failing)
     THEN Painted([d EXCEPT !.surface = resized], FALSE, failing)
     ELSE Painted([d EXCEPT !.surface = EndDraw(resized, failing)],
                  ~DrawFails(resized, failing) /\ failing # "present", failing)

\* Draw onto the window's DC; what GDI then has to do instead always works.
DrawOnDC(d, failing) ==
  LET made == d.target \/ failing # "target"
  IN Painted([d EXCEPT !.target = made /\ failing # "dc"], made /\ failing \notin {"dc", "draw"},
             failing)

(* _OnPaint: a renderer that did not start is not tried again.             *)
OnPaintOf(d, failing) ==
  LET renderer == IF d.renderer = "none"
                  THEN IF failing = "renderer" THEN "unavailable" ELSE "ready"
                  ELSE d.renderer
      e == [d EXCEPT !.renderer = renderer]
  IN IF renderer = "unavailable" THEN Painted(e, FALSE, failing)
     ELSE IF e.stack THEN DrawOnSurface(e, failing)
     ELSE DrawOnDC(e, failing)

-----------------------------------------------------------------------------
NoDraw == UNCHANGED draw

PaintWindow == \E failing \in Failures : draw' = OnPaintOf(draw, failing)

MoveWindow == \E place \in Places : draw' = Moved(draw, place)

DeviceLost ==
  /\ IsAvailable(draw.surface) /\ ~draw.surface.lost
  /\ draw' = [draw EXCEPT !.surface.lost = TRUE, !.misses = 0]

\* WM_SETTINGCHANGE: another color depth, another shadow.
OnSettingChange ==
  /\ draw.shadow.exists
  /\ \E gradient \in BOOLEAN :
       LET h == AdjustWindowPos([draw.shadow EXCEPT !.gradient = gradient], draw)
       IN draw' = [draw EXCEPT !.shadow = InitShadow(h, draw)]

DrawInit == draw = NoDrawing

DrawStep ==
  /\ draw.wnd # "none"
  /\ PaintWindow \/ MoveWindow \/ DeviceLost \/ OnSettingChange

-----------------------------------------------------------------------------
DrawTypeOK == draw \in Drawings

(* IsAvailable looks at one object of the stack, and a failure halfway     *)
(* through building it never makes it answer yes.                          *)
AvailableIsWhole == IsAvailable(draw.surface) => draw.surface.have = Built

(* A paint that reports success, so that GDI is not tried, can be seen:    *)
(* unless an earlier paint could not attach the window, which is never     *)
(* tried again although "the next paint retries the attach"                *)
(* (CandidateWindow.cpp:156-157).                                          *)
DrawnIsShown == draw.wnd = "composed" /\ draw.said /\ ~draw.torn => draw.surface.attached

(* A failure costs one paint: the second after the last failure shows the  *)
(* list ("keeping it would fail forever", CandidateSurface.cpp:200).  Not  *)
(* so in a window without a size, after an attach that failed in a paint,  *)
(* after a device lost while no back buffer is bound, and in a composed    *)
(* window without a renderer.                                              *)
NothingFailsForLong ==
  \/ draw.misses <= 1
  \/ draw.size = 0
  \/ draw.torn
  \/ draw.surface.lost /\ ~draw.surface.back
  \/ draw.wnd = "composed" /\ draw.renderer = "unavailable"

(* What was drawn is as large as the window, but for a paint in which the  *)
(* buffers could not be resized.                                           *)
DrawnFits ==
  draw.wnd = "composed" /\ draw.said /\ ~draw.stale => draw.surface.chain = AtLeastOne(draw.size)

(* The shadow is where its window is, and its picture as large, although   *)
(* it follows only while it is shown and is shown first.                   *)
ShadowFollows ==
  draw.shadow.exists /\ draw.visible =>
    /\ draw.shadow.visible
    /\ draw.shadow.place = draw.place /\ draw.shadow.size = draw.size
    /\ draw.shadow.gradient => draw.shadow.drawn = draw.size

(* What a paint is said to have drawn is on screen, in its size, with its  *)
(* shadow, and a failure costs no more than the paint it happens in.       *)
DrawnIsTrue ==
  AvailableIsWhole /\ DrawnIsShown /\ DrawnFits /\ ShadowFollows /\ NothingFailsForLong
=============================================================================
