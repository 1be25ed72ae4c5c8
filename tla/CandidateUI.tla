---------------------------- MODULE CandidateUI ------------------------------
(***************************************************************************)
(* The presenter of the candidate list (CandidateListUIPresenter.cpp) and  *)
(* its layout sink (TfTextLayoutSink.cpp), from the conversion that makes  *)
(* them to the handlers that end them, and their window as the focus moves *)
(* between documents and between threads (ThreadMgrEventSink.cpp,          *)
(* ThreadFocusSink.cpp).                                                   *)
(*                                                                         *)
(* The presenter is deleted, not released: what TSF still holds of it then *)
(* points nowhere.                                                         *)
(***************************************************************************)
EXTENDS Activation

VARIABLES
  focus,          \* the document that has the focus, as TSF sees it
  thread,         \* this thread has the focus
  ui              \* see CCandidateListUIPresenter

uiVars == <<focus, thread, ui>>

CCandidateListUIPresenter ==
  [exists  : BOOLEAN,              \* _pCandidateListUIPresenter
   ctx     : Docs \union {NoDoc},  \* _pContextDocument
   layout  : Docs \union {NoDoc},  \* where TSF has the layout sink
   element : BOOLEAN,              \* TSF has it as a UI element
   wnd     : {"none", "hollow", "real"},   \* _pCandidateWnd, without a
                                   \* window of the system, or with one
   visible : BOOLEAN,
   show    : BOOLEAN,              \* _isShowMode
   byApp   : BOOLEAN,              \* history: the application showed or hid it
   crossed : BOOLEAN]              \* history: see FocusMoved, OnKillThreadFocus

NoPresenter ==
  [exists |-> FALSE, ctx |-> NoDoc, layout |-> NoDoc, element |-> FALSE,
   wnd |-> "none", visible |-> FALSE, show |-> TRUE, byApp |-> FALSE,
   crossed |-> FALSE]

\* What the environment decides when a list is started.
Answers ==
  [advised : BOOLEAN,     \* the layout sink is accepted
   element : BOOLEAN,     \* there is a UI element manager
   show    : BOOLEAN,     \* and it lets the service draw
   wnd     : {"none", "hollow", "real"}]   \* what memory and the system give

-----------------------------------------------------------------------------
(* The presenter.                                                          *)

(* _StartLayout holds the context, whether or not TSF takes the sink.      *)
StartLayout(u, d, e) ==
  [u EXCEPT !.ctx = d, !.layout = IF e.advised THEN d ELSE NoDoc]

\* Mutant: the layout sink is left with the context.
EndLayoutWithoutUnadvise(u) == [u EXCEPT !.ctx = NoDoc]

EndLayout(u) == [u EXCEPT !.ctx = NoDoc, !.layout = NoDoc]

\* Without a UI element manager the service draws.
BeginUIElement(u, e) ==
  [u EXCEPT !.element = e.element, !.show = e.element => e.show]

EndUIElement(u) == [u EXCEPT !.element = FALSE]

MakeCandidateWindow(u, e) == [u EXCEPT !.wnd = e.wnd]

DisposeCandidateWindow(u) == [u EXCEPT !.wnd = "none", !.visible = FALSE]

EndCandidateList(u) == DisposeCandidateWindow(EndLayout(EndUIElement(u)))

ToShow(u) == [u EXCEPT !.visible = u.wnd = "real"]
ToHide(u) == [u EXCEPT !.visible = FALSE]

Appear(u) == IF u.show THEN ToShow(u) ELSE ToHide(u)

\* Mutant: a list without a window is left as it is.
StartCandidateListHalf(u, d, e) ==
  LET laid  == StartLayout(u, d, e)
      begun == BeginUIElement(laid, e)
  IN IF ~e.advised THEN EndCandidateList(laid)
     ELSE Appear(MakeCandidateWindow(begun, e))

(* _StartCandidateList: what fails on the way is undone by                 *)
(* _EndCandidateList, all but a window the system would not create.        *)
StartCandidateList(u, d, e) ==
  LET laid  == StartLayout(u, d, e)
      begun == BeginUIElement(laid, e)
      made  == MakeCandidateWindow(begun, e)
  IN IF ~e.advised          THEN EndCandidateList(laid)
     ELSE IF e.wnd = "none" THEN EndCandidateList(begun)
     ELSE Appear(made)

\* Mutant: the window is shown whoever draws the list.
SetThreadFocusAlways(u) == ToShow(u)

SetThreadFocus(u)  == IF u.show THEN ToShow(u) ELSE u
KillThreadFocus(u) == IF u.show THEN ToHide(u) ELSE u

-----------------------------------------------------------------------------
(* Actions.                                                                *)

(* _HandleCompositionConvert, in the document that has the focus: the      *)
(* presenter is made anew.                                                 *)
Convert(e) ==
  /\ tip.engine /\ thread /\ focus # NoDoc
  /\ ui' = StartCandidateList([NoPresenter EXCEPT !.exists = TRUE], focus, e)
  /\ refs' = Exchange(refs, "ctx", ui.ctx, ui'.ctx)
  /\ UNCHANGED <<tip, focus, thread>>

(* _DeleteCandidateList, in whatever handler, and _LayoutDestroyNotification *)
(* end the list and keep the presenter.                                    *)
End ==
  /\ ui.exists
  /\ ui' = EndCandidateList(ui)
  /\ refs' = Release(refs, "ctx", ui.ctx)
  /\ UNCHANGED <<tip, focus, thread>>

DeleteCandidateList == tip.engine /\ End
LayoutDestroy       == ui.layout # NoDoc /\ End

\* ITfUIElement::Show, called by the application or by TSF.
Show(shown) ==
  /\ ui.element
  /\ ui' = [(IF shown THEN ToShow(ui) ELSE ToHide(ui)) EXCEPT !.byApp = TRUE]
  /\ UNCHANGED <<tip, refs, focus, thread>>

(* The list follows the document it belongs to; nothing is asked of the    *)
(* thread, which may have lost the focus (crossed).                        *)
FocusMoved(d) ==
  IF ui.ctx = NoDoc THEN ui
  ELSE IF ui.ctx = d THEN [SetThreadFocus(ui) EXCEPT !.crossed = ~thread]
  ELSE [KillThreadFocus(ui) EXCEPT !.crossed = FALSE]

\* Mutant: the list is left as it is.
OnSetFocusOfList(d, accepted) ==
  /\ focus' = d
  /\ tip' = [InitTextEditSink(tip, d, accepted) EXCEPT !.last = d]
  /\ refs' = Exchange(Exchange(refs, "ctx", tip.edit, tip'.edit), "mgr", tip.last, d)
  /\ UNCHANGED <<ui, thread>>

(* OnSetFocus of the thread manager sink, d the document that gets the     *)
(* focus, if any.                                                          *)
OnSetFocus(d, accepted) ==
  /\ focus' = d
  /\ IF "threadMgr" \in tip.sinks
     THEN /\ tip' = [InitTextEditSink(tip, d, accepted) EXCEPT !.last = d]
          /\ refs' = Exchange(Exchange(refs, "ctx", tip.edit, tip'.edit),
                              "mgr", tip.last, d)
          /\ ui' = FocusMoved(d)
     ELSE UNCHANGED <<tip, refs, ui>>
  /\ UNCHANGED thread

OnSetThreadFocus ==
  /\ ~thread /\ thread' = TRUE
  /\ LET heard == "threadFocus" \in tip.sinks /\ ui.exists
         shows == ui.ctx # NoDoc /\ ui.ctx = tip.last
     IN ui' = IF heard THEN [(IF shows THEN SetThreadFocus(ui) ELSE ui) EXCEPT
                                !.crossed = ui.crossed /\ ui.ctx # focus]
                       ELSE ui
  /\ UNCHANGED <<tip, refs, focus>>

\* Mutant: the document of the list is not remembered.
OnKillThreadFocusForgets ==
  /\ thread /\ thread' = FALSE
  /\ ui' = IF ui.exists THEN KillThreadFocus(ui) ELSE ui
  /\ UNCHANGED <<tip, refs, focus>>

\* Mutant: the document manager is kept without a reference of its own.
OnKillThreadFocusBorrows ==
  /\ thread /\ thread' = FALSE
  /\ LET heard == "threadFocus" \in tip.sinks /\ ui.exists
         moves == heard /\ ui.ctx # NoDoc
     IN /\ tip'  = IF moves THEN [tip EXCEPT !.last = ui.ctx] ELSE tip
        /\ refs' = IF moves THEN Release(refs, "mgr", tip.last) ELSE refs
        /\ ui'   = IF heard THEN KillThreadFocus(ui) ELSE ui
  /\ UNCHANGED focus

(* The document of the list becomes the one last focused, though another   *)
(* may have the focus (crossed), and the reference GetDocumentMgr gave to   *)
(* it is never given back.                                                 *)
OnKillThreadFocus ==
  /\ thread /\ thread' = FALSE
  /\ LET heard == "threadFocus" \in tip.sinks /\ ui.exists
         moves == heard /\ ui.ctx # NoDoc
     IN /\ moves => refs.mgr[ui.ctx] < MaxLeaked + 1
        /\ tip'  = IF moves THEN [tip EXCEPT !.last = ui.ctx] ELSE tip
        /\ refs' = IF moves
                   THEN AddRef(Exchange(refs, "mgr", tip.last, ui.ctx), "mgr", ui.ctx)
                   ELSE refs
        /\ ui'   = IF heard THEN [KillThreadFocus(ui) EXCEPT
                                             !.crossed = ui.ctx \notin {NoDoc, focus}]
                            ELSE ui
  /\ UNCHANGED focus

\* Deactivate once the engine is gone.
EndDeactivate ==
  /\ tip.on /\ ~tip.engine
  /\ tip' = Deactivated(tip)
  /\ ui' = NoPresenter
  /\ refs' = Release(Release(refs, "ctx", ui.ctx), "mgr", tip.last)
  /\ UNCHANGED <<focus, thread>>

Activate(n, accepted) == ActivateEx(n, focus, accepted) /\ UNCHANGED uiVars
BeginDeactivate == DeleteEngine /\ UNCHANGED uiVars

-----------------------------------------------------------------------------
UIInit ==
  /\ TipInit /\ ui = NoPresenter
  /\ focus \in Docs \union {NoDoc} /\ thread \in BOOLEAN

UINext ==
  \/ \E n \in 0..Len(Steps), accepted \in BOOLEAN : Activate(n, accepted)
  \/ BeginDeactivate \/ EndDeactivate
  \/ \E e \in Answers : Convert(e)
  \/ DeleteCandidateList \/ LayoutDestroy
  \/ \E shown \in BOOLEAN : Show(shown)
  \/ \E d \in Docs \union {NoDoc}, accepted \in BOOLEAN : OnSetFocus(d, accepted)
  \/ OnSetThreadFocus \/ OnKillThreadFocus

UISpec == UIInit /\ [][UINext]_<<tipVars, uiVars>>

-----------------------------------------------------------------------------
UITypeOK ==
  /\ tip \in CSampleIME /\ refs \in References
  /\ focus \in Docs \union {NoDoc} /\ thread \in BOOLEAN
  /\ ui \in CCandidateListUIPresenter

One(b) == IF b THEN 1 ELSE 0

(* Every pointer to a document manager or to a context owns a reference,   *)
(* and the contexts are given back when they are dropped: the sinks that   *)
(* take one, exchange it and drop it agree about whose it is.              *)
HeldIsOwned ==
  \A d \in Docs :
    /\ refs.mgr[d] >= One(tip.last = d)
    /\ refs.ctx[d] = One(tip.edit = d) + One(ui.ctx = d)

(* TSF never holds a presenter that has been deleted: a layout sink is     *)
(* advised only where the presenter knows of it, and a UI element ends     *)
(* before its presenter does.  After a Deactivate, or an activation that   *)
(* failed half-way, no sink is left but the text edit sink.                *)
DeletedIsUnheld ==
  /\ ~tip.on => tip.sinks = {} /\ ~ui.exists
  /\ ui.layout # NoDoc => ui.exists /\ ui.ctx = ui.layout
  /\ ui.element => ui.exists

(* While the presenter has a context it has a window: the layout and focus *)
(* sinks, which reach for the window when they find the context, never     *)
(* meet a null pointer ("the SEH net is a last resort rather than a        *)
(* substitute for the check", CandidateListUIPresenter.cpp:229).           *)
ContextHasWindow == ui.ctx # NoDoc => ui.wnd # "none"

(* An application that draws the list itself never gets the window as      *)
(* well, unless it shows it.                                               *)
NoSecondWindow == ui.visible => ui.show \/ ui.byApp

(* When its document and its thread have the focus, the list is on screen: *)
(* however the two focuses left and came back, it is not lost.             *)
ListComesBack ==
  ui.wnd = "real" /\ ui.show /\ ~ui.byApp /\ thread /\ ui.ctx = focus => ui.visible

(* Nothing the text service and TSF hold of each other is gone.            *)
NothingDangles == HeldIsOwned /\ DeletedIsUnheld /\ ContextHasWindow
=============================================================================
