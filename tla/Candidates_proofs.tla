-------------------------- MODULE Candidates_proofs --------------------------
(***************************************************************************)
(* Theorems about the candidate window: about CandidateUI, for any number  *)
(* of documents, that TSF and the text service hold of each other only     *)
(* what is there and that the list is on screen when it should be; about   *)
(* CandidateDrawing, for windows of any size, that a step keeps what is    *)
(* drawn whole; about WindowPlacement, for every screen, text and window,  *)
(* that what is placed lies beside the text; and about CandidateList, for  *)
(* lists and pages of any length, that what is selected is shown and what  *)
(* is taken was seen.                                                      *)
(*                                                                         *)
(* The first rest on UIInv.  That the list comes back with its thread      *)
(* needs that the document it belongs to is remembered while the thread is *)
(* away (Remembered); that nothing dangles needs that there is a presenter *)
(* only while all sinks are advised (Activated), and that a window and a   *)
(* layout sink are those of the presenter's document (Windowed).           *)
(*                                                                         *)
(* The second rests on WholeDrawing: a stack of devices is there whole or  *)
(* not at all and shows what is drawn (StackSound), what is reported drawn *)
(* is on such a stack, and a paint misses without an excuse only as it     *)
(* releases a lost device, so that the next builds another.                *)
(*                                                                         *)
(* The last rests on ListInv: whatever cuts the pages, they begin with the *)
(* list, cover it and leave no gap (WellPaged), so that there is always    *)
(* one page that the selection is on (CurrentPageIs, OneIsCurrent).        *)
(* How far they reach is bounded too (Sized): no page begins further than a*)
(* page after the list.                                                    *)
(***************************************************************************)
EXTENDS CandidateUI, CandidateList, CandidateDrawing, WindowPlacement, FiniteSetTheorems, TLAPS

-----------------------------------------------------------------------------
(* References, counted.                                                    *)

\* What is counted, whether or not it may be negative.
Counts == [mgr : [Docs -> Int], ctx : [Docs -> Int]]

\* A pointer to a document holds one reference to it.
Holds(p, d) == IF p = d THEN 1 ELSE 0

LEMMA AddRefOf ==
  ASSUME NEW r \in Counts, NEW d \in Docs \union {NoDoc}
  PROVE  /\ AddRef(r, "ctx", d) \in Counts /\ AddRef(r, "ctx", d).mgr = r.mgr
         /\ \A e \in Docs : AddRef(r, "ctx", d).ctx[e] = r.ctx[e] + Holds(d, e)
         /\ AddRef(r, "mgr", d) \in Counts /\ AddRef(r, "mgr", d).ctx = r.ctx
         /\ \A e \in Docs : AddRef(r, "mgr", d).mgr[e] = r.mgr[e] + Holds(d, e)
<1>1. \A e \in Docs : r.ctx[e] \in Int /\ r.mgr[e] \in Int /\ NoDoc # e
  BY ActivationAssumption DEF Counts
<1>2. CASE d = NoDoc
  BY <1>1, <1>2 DEF AddRef, Holds
<1>3. CASE d \in Docs
  <2> DEFINE n == r.ctx[d] + 1
  <2> DEFINE m == r.mgr[d] + 1
  <2>1. n \in Int /\ m \in Int
    BY <1>1, <1>3
  <2>2. AddRef(r, "ctx", d) = [r EXCEPT !["ctx"][d] = n] /\ AddRef(r, "mgr", d) = [r EXCEPT !["mgr"][d] = m]
    BY <1>1, <1>3 DEF AddRef, Counts
  <2>3. /\ [r.ctx EXCEPT ![d] = n][d] = n /\ \A e \in Docs \ {d} : [r.ctx EXCEPT ![d] = n][e] = r.ctx[e]
        /\ [r.mgr EXCEPT ![d] = m][d] = m /\ \A e \in Docs \ {d} : [r.mgr EXCEPT ![d] = m][e] = r.mgr[e]
    BY <1>3 DEF Counts
  <2>4. n = r.ctx[d] + 1 /\ m = r.mgr[d] + 1
    OBVIOUS
  <2> HIDE DEF n, m
  <2>5. \A e \in Docs \ {d} : Holds(d, e) = 0
    BY DEF Holds
  <2>6. Holds(d, d) = 1
    BY DEF Holds
  <2>7. /\ [r EXCEPT !["ctx"][d] = n] \in Counts /\ [r EXCEPT !["ctx"][d] = n].mgr = r.mgr
        /\ [r EXCEPT !["ctx"][d] = n].ctx = [r.ctx EXCEPT ![d] = n]
        /\ [r EXCEPT !["mgr"][d] = m] \in Counts /\ [r EXCEPT !["mgr"][d] = m].ctx = r.ctx
        /\ [r EXCEPT !["mgr"][d] = m].mgr = [r.mgr EXCEPT ![d] = m]
    BY <1>3, <2>1 DEF Counts
  <2> DEFINE rc == [r EXCEPT !["ctx"][d] = n]
  <2> DEFINE rm == [r EXCEPT !["mgr"][d] = m]
  <2>8. /\ rc \in Counts /\ rc.mgr = r.mgr /\ rc.ctx[d] = r.ctx[d] + 1
        /\ \A e \in Docs \ {d} : rc.ctx[e] = r.ctx[e]
        /\ rm \in Counts /\ rm.ctx = r.ctx /\ rm.mgr[d] = r.mgr[d] + 1
        /\ \A e \in Docs \ {d} : rm.mgr[e] = r.mgr[e]
    BY <2>3, <2>4, <2>7
  <2>9. AddRef(r, "ctx", d) = rc /\ AddRef(r, "mgr", d) = rm
    BY <2>2
  <2> HIDE DEF rc, rm
  <2> QED BY <1>1, <1>3, <2>5, <2>6, <2>8, <2>9
<1> QED BY <1>2, <1>3

LEMMA ReleaseOf ==
  ASSUME NEW r \in Counts, NEW d \in Docs \union {NoDoc}
  PROVE  /\ Release(r, "ctx", d) \in Counts /\ Release(r, "ctx", d).mgr = r.mgr
         /\ \A e \in Docs : Release(r, "ctx", d).ctx[e] = r.ctx[e] - Holds(d, e)
         /\ Release(r, "mgr", d) \in Counts /\ Release(r, "mgr", d).ctx = r.ctx
         /\ \A e \in Docs : Release(r, "mgr", d).mgr[e] = r.mgr[e] - Holds(d, e)
<1>1. \A e \in Docs : r.ctx[e] \in Int /\ r.mgr[e] \in Int /\ NoDoc # e
  BY ActivationAssumption DEF Counts
<1>2. CASE d = NoDoc
  BY <1>1, <1>2 DEF Release, Holds
<1>3. CASE d \in Docs
  <2> DEFINE n == r.ctx[d] - 1
  <2> DEFINE m == r.mgr[d] - 1
  <2>1. n \in Int /\ m \in Int
    BY <1>1, <1>3
  <2>2. Release(r, "ctx", d) = [r EXCEPT !["ctx"][d] = n] /\ Release(r, "mgr", d) = [r EXCEPT !["mgr"][d] = m]
    BY <1>1, <1>3 DEF Release, Counts
  <2>3. /\ [r.ctx EXCEPT ![d] = n][d] = n /\ \A e \in Docs \ {d} : [r.ctx EXCEPT ![d] = n][e] = r.ctx[e]
        /\ [r.mgr EXCEPT ![d] = m][d] = m /\ \A e \in Docs \ {d} : [r.mgr EXCEPT ![d] = m][e] = r.mgr[e]
    BY <1>3 DEF Counts
  <2>4. n = r.ctx[d] - 1 /\ m = r.mgr[d] - 1
    OBVIOUS
  <2> HIDE DEF n, m
  <2>5. \A e \in Docs \ {d} : Holds(d, e) = 0
    BY DEF Holds
  <2>6. Holds(d, d) = 1
    BY DEF Holds
  <2>7. /\ [r EXCEPT !["ctx"][d] = n] \in Counts /\ [r EXCEPT !["ctx"][d] = n].mgr = r.mgr
        /\ [r EXCEPT !["ctx"][d] = n].ctx = [r.ctx EXCEPT ![d] = n]
        /\ [r EXCEPT !["mgr"][d] = m] \in Counts /\ [r EXCEPT !["mgr"][d] = m].ctx = r.ctx
        /\ [r EXCEPT !["mgr"][d] = m].mgr = [r.mgr EXCEPT ![d] = m]
    BY <1>3, <2>1 DEF Counts
  <2> DEFINE rc == [r EXCEPT !["ctx"][d] = n]
  <2> DEFINE rm == [r EXCEPT !["mgr"][d] = m]
  <2>8. /\ rc \in Counts /\ rc.mgr = r.mgr /\ rc.ctx[d] = r.ctx[d] - 1
        /\ \A e \in Docs \ {d} : rc.ctx[e] = r.ctx[e]
        /\ rm \in Counts /\ rm.ctx = r.ctx /\ rm.mgr[d] = r.mgr[d] - 1
        /\ \A e \in Docs \ {d} : rm.mgr[e] = r.mgr[e]
    BY <2>3, <2>4, <2>7
  <2>9. Release(r, "ctx", d) = rc /\ Release(r, "mgr", d) = rm
    BY <2>2
  <2> HIDE DEF rc, rm
  <2> QED BY <1>1, <1>3, <2>5, <2>6, <2>8, <2>9
<1> QED BY <1>2, <1>3

LEMMA ExchangeOf ==
  ASSUME NEW r \in Counts, NEW old \in Docs \union {NoDoc}, NEW new \in Docs \union {NoDoc}
  PROVE  /\ Exchange(r, "ctx", old, new) \in Counts /\ Exchange(r, "ctx", old, new).mgr = r.mgr
         /\ \A e \in Docs : Exchange(r, "ctx", old, new).ctx[e] = r.ctx[e] - Holds(old, e) + Holds(new, e)
         /\ Exchange(r, "mgr", old, new) \in Counts /\ Exchange(r, "mgr", old, new).ctx = r.ctx
         /\ \A e \in Docs : Exchange(r, "mgr", old, new).mgr[e] = r.mgr[e] - Holds(old, e) + Holds(new, e)
<1> DEFINE c == Release(r, "ctx", old)
<1> DEFINE m == Release(r, "mgr", old)
<1>1. /\ c \in Counts /\ c.mgr = r.mgr /\ \A e \in Docs : c.ctx[e] = r.ctx[e] - Holds(old, e)
      /\ m \in Counts /\ m.ctx = r.ctx /\ \A e \in Docs : m.mgr[e] = r.mgr[e] - Holds(old, e)
  BY ReleaseOf
<1> HIDE DEF c, m
<1>2. /\ AddRef(c, "ctx", new) \in Counts /\ AddRef(c, "ctx", new).mgr = c.mgr
      /\ \A e \in Docs : AddRef(c, "ctx", new).ctx[e] = c.ctx[e] + Holds(new, e)
      /\ AddRef(m, "mgr", new) \in Counts /\ AddRef(m, "mgr", new).ctx = m.ctx
      /\ \A e \in Docs : AddRef(m, "mgr", new).mgr[e] = m.mgr[e] + Holds(new, e)
  BY <1>1, AddRefOf
<1> QED BY <1>1, <1>2 DEF Exchange, c, m

-----------------------------------------------------------------------------
Pointers == Docs \union {NoDoc}

\* v is the same list of candidates, perhaps shown or hidden meanwhile.
SameList(u, v) ==
  /\ v \in CCandidateListUIPresenter /\ v.exists = u.exists /\ v.ctx = u.ctx /\ v.layout = u.layout
  /\ v.element = u.element /\ v.wnd = u.wnd /\ v.show = u.show

LEMMA ShownIs ==
  ASSUME NEW u \in CCandidateListUIPresenter
  PROVE  /\ SameList(u, ToShow(u)) /\ ToShow(u).byApp = u.byApp
         /\ ToShow(u).visible <=> u.wnd = "real"
BY DEF ToShow, SameList, CCandidateListUIPresenter

LEMMA HiddenIs ==
  ASSUME NEW u \in CCandidateListUIPresenter
  PROVE  SameList(u, ToHide(u)) /\ ToHide(u).byApp = u.byApp /\ ~ ToHide(u).visible
BY DEF ToHide, SameList, CCandidateListUIPresenter

\* The history of where the two focuses have been.
LEMMA CrossedIs ==
  ASSUME NEW u \in CCandidateListUIPresenter, NEW a, SameList(u, a), NEW b \in BOOLEAN,
         NEW v, v = [a EXCEPT !.crossed = b]
  PROVE  SameList(u, v) /\ v.byApp = a.byApp /\ v.visible = a.visible /\ v.crossed = b
BY DEF SameList, CCandidateListUIPresenter

LEMMA PresenterEnded ==
  ASSUME NEW u \in CCandidateListUIPresenter, NEW v, v = EndCandidateList(u)
  PROVE  /\ v \in CCandidateListUIPresenter /\ v.exists = u.exists /\ v.ctx = NoDoc /\ v.layout = NoDoc
         /\ v.element = FALSE /\ v.wnd = "none" /\ v.visible = FALSE
<1> DEFINE a == EndUIElement(u)
<1>1. a \in CCandidateListUIPresenter /\ a.element = FALSE /\ a.exists = u.exists
  BY DEF EndUIElement, CCandidateListUIPresenter
<1> DEFINE b == EndLayout(a)
<1>2. v = DisposeCandidateWindow(b)
  BY DEF EndCandidateList
<1> HIDE DEF a
<1>3. /\ b \in CCandidateListUIPresenter /\ b.element = FALSE /\ b.exists = u.exists
      /\ b.ctx = NoDoc /\ b.layout = NoDoc
  BY <1>1 DEF EndLayout, CCandidateListUIPresenter
<1> HIDE DEF b
<1> QED BY <1>2, <1>3 DEF DisposeCandidateWindow, CCandidateListUIPresenter

LEMMA NoPresenterIs ==
  /\ NoPresenter \in CCandidateListUIPresenter /\ NoPresenter.exists = FALSE /\ NoPresenter.ctx = NoDoc
  /\ NoPresenter.layout = NoDoc /\ NoPresenter.element = FALSE /\ NoPresenter.wnd = "none"
  /\ NoPresenter.visible = FALSE /\ NoPresenter.byApp = FALSE /\ NoPresenter.crossed = FALSE
BY DEF NoPresenter, CCandidateListUIPresenter

NewPresenter == [NoPresenter EXCEPT !.exists = TRUE]

\* A list is started whole, or not at all.
LEMMA PresenterStarted ==
  ASSUME NEW d \in Docs, NEW e \in Answers, NEW v,
         v = StartCandidateList(NewPresenter, d, e)
  PROVE  /\ v \in CCandidateListUIPresenter /\ v.exists
         /\ \/ v.ctx = NoDoc /\ v.layout = NoDoc /\ ~ v.element /\ v.wnd = "none" /\ ~ v.visible
            \/ /\ v.ctx = d /\ v.layout = d /\ v.wnd # "none" /\ ~ v.byApp
               /\ v.visible <=> v.show /\ v.wnd = "real"
<1> DEFINE u == NewPresenter
<1>1. u \in CCandidateListUIPresenter /\ u.exists /\ u.byApp = FALSE
  BY NoPresenterIs DEF NewPresenter, CCandidateListUIPresenter
<1> DEFINE laid == StartLayout(u, d, e)
<1> DEFINE begun == BeginUIElement(laid, e)
<1> DEFINE made == MakeCandidateWindow(begun, e)
<1>2. v = IF ~e.advised THEN EndCandidateList(laid)
          ELSE IF e.wnd = "none" THEN EndCandidateList(begun) ELSE Appear(made)
  BY DEF StartCandidateList
<1> HIDE DEF u
<1>3. /\ laid \in CCandidateListUIPresenter /\ laid.exists /\ laid.byApp = FALSE /\ laid.ctx = d
      /\ e.advised => laid.layout = d
  BY <1>1 DEF StartLayout, CCandidateListUIPresenter, Answers
<1> HIDE DEF laid
<1>4. /\ begun \in CCandidateListUIPresenter /\ begun.exists /\ begun.byApp = FALSE /\ begun.ctx = d
      /\ e.advised => begun.layout = d
  BY <1>3 DEF BeginUIElement, CCandidateListUIPresenter, Answers
<1> HIDE DEF begun
<1>5. /\ made \in CCandidateListUIPresenter /\ made.exists /\ made.byApp = FALSE /\ made.ctx = d
      /\ e.advised => made.layout = d
      /\ made.wnd = e.wnd
  BY <1>4 DEF MakeCandidateWindow, CCandidateListUIPresenter, Answers
<1> HIDE DEF made
<1>6. CASE ~e.advised
  BY <1>2, <1>3, <1>6, PresenterEnded
<1>7. CASE e.advised /\ e.wnd = "none"
  BY <1>2, <1>4, <1>7, PresenterEnded
<1>8. CASE e.advised /\ e.wnd # "none"
  <2>1. v = IF made.show THEN ToShow(made) ELSE ToHide(made)
    BY <1>2, <1>8 DEF Appear
  <2>2. CASE made.show
    <3>1. v = ToShow(made)
      BY <2>1, <2>2
    <3>2. /\ v \in CCandidateListUIPresenter /\ v.exists = made.exists /\ v.ctx = made.ctx /\ v.layout = made.layout
          /\ v.wnd = made.wnd /\ v.show = made.show /\ v.byApp = made.byApp
          /\ v.visible <=> made.wnd = "real"
      BY ZenonT(40), <1>5, <3>1, ShownIs DEF SameList
    <3> QED BY <1>5, <1>8, <2>2, <3>2
  <2>3. CASE ~ made.show
    <3>1. v = ToHide(made)
      BY <2>1, <2>3
    <3>2. /\ v \in CCandidateListUIPresenter /\ v.exists = made.exists /\ v.ctx = made.ctx /\ v.layout = made.layout
          /\ v.wnd = made.wnd /\ v.show = made.show /\ v.byApp = made.byApp
          /\ ~ v.visible
      BY <1>5, <3>1, HiddenIs DEF SameList
    <3> QED BY <1>5, <1>8, <2>3, <3>2
  <2> QED BY <2>2, <2>3
<1> QED BY <1>6, <1>7, <1>8

-----------------------------------------------------------------------------
UITyped ==
  /\ tip \in CSampleIME /\ refs \in Counts /\ ui \in CCandidateListUIPresenter
  /\ focus \in Pointers /\ thread \in BOOLEAN

\* While it is activated all its sinks are advised; it has a presenter only then.
Activated ==
  /\ tip.engine => tip.on
  /\ IF tip.on THEN tip.sinks = Sinks ELSE tip.sinks = {} /\ ~ui.exists
  /\ ~ui.exists => ui = NoPresenter

\* What is on screen has a window, and a window belongs to a document.
Windowed ==
  /\ ui.visible => ui.wnd = "real"
  /\ ui.wnd = "real" => ui.ctx # NoDoc
  /\ ui.layout # NoDoc => ui.ctx = ui.layout

\* When the thread comes back, the document that has the focus is remembered.
Remembered == ~thread /\ ui.wnd = "real" /\ ui.ctx = focus => tip.last = ui.ctx

UIInv ==
  /\ UITyped /\ Activated /\ Windowed /\ Remembered
  /\ HeldIsOwned /\ ContextHasWindow /\ NoSecondWindow /\ ListComesBack

\* Every pointer holds its reference.
Owned(t, u, r) ==
  \A d \in Docs : /\ r.mgr[d] >= Holds(t.last, d)
                  /\ r.ctx[d] = Holds(t.edit, d) + Holds(u.ctx, d)

LEMMA OwnedIsHeld == HeldIsOwned <=> Owned(tip, ui, refs)
BY DEF HeldIsOwned, Owned, Holds, One

\* In an application a list may end in any handler.
UIStep == UINext \/ End

LEMMA UIBegins == ASSUME UIInit PROVE UIInv
<1>1. NoDoc \in Pointers
  BY DEF Pointers
<1>2. tip \in CSampleIME /\ ~tip.on /\ ~tip.engine /\ tip.sinks = {} /\ tip.edit = NoDoc /\ tip.last = NoDoc
  BY <1>1 DEF UIInit, TipInit, CSampleIME, Pointers
<1>3. refs \in Counts /\ \A d \in Docs : refs.mgr[d] = 0 /\ refs.ctx[d] = 0
  <2> DEFINE none == [d \in Docs |-> 0]
  <2>1. none \in [Docs -> Int] /\ \A d \in Docs : none[d] = 0
    OBVIOUS
  <2>2. refs = [kind \in {"mgr", "ctx"} |-> none]
    BY DEF UIInit, TipInit
  <2> HIDE DEF none
  <2> QED BY <2>1, <2>2 DEF Counts
<1>4. Owned(tip, ui, refs)
  BY <1>2, <1>3, NoPresenterIs, ActivationAssumption DEF Owned, Holds, UIInit
<1> QED BY <1>2, <1>3, <1>4, NoPresenterIs, OwnedIsHeld
        DEF UIInv, UIInit, UITyped, Activated, Windowed, Remembered, ContextHasWindow, NoSecondWindow,
            ListComesBack, Pointers

LEMMA ActivateKeeps ==
  ASSUME UIInv, NEW n \in 0..Len(Steps), NEW accepted \in BOOLEAN, Activate(n, accepted)
  PROVE  UIInv'
<1> USE DEF UIInv, UITyped
<1> DEFINE begun == IF n = 0 \/ focus = NoDoc THEN tip ELSE InitTextEditSink(tip, focus, accepted)
<1>1. begun \in CSampleIME /\ begun.last = tip.last
  BY DEF InitTextEditSink, CSampleIME, Pointers
<1>2. ~tip.on /\ UNCHANGED uiVars /\ refs' = Exchange(refs, "ctx", tip.edit, tip'.edit)
  BY DEF Activate, ActivateEx
<1>3. PICK advised \in SUBSET {"function"} :
        LET reached == [begun EXCEPT !.on = TRUE, !.engine = n = Len(Steps),
                                     !.sinks = (Done(n) \intersect Sinks) \union advised]
        IN tip' = IF reached.engine THEN reached ELSE Deactivated(reached)
  BY DEF Activate, ActivateEx
<1> HIDE DEF begun
<1> DEFINE sinks == (Done(n) \intersect Sinks) \union advised
<1> DEFINE reached == [begun EXCEPT !.on = TRUE, !.engine = n = Len(Steps), !.sinks = sinks]
<1>4. n = Len(Steps) => sinks = Sinks
  <2>1. Len(Steps) = 7
    BY DEF Steps
  <2>2. ASSUME n = 7 PROVE Sinks \subseteq Done(n)
    <3>1. \A i \in 1..7 : Steps[i] \in Done(n)
      BY <2>2 DEF Done
    <3>2. /\ Steps[1] = "threadMgr" /\ Steps[2] = "key" /\ Steps[3] = "profile"
          /\ Steps[4] = "threadFocus" /\ Steps[6] = "function"
      BY DEF Steps
    <3> QED BY <3>1, <3>2 DEF Sinks
  <2> QED BY <2>1, <2>2 DEF Sinks
<1>5. tip' = IF reached.engine THEN reached ELSE Deactivated(reached)
  BY <1>3
<1>6. /\ sinks \in SUBSET Sinks
  BY DEF Sinks
<1> HIDE DEF sinks
<1>7. /\ reached \in CSampleIME /\ reached.on /\ reached.last = tip.last
      /\ reached.sinks = sinks /\ (reached.engine <=> n = Len(Steps))
  BY <1>1, <1>6 DEF CSampleIME
<1> HIDE DEF reached
<1>8. /\ tip' \in CSampleIME
      /\ \/ tip'.on /\ tip'.engine /\ tip'.sinks = Sinks /\ tip'.last = tip.last
         \/ ~ tip'.on /\ ~ tip'.engine /\ tip'.sinks = {} /\ tip'.last = NoDoc
  <2>1. CASE reached.engine
    <3>1. tip' = reached
      BY <1>5, <2>1
    <3>2. sinks = Sinks
      BY <1>4, <1>7, <2>1
    <3> QED BY <1>7, <2>1, <3>1, <3>2
  <2>2. CASE ~reached.engine
    BY <1>5, <1>7, <2>2 DEF Deactivated, UninitSinks, CSampleIME, Pointers
  <2> QED BY <2>1, <2>2
<1>9. tip.edit \in Pointers /\ tip'.edit \in Pointers /\ NoDoc \notin Docs
  BY <1>8, ActivationAssumption DEF CSampleIME, Pointers
<1>10. refs' \in Counts /\ Owned(tip', ui', refs')
  <2>1. /\ refs' \in Counts /\ refs'.mgr = refs.mgr
        /\ \A e \in Docs : refs'.ctx[e] = refs.ctx[e] - Holds(tip.edit, e) + Holds(tip'.edit, e)
    BY ZenonT(40), <1>2, <1>9, ExchangeOf DEF Pointers
  <2>2. /\ \A e \in Docs : refs.mgr[e] \in Int /\ refs.ctx[e] \in Int
        /\ Owned(tip, ui, refs) /\ ui' = ui
    BY <1>2, OwnedIsHeld DEF Counts, uiVars
  <2> QED BY <1>8, <1>9, <2>1, <2>2 DEF Owned, Holds
<1>11. HeldIsOwned'
  BY <1>10, OwnedIsHeld DEF HeldIsOwned, Owned, Holds, One
<1> QED BY <1>2, <1>8, <1>10, <1>11, NoPresenterIs
        DEF Activated, Windowed, Remembered, ContextHasWindow, NoSecondWindow, ListComesBack, uiVars

\* What is left to show where the list's pointers and references stay.
LEMMA SameListKeeps ==
  ASSUME UIInv, SameList(ui, ui'), UNCHANGED <<tip, refs>>, ui.exists \/ ui' = ui,
         focus' \in Pointers, thread' \in BOOLEAN,
         ui'.visible => ui'.wnd = "real", NoSecondWindow', ListComesBack', Remembered'
  PROVE  UIInv'
<1>1. Owned(tip', ui', refs')
  <2>1. Owned(tip, ui, refs)
    BY OwnedIsHeld DEF UIInv
  <2> QED BY <2>1 DEF Owned, SameList
<1>2. HeldIsOwned'
  BY <1>1 DEF HeldIsOwned, Owned, Holds, One
<1> QED BY <1>2 DEF UIInv, UITyped, Activated, Windowed, ContextHasWindow, SameList

LEMMA BeginDeactivateKeeps == ASSUME UIInv, BeginDeactivate PROVE UIInv'
<1>1. /\ tip' \in CSampleIME /\ tip'.on = tip.on /\ ~ tip'.engine /\ tip'.sinks = tip.sinks
      /\ tip'.edit = tip.edit /\ tip'.last = tip.last
  BY DEF BeginDeactivate, DeleteEngine, UIInv, UITyped, CSampleIME
<1>2. UNCHANGED <<refs, ui, focus, thread>>
  BY DEF BeginDeactivate, DeleteEngine, uiVars
<1>3. HeldIsOwned'
  BY <1>1, <1>2 DEF HeldIsOwned, UIInv
<1> QED BY <1>1, <1>2, <1>3 DEF UIInv, UITyped, Activated, Windowed, Remembered, ContextHasWindow,
        NoSecondWindow, ListComesBack

LEMMA EndDeactivateKeeps == ASSUME UIInv, EndDeactivate PROVE UIInv'
<1>1. /\ tip' \in CSampleIME /\ ~ tip'.on /\ ~ tip'.engine /\ tip'.sinks = {}
      /\ tip'.edit = tip.edit /\ tip'.last = NoDoc
  BY DEF EndDeactivate, Deactivated, UninitSinks, UIInv, UITyped, CSampleIME
<1>2. ui' = NoPresenter /\ UNCHANGED <<focus, thread>>
  BY DEF EndDeactivate
<1> DEFINE r == Release(refs, "ctx", ui.ctx)
<1>3. refs' = Release(r, "mgr", tip.last)
  BY DEF EndDeactivate
<1>4. refs \in Counts /\ ui.ctx \in Docs \union {NoDoc} /\ tip.last \in Docs \union {NoDoc}
  BY DEF UIInv, UITyped, CCandidateListUIPresenter, CSampleIME
<1>5. r \in Counts /\ r.mgr = refs.mgr /\ \A e \in Docs : r.ctx[e] = refs.ctx[e] - Holds(ui.ctx, e)
  BY <1>4, ReleaseOf
<1> HIDE DEF r
<1>6. /\ refs' \in Counts /\ refs'.ctx = r.ctx
      /\ \A e \in Docs : refs'.mgr[e] = r.mgr[e] - Holds(tip.last, e)
  BY <1>3, <1>4, <1>5, ReleaseOf
<1>7. Owned(tip', ui', refs')
  <2>1. /\ \A e \in Docs : refs.mgr[e] \in Int /\ refs.ctx[e] \in Int
        /\ Owned(tip, ui, refs) /\ NoDoc \notin Docs
    BY <1>4, OwnedIsHeld, ActivationAssumption DEF Counts, UIInv
  <2> QED BY <1>1, <1>2, <1>5, <1>6, <2>1, NoPresenterIs DEF Owned, Holds
<1>8. HeldIsOwned'
  BY <1>7 DEF HeldIsOwned, Owned, Holds, One
<1> QED BY <1>1, <1>2, <1>6, <1>8, NoPresenterIs DEF UIInv, UITyped, Activated, Windowed, Remembered,
        ContextHasWindow, NoSecondWindow, ListComesBack

LEMMA ConvertKeeps == ASSUME UIInv, NEW e \in Answers, Convert(e) PROVE UIInv'
<1>1. focus \in Docs /\ tip.engine /\ UNCHANGED <<tip, focus, thread>>
  BY DEF Convert, UIInv, UITyped, Pointers
<1>2. /\ ui' \in CCandidateListUIPresenter /\ ui'.exists
      /\ \/ /\ ui'.ctx = NoDoc /\ ui'.layout = NoDoc /\ ~ ui'.element /\ ui'.wnd = "none"
            /\ ~ ui'.visible
         \/ /\ ui'.ctx = focus /\ ui'.layout = focus /\ ui'.wnd # "none" /\ ~ ui'.byApp
            /\ ui'.visible <=> ui'.show /\ ui'.wnd = "real"
  <2>1. ui' = StartCandidateList(NewPresenter, focus, e)
    BY DEF Convert, NewPresenter
  <2> QED BY <1>1, <2>1, PresenterStarted
<1>3. refs \in Counts /\ ui.ctx \in Docs \union {NoDoc} /\ ui'.ctx \in Docs \union {NoDoc}
  BY <1>2 DEF UIInv, UITyped, CCandidateListUIPresenter
<1>4. /\ refs' \in Counts /\ refs'.mgr = refs.mgr
      /\ \A d \in Docs : refs'.ctx[d] = refs.ctx[d] - Holds(ui.ctx, d) + Holds(ui'.ctx, d)
  <2>1. refs' = Exchange(refs, "ctx", ui.ctx, ui'.ctx)
    BY DEF Convert
  <2> QED BY <1>3, <2>1, ExchangeOf
<1>5. Owned(tip', ui', refs')
  <2>1. /\ \A d \in Docs : refs.mgr[d] \in Int /\ refs.ctx[d] \in Int
        /\ Owned(tip, ui, refs)
    BY <1>3, OwnedIsHeld DEF Counts, UIInv
  <2> QED BY <1>1, <1>4, <2>1 DEF Owned, Holds
<1>6. HeldIsOwned'
  BY <1>5 DEF HeldIsOwned, Owned, Holds, One
<1>7. thread /\ NoDoc \notin Docs
  BY ActivationAssumption DEF Convert
<1> QED BY <1>1, <1>2, <1>4, <1>6, <1>7 DEF UIInv, UITyped, Activated, Windowed, Remembered,
        ContextHasWindow, NoSecondWindow, ListComesBack

LEMMA EndKeeps == ASSUME UIInv, End PROVE UIInv'
<1>1. /\ ui' \in CCandidateListUIPresenter /\ ui'.exists /\ ui'.ctx = NoDoc /\ ui'.layout = NoDoc
      /\ ~ ui'.element /\ ui'.wnd = "none" /\ ~ ui'.visible
  BY PresenterEnded DEF End, UIInv, UITyped
<1>2. refs \in Counts /\ ui.ctx \in Docs \union {NoDoc} /\ ui.exists /\ UNCHANGED <<tip, focus, thread>>
  BY DEF UIInv, UITyped, CCandidateListUIPresenter, End
<1>3. /\ refs' \in Counts /\ refs'.mgr = refs.mgr
      /\ \A e \in Docs : refs'.ctx[e] = refs.ctx[e] - Holds(ui.ctx, e)
  BY <1>2, ReleaseOf DEF End
<1>4. Owned(tip', ui', refs')
  <2>1. /\ \A d \in Docs : refs.mgr[d] \in Int /\ refs.ctx[d] \in Int
        /\ Owned(tip, ui, refs) /\ NoDoc \notin Docs
    BY <1>2, OwnedIsHeld, ActivationAssumption DEF Counts, UIInv
  <2> QED BY <1>1, <1>2, <1>3, <2>1 DEF Owned, Holds
<1>5. HeldIsOwned'
  BY <1>4 DEF HeldIsOwned, Owned, Holds, One
<1> QED BY <1>1, <1>2, <1>3, <1>5 DEF UIInv, UITyped, Activated, Windowed, Remembered,
        ContextHasWindow, NoSecondWindow, ListComesBack

LEMMA ShowKeeps == ASSUME UIInv, NEW shown \in BOOLEAN, Show(shown) PROVE UIInv'
<1> DEFINE v == IF shown THEN ToShow(ui) ELSE ToHide(ui)
<1>1. SameList(ui, v) /\ (v.visible => ui.wnd = "real")
  BY ShownIs, HiddenIs DEF UIInv, UITyped
<1>2. ui' = [v EXCEPT !.byApp = TRUE] /\ UNCHANGED <<tip, refs, focus, thread>> /\ ui.element
  BY DEF Show
<1> HIDE DEF v
<1>3. SameList(ui, ui') /\ ui'.visible = v.visible /\ ui'.byApp
  BY <1>1, <1>2 DEF SameList, CCandidateListUIPresenter
<1>4. ui.exists
  BY <1>2, NoPresenterIs DEF UIInv, Activated
<1>5. Remembered'
  BY <1>2, <1>3 DEF UIInv, Remembered, SameList
<1> QED BY <1>1, <1>2, <1>3, <1>4, <1>5, SameListKeeps DEF UIInv, UITyped, NoSecondWindow,
        ListComesBack, SameList

\* The document that gets the focus becomes the last focused, and the one listened to.
LEMMA FocusIsOwned ==
  ASSUME UIInv, NEW d \in Docs \union {NoDoc}, NEW accepted \in BOOLEAN, OnSetFocus(d, accepted),
         tip.sinks = Sinks
  PROVE  /\ tip' \in CSampleIME /\ tip'.on = tip.on /\ tip'.engine = tip.engine
         /\ tip'.sinks = tip.sinks /\ tip'.last = d /\ refs' \in Counts
         /\ ui' = FocusMoved(d) /\ thread' = thread /\ focus' = d
         /\ ui'.ctx = ui.ctx => Owned(tip', ui', refs')
<1> DEFINE t == [InitTextEditSink(tip, d, accepted) EXCEPT !.last = d]
<1>1. /\ t \in CSampleIME /\ t.on = tip.on /\ t.engine = tip.engine /\ t.sinks = tip.sinks /\ t.last = d
  <2> DEFINE s == InitTextEditSink(tip, d, accepted)
  <2>1. s \in CSampleIME /\ s.on = tip.on /\ s.engine = tip.engine /\ s.sinks = tip.sinks
    BY DEF InitTextEditSink, UIInv, UITyped, CSampleIME
  <2>2. t = [s EXCEPT !.last = d]
    OBVIOUS
  <2> HIDE DEF s, t
  <2> QED BY <2>1, <2>2 DEF CSampleIME
<1>2. "threadMgr" \in tip.sinks
  <2>1. "threadMgr" \in Sinks
    BY DEF Sinks
  <2> QED BY <2>1
<1>3. tip' = t /\ ui' = FocusMoved(d) /\ thread' = thread /\ focus' = d
  BY <1>2 DEF OnSetFocus
<1> DEFINE r == Exchange(refs, "ctx", tip.edit, tip'.edit)
<1>4. refs' = Exchange(r, "mgr", tip.last, d)
  BY <1>2 DEF OnSetFocus
<1>5. tip' \in CSampleIME
  BY <1>1, <1>3
<1> HIDE DEF t
<1>6. /\ tip.edit \in Docs \union {NoDoc} /\ tip'.edit \in Docs \union {NoDoc}
      /\ tip.last \in Docs \union {NoDoc} /\ refs \in Counts
  BY <1>5 DEF UIInv, UITyped, CSampleIME
<1>7. /\ r \in Counts /\ r.mgr = refs.mgr
      /\ \A e \in Docs : r.ctx[e] = refs.ctx[e] - Holds(tip.edit, e) + Holds(tip'.edit, e)
  BY <1>6, ExchangeOf
<1> HIDE DEF r
<1>8. /\ refs' \in Counts /\ refs'.ctx = r.ctx
      /\ \A e \in Docs : refs'.mgr[e] = r.mgr[e] - Holds(tip.last, e) + Holds(d, e)
  <2>1. r \in Counts
    BY <1>7
  <2>2. /\ Exchange(r, "mgr", tip.last, d) \in Counts /\ Exchange(r, "mgr", tip.last, d).ctx = r.ctx
        /\ \A e \in Docs : Exchange(r, "mgr", tip.last, d).mgr[e] = r.mgr[e] - Holds(tip.last, e) + Holds(d, e)
    BY <1>6, <2>1, ExchangeOf
  <2> QED BY <1>4, <2>2
<1>9. ASSUME ui'.ctx = ui.ctx PROVE Owned(tip', ui', refs')
  <2>1. /\ \A e \in Docs : refs.mgr[e] \in Int /\ refs.ctx[e] \in Int
        /\ Owned(tip, ui, refs) /\ tip'.last = d
    BY <1>1, <1>3, <1>6, OwnedIsHeld DEF Counts, UIInv
  <2> QED BY <1>7, <1>8, <1>9, <2>1 DEF Owned, Holds
<1> QED BY <1>1, <1>3, <1>5, <1>8, <1>9

LEMMA FocusMovedIs ==
  ASSUME UIInv, NEW d \in Docs \union {NoDoc}, NEW v, v = FocusMoved(d)
  PROVE  /\ SameList(ui, v) /\ v.byApp = ui.byApp /\ (v.visible => ui.wnd = "real")
         /\ ui.ctx # NoDoc /\ ui.show => (v.visible <=> ui.ctx = d /\ ui.wnd = "real")
         /\ ~ ui.show => v.visible = ui.visible
         /\ ui.ctx # NoDoc => (v.crossed <=> ui.ctx = d /\ ~thread)
         /\ ui.ctx = NoDoc => v = ui
<1>1. /\ ui \in CCandidateListUIPresenter /\ SameList(ui, ui) /\ thread \in BOOLEAN
      /\ ui.visible => ui.wnd = "real"
  BY DEF SameList, UIInv, UITyped, Windowed
<1>2. CASE ui.ctx = NoDoc
  BY <1>1, <1>2 DEF FocusMoved
<1>3. CASE ui.ctx # NoDoc /\ ui.ctx = d
  <2> DEFINE a == SetThreadFocus(ui)  b == ~thread
  <2>1. v = [a EXCEPT !.crossed = b]
    BY <1>3 DEF FocusMoved
  <2>2. /\ SameList(ui, a) /\ a.byApp = ui.byApp
        /\ ui.show => (a.visible <=> ui.wnd = "real")
        /\ ~ui.show => a.visible = ui.visible
    BY <1>1, ShownIs DEF SetThreadFocus
  <2>3. b \in BOOLEAN
    OBVIOUS
  <2> HIDE DEF a, b
  <2>4. SameList(ui, v) /\ v.byApp = a.byApp /\ v.visible = a.visible /\ v.crossed = b
    BY <1>1, <2>1, <2>2, <2>3, CrossedIs
  <2> QED BY <1>1, <1>3, <2>2, <2>4 DEF b
<1>4. CASE ui.ctx # NoDoc /\ ui.ctx # d
  <2> DEFINE a == KillThreadFocus(ui)  b == FALSE
  <2>1. v = [a EXCEPT !.crossed = b]
    BY <1>4 DEF FocusMoved
  <2>2. /\ SameList(ui, a) /\ a.byApp = ui.byApp
        /\ ui.show => ~a.visible
        /\ ~ui.show => a.visible = ui.visible
    BY <1>1, HiddenIs DEF KillThreadFocus
  <2>8. b \in BOOLEAN
    OBVIOUS
  <2> HIDE DEF a, b
  <2>9. SameList(ui, v) /\ v.byApp = a.byApp /\ v.visible = a.visible /\ v.crossed = b
    BY <1>1, <2>1, <2>2, <2>8, CrossedIs
  <2>3. SameList(ui, v) /\ v.byApp = a.byApp /\ v.visible = a.visible /\ ~v.crossed
    BY <2>9 DEF b
  <2>4. SameList(ui, v) /\ v.byApp = ui.byApp
    BY <2>2, <2>3
  <2>5. ~v.crossed /\ ~(ui.ctx = d)
    BY <1>4, <2>3
  <2>6. CASE ui.show
    <3>1. ~v.visible
      BY <2>2, <2>3, <2>6, Zenon
    <3> QED BY <1>4, <2>4, <2>5, <2>6, <3>1, Zenon
  <2>7. CASE ~ui.show
    <3>1. v.visible = ui.visible
      BY <2>2, <2>3, <2>7, Zenon
    <3> QED BY <1>1, <1>4, <2>4, <2>5, <2>7, <3>1, Zenon
  <2> QED BY <2>6, <2>7
<1> QED BY <1>2, <1>3, <1>4

LEMMA OnSetFocusKeeps ==
  ASSUME UIInv, NEW d \in Docs \union {NoDoc}, NEW accepted \in BOOLEAN, OnSetFocus(d, accepted)
  PROVE  UIInv'
<1>1. CASE tip.sinks = Sinks
  <2>1. /\ tip' \in CSampleIME /\ tip'.on = tip.on /\ tip'.engine = tip.engine
        /\ tip'.sinks = tip.sinks /\ tip'.last = d /\ refs' \in Counts
        /\ ui' = FocusMoved(d) /\ thread' = thread /\ focus' = d
        /\ ui'.ctx = ui.ctx => Owned(tip', ui', refs')
    BY <1>1, FocusIsOwned
  <2>2. /\ SameList(ui, ui') /\ ui'.byApp = ui.byApp /\ (ui'.visible => ui.wnd = "real")
        /\ ui.ctx # NoDoc /\ ui.show => (ui'.visible <=> ui.ctx = d /\ ui.wnd = "real")
        /\ ~ ui.show => ui'.visible = ui.visible
        /\ ui.ctx = NoDoc => ui' = ui
    BY <2>1, FocusMovedIs
  <2>3. HeldIsOwned'
    BY <2>1, <2>2 DEF HeldIsOwned, Owned, Holds, One, SameList
  <2>4. ~ ui.exists => ui' = ui
    BY <2>2, NoPresenterIs DEF UIInv, Activated
  <2> QED BY <2>1, <2>2, <2>3, <2>4 DEF UIInv, UITyped, Activated, Windowed, Remembered, ContextHasWindow,
          NoSecondWindow, ListComesBack, SameList, Pointers
<1>2. CASE tip.sinks = {}
  <2>1. ~ tip.on
    BY <1>2 DEF UIInv, Activated, Sinks
  <2>2. UNCHANGED <<tip, refs, ui, thread>> /\ focus' = d
    BY <1>2 DEF OnSetFocus
  <2>3. ui = NoPresenter
    BY <2>1 DEF UIInv, Activated
  <2>4. SameList(ui, ui')
    BY <2>2 DEF SameList, UIInv, UITyped
  <2> QED BY <2>2, <2>3, <2>4, NoPresenterIs, SameListKeeps DEF UIInv, UITyped, Windowed, Remembered,
          NoSecondWindow, ListComesBack, Pointers
<1> QED BY <1>1, <1>2 DEF UIInv, Activated

LEMMA ThreadBackIs ==
  ASSUME UIInv, OnSetThreadFocus
  PROVE  /\ UNCHANGED <<tip, refs, focus>> /\ ~ thread /\ thread' = TRUE
         /\ SameList(ui, ui') /\ ui'.byApp = ui.byApp /\ (ui.exists \/ ui' = ui)
         /\ IF ui.exists /\ ui.ctx # NoDoc /\ ui.ctx = tip.last /\ ui.show
            THEN ui'.visible <=> ui.wnd = "real" ELSE ui'.visible = ui.visible
         /\ ui.exists => (ui'.crossed <=> ui.crossed /\ ui.ctx # focus)
<1>1. UNCHANGED <<tip, refs, focus>> /\ ~ thread /\ thread' = TRUE
  BY DEF OnSetThreadFocus
<1> DEFINE shows == ui.exists /\ ui.ctx # NoDoc /\ ui.ctx = tip.last /\ ui.show
           a == IF shows THEN ToShow(ui) ELSE ui
           b == ui.crossed /\ ui.ctx # focus
<1>2. ui' = IF ui.exists THEN [a EXCEPT !.crossed = b] ELSE ui
  <2>1. /\ tip.sinks = Sinks \/ tip.sinks = {}
        /\ ui.exists => tip.sinks = Sinks
    BY DEF UIInv, Activated
  <2>2. ui.exists => "threadFocus" \in tip.sinks
    BY <2>1 DEF Sinks
  <2> HIDE DEF b
  <2>3. CASE ui.exists
    <3>1. ui' = [(IF ui.ctx # NoDoc /\ ui.ctx = tip.last THEN SetThreadFocus(ui) ELSE ui)
                   EXCEPT !.crossed = b]
      BY <2>2, <2>3 DEF OnSetThreadFocus, b
    <3>2. (IF ui.ctx # NoDoc /\ ui.ctx = tip.last THEN SetThreadFocus(ui) ELSE ui) = a
      BY <2>3 DEF SetThreadFocus
    <3> QED BY <2>3, <3>1, <3>2
  <2>4. CASE ~ui.exists
    BY <2>4 DEF OnSetThreadFocus
  <2> QED BY <2>3, <2>4
<1>3. /\ ui \in CCandidateListUIPresenter /\ SameList(ui, ui) /\ b \in BOOLEAN
  BY DEF SameList, UIInv, UITyped, CCandidateListUIPresenter
<1>4. /\ SameList(ui, a) /\ a.byApp = ui.byApp
      /\ IF shows THEN a.visible <=> ui.wnd = "real" ELSE a = ui
  BY <1>3, ShownIs
<1> HIDE DEF a, b
<1>5. SameList(ui, ui') /\ ui'.byApp = ui.byApp /\ ui'.visible = a.visible
      /\ (ui.exists => ui'.crossed = b)
  <2>1. CASE ui.exists
    BY <1>2, <1>3, <1>4, <2>1, CrossedIs
  <2>2. CASE ~ui.exists
    BY <1>2, <1>3, <1>4, <2>2
  <2> QED BY <2>1, <2>2
<1>6. IF shows THEN ui'.visible <=> ui.wnd = "real" ELSE ui'.visible = ui.visible
  BY <1>4, <1>5
<1>7. ui.exists \/ ui' = ui
  BY <1>2
<1> QED BY <1>1, <1>5, <1>6, <1>7 DEF b

LEMMA OnSetThreadFocusKeeps == ASSUME UIInv, OnSetThreadFocus PROVE UIInv'
<1> DEFINE shows == ui.exists /\ ui.ctx # NoDoc /\ ui.ctx = tip.last /\ ui.show
<1>1. /\ UNCHANGED <<tip, refs, focus>> /\ ~ thread /\ thread' = TRUE
      /\ SameList(ui, ui') /\ ui'.byApp = ui.byApp /\ (ui.exists \/ ui' = ui)
      /\ IF shows THEN ui'.visible <=> ui.wnd = "real" ELSE ui'.visible = ui.visible
  BY ThreadBackIs
<1>2. CASE shows
  BY <1>1, <1>2, SameListKeeps
     DEF UIInv, UITyped, Remembered, NoSecondWindow, ListComesBack, SameList
<1>3. CASE ~ shows
  <2>1. ListComesBack'
    BY <1>1, <1>3, NoPresenterIs
       DEF UIInv, Remembered, Windowed, Activated, ListComesBack, SameList
  <2> QED BY <1>1, <1>3, <2>1, SameListKeeps
          DEF UIInv, UITyped, Windowed, Remembered, NoSecondWindow, SameList
<1> QED BY <1>2, <1>3

LEMMA ThreadGoneIs ==
  ASSUME UIInv, OnKillThreadFocus
  PROVE  /\ IF ui.exists /\ ui.ctx # NoDoc
            THEN /\ tip' = [tip EXCEPT !.last = ui.ctx]
                 /\ refs' = AddRef(Exchange(refs, "mgr", tip.last, ui.ctx), "mgr", ui.ctx)
            ELSE UNCHANGED <<tip, refs>>
         /\ focus' = focus /\ thread' = FALSE
         /\ SameList(ui, ui') /\ ui'.byApp = ui.byApp /\ (ui.exists \/ ui' = ui)
         /\ ui.exists /\ ui.show => ~ ui'.visible
         /\ ui'.visible => ui.visible
         /\ ui.exists => (ui'.crossed <=> ui.ctx \notin {NoDoc, focus})
<1> DEFINE moves == ui.exists /\ ui.ctx # NoDoc
<1>1. "threadFocus" \in tip.sinks <=> tip.on
  BY DEF UIInv, Activated, Sinks
<1>2. ui.exists => tip.on
  BY DEF UIInv, Activated
<1>3. /\ tip' = IF moves THEN [tip EXCEPT !.last = ui.ctx] ELSE tip
      /\ refs' = IF moves THEN AddRef(Exchange(refs, "mgr", tip.last, ui.ctx), "mgr", ui.ctx) ELSE refs
      /\ ui' = IF ui.exists THEN [KillThreadFocus(ui) EXCEPT !.crossed = ui.ctx \notin {NoDoc, focus}]
               ELSE ui
      /\ focus' = focus /\ thread' = FALSE
  BY <1>1, <1>2 DEF OnKillThreadFocus
<1>4. /\ SameList(ui, ui') /\ ui'.byApp = ui.byApp /\ (ui'.visible => ui.visible)
      /\ ui.exists /\ ui.show => ~ ui'.visible
      /\ ui.exists => (ui'.crossed <=> ui.ctx \notin {NoDoc, focus})
  <2> DEFINE a == KillThreadFocus(ui)  b == ui.ctx \notin {NoDoc, focus}
  <2>1. ui \in CCandidateListUIPresenter /\ SameList(ui, ui) /\ b \in BOOLEAN
    BY DEF SameList, UIInv, UITyped
  <2>2. SameList(ui, a) /\ a.byApp = ui.byApp /\ (a.visible => ui.visible)
        /\ (ui.show => ~ a.visible)
    BY <2>1, HiddenIs DEF KillThreadFocus
  <2>3. ui' = IF ui.exists THEN [a EXCEPT !.crossed = b] ELSE ui
    BY <1>3
  <2> HIDE DEF a, b
  <2>4. CASE ui.exists
    <3>1. SameList(ui, ui') /\ ui'.byApp = a.byApp /\ ui'.visible = a.visible /\ ui'.crossed = b
      BY <2>1, <2>2, <2>3, <2>4, CrossedIs
    <3> QED BY <2>2, <3>1 DEF b
  <2>5. CASE ~ui.exists
    BY <2>1, <2>3, <2>5
  <2> QED BY <2>4, <2>5
<1>5. ui.exists \/ ui' = ui
  BY <1>3
<1> QED BY <1>3, <1>4, <1>5

LEMMA OnKillThreadFocusKeeps == ASSUME UIInv, OnKillThreadFocus PROVE UIInv'
<1> DEFINE moves == ui.exists /\ ui.ctx # NoDoc
<1>3. /\ IF moves THEN /\ tip' = [tip EXCEPT !.last = ui.ctx]
                       /\ refs' = AddRef(Exchange(refs, "mgr", tip.last, ui.ctx), "mgr", ui.ctx)
         ELSE UNCHANGED <<tip, refs>>
      /\ focus' = focus /\ thread' = FALSE
  BY ThreadGoneIs
<1>4. /\ SameList(ui, ui') /\ ui'.byApp = ui.byApp /\ (ui'.visible => ui.visible)
      /\ ui.exists \/ ui' = ui
  BY ThreadGoneIs
<1>5. CASE ~ moves
  <2>1. UNCHANGED <<tip, refs>>
    BY <1>3, <1>5
  <2>2. ui.wnd # "real"
    BY <1>5, NoPresenterIs DEF UIInv, Activated, Windowed
  <2> QED BY <1>3, <1>4, <2>1, <2>2, SameListKeeps DEF UIInv, UITyped, Windowed, Remembered,
          NoSecondWindow, ListComesBack, SameList
<1>6. CASE moves
  <2>1. /\ tip' \in CSampleIME /\ tip'.on = tip.on /\ tip'.engine = tip.engine
        /\ tip'.sinks = tip.sinks /\ tip'.edit = tip.edit /\ tip'.last = ui.ctx
    BY <1>3, <1>6 DEF UIInv, UITyped, CSampleIME, CCandidateListUIPresenter
  <2>2. refs \in Counts /\ tip.last \in Docs \union {NoDoc} /\ ui.ctx \in Docs \union {NoDoc}
    BY DEF UIInv, UITyped, CSampleIME, CCandidateListUIPresenter
  <2> DEFINE r == Exchange(refs, "mgr", tip.last, ui.ctx)
  <2>3. /\ r \in Counts /\ r.ctx = refs.ctx
        /\ \A e \in Docs : r.mgr[e] = refs.mgr[e] - Holds(tip.last, e) + Holds(ui.ctx, e)
    BY <2>2, ExchangeOf
  <2>4. refs' = AddRef(r, "mgr", ui.ctx)
    BY <1>3, <1>6
  <2> HIDE DEF r
  <2>5. /\ refs' \in Counts /\ refs'.ctx = r.ctx
        /\ \A e \in Docs : refs'.mgr[e] = r.mgr[e] + Holds(ui.ctx, e)
    BY <2>2, <2>3, <2>4, AddRefOf
  <2>6. Owned(tip', ui', refs')
    <3>1. /\ \A e \in Docs : refs.mgr[e] \in Int /\ refs.ctx[e] \in Int
          /\ Owned(tip, ui, refs) /\ ui'.ctx = ui.ctx
      BY <1>4, <2>2, OwnedIsHeld DEF Counts, UIInv, SameList
    <3> QED BY <2>1, <2>3, <2>5, <3>1 DEF Owned, Holds
  <2>7. HeldIsOwned'
    BY <2>6 DEF HeldIsOwned, Owned, Holds, One
  <2> QED BY <1>3, <1>4, <1>6, <2>1, <2>5, <2>7 DEF UIInv, UITyped, Activated, Windowed, Remembered,
          ContextHasWindow, NoSecondWindow, ListComesBack, SameList
<1> QED BY <1>5, <1>6

LEMMA UIKeeps == ASSUME UIInv, [UIStep]_<<tipVars, uiVars>> PROVE UIInv'
<1>1. CASE UNCHANGED <<tipVars, uiVars>>
  BY <1>1 DEF tipVars, uiVars, UIInv, UITyped, Activated, Windowed, Remembered, HeldIsOwned,
     ContextHasWindow, NoSecondWindow, ListComesBack
<1>2. CASE UIStep
  BY <1>2, ActivateKeeps, BeginDeactivateKeeps, EndDeactivateKeeps, ConvertKeeps, EndKeeps, ShowKeeps,
     OnSetFocusKeeps, OnSetThreadFocusKeeps, OnKillThreadFocusKeeps
     DEF UIStep, UINext, DeleteCandidateList, LayoutDestroy
<1> QED BY <1>1, <1>2

LEMMA UIIsSafe == UIInv => NothingDangles /\ NoSecondWindow /\ ListComesBack
BY NoPresenterIs DEF UIInv, NothingDangles, DeletedIsUnheld, Activated, Windowed

(* However documents and threads take the focus, lists are started and     *)
(* ended and the processor is activated and deactivated, half-way too,     *)
(* every pointer holds its reference, TSF holds no presenter that has been *)
(* deleted, and a context comes with a window.                             *)
THEOREM NothingDanglesHolds == UISpec => []NothingDangles
<1>1. UIInv /\ [UINext]_<<tipVars, uiVars>> => UIInv'
  BY UIKeeps DEF UIStep
<1> QED BY <1>1, UIBegins, UIIsSafe, PTL DEF UISpec

(* An application that draws the list itself never gets a second one, and  *)
(* the service's own comes back with its document and its thread.          *)
THEOREM ListComesBackHolds == UISpec => [](NoSecondWindow /\ ListComesBack)
<1>1. UIInv /\ [UINext]_<<tipVars, uiVars>> => UIInv'
  BY UIKeeps DEF UIStep
<1> QED BY <1>1, UIBegins, UIIsSafe, PTL DEF UISpec

-----------------------------------------------------------------------------
(* The device stack.                                                       *)

\* A stack is built whole or not at all, and shows what is drawn unless a paint
\* has failed to attach it.
StackSound(s, torn) ==
  /\ s \in Surfaces
  /\ IF IsAvailable(s) THEN s.have = Built ELSE s = Released
  /\ s.chain \in {0, s.width}
  /\ IsAvailable(s) => torn \/ (s.attached /\ s.chain # 0)

LEMMA SizesAreThere == \A size \in 0..MaxSize : AtLeastOne(size) \in 0..MaxSize /\ AtLeastOne(size) # 0
BY DrawingAssumption DEF AtLeastOne

LEMMA ReleasedIs ==
  /\ Released \in Surfaces /\ ~ IsAvailable(Released) /\ "d2dContext" \in Built
  /\ Released.have = {} /\ Released.chain = 0 /\ Released.width = 0
  /\ ~ Released.back /\ ~ Released.attached /\ ~ Released.lost
  /\ \A torn : StackSound(Released, torn)
<1>1. /\ Released \in Surfaces /\ ~ IsAvailable(Released)
      /\ Released.have = {} /\ Released.chain = 0 /\ Released.width = 0
      /\ ~ Released.back /\ ~ Released.attached /\ ~ Released.lost
  BY DrawingAssumption DEF Released, Surfaces, IsAvailable
<1>2. "d2dContext" \in Built
  <2>1. 4 \in DOMAIN Stack /\ Stack[4] = "d2dContext"
    BY DEF Stack
  <2> QED BY <2>1 DEF Built
<1> QED BY <1>1, <1>2 DEF StackSound

LEMMA InitializeIs ==
  ASSUME NEW s, NEW torn, StackSound(s, torn), NEW failing
  PROVE  LET r == Initialize(s, failing)
         IN /\ r \in Surfaces
            /\ IsAvailable(s) => r = s
            /\ ~ IsAvailable(s) /\ failing \in Built => r = Released
            /\ ~ IsAvailable(s) /\ failing \notin Built =>
                 /\ r.have = Built /\ IsAvailable(r) /\ r.chain = 0 /\ r.width = 0
                 /\ ~ r.back /\ ~ r.attached /\ ~ r.lost
<1> DEFINE whole == [Released EXCEPT !.have = Built]
<1>1. /\ whole \in Surfaces /\ whole.have = Built /\ IsAvailable(whole) /\ whole.chain = 0 /\ whole.width = 0
      /\ ~ whole.back /\ ~ whole.attached /\ ~ whole.lost
  BY ReleasedIs DEF Surfaces, IsAvailable
<1>2. /\ IsAvailable(s) => Initialize(s, failing) = s
      /\ ~ IsAvailable(s) /\ failing \in Built => Initialize(s, failing) = Released
      /\ ~ IsAvailable(s) /\ failing \notin Built => Initialize(s, failing) = whole
  BY DEF Initialize
<1> HIDE DEF whole
<1>3. s \in Surfaces
  BY DEF StackSound
<1> QED BY <1>1, <1>2, <1>3, ReleasedIs

\* Attached to a window, as far as nothing fails.
LEMMA AttachIs ==
  ASSUME NEW s \in Surfaces, NEW size \in 0..MaxSize, NEW failing,
         IF IsAvailable(s) THEN s.have = Built ELSE s = Released
  PROVE  LET a == Attach(s, size, failing)
         IN /\ StackSound(a, TRUE)
            /\ IsAvailable(a) <=> IsAvailable(s)
            /\ ~ AttachFails(s, failing) =>
                 /\ \A torn : StackSound(a, torn)
                 /\ IsAvailable(a) /\ a.attached /\ a.width = AtLeastOne(size)
                 /\ a.chain = a.width /\ a.lost = s.lost /\ a.back = s.back
<1> DEFINE width == AtLeastOne(size)
<1>1. width \in 0..MaxSize /\ width # 0
  BY SizesAreThere
<1>2. CASE ~ IsAvailable(s)
  <2>1. Attach(s, size, failing) = s /\ AttachFails(s, failing) /\ s = Released
    BY <1>2 DEF Attach, AttachFails
  <2> QED BY <1>2, <2>1, ReleasedIs
<1>3. CASE IsAvailable(s)
  <2> DEFINE c == IF failing = "swapChain" THEN 0 ELSE width
  <2> DEFINE b == failing \notin {"swapChain", "attach"}
  <2> DEFINE a == [s EXCEPT !.width = width, !.chain = c, !.attached = b]
  <2>1. Attach(s, size, failing) = a
    BY <1>3 DEF Attach
  <2>2. (AttachFails(s, failing) <=> ~ b) /\ c \in {0, width} /\ c \in 0..MaxSize /\ (b => c # 0) /\ b \in BOOLEAN
    BY <1>1, <1>3, DrawingAssumption DEF AttachFails
  <2>3. width = AtLeastOne(size)
    OBVIOUS
  <2> HIDE DEF c, b, width
  <2>4. /\ a \in Surfaces /\ a.have = s.have /\ a.width = width /\ a.chain = c
        /\ a.attached = b /\ a.lost = s.lost /\ a.back = s.back
    BY <1>1, <2>2 DEF Surfaces
  <2> HIDE DEF a
  <2>5. IsAvailable(a)
    BY <1>3, <2>4 DEF IsAvailable
  <2>6. s.have = Built /\ a.have = Built /\ a.chain \in {0, a.width}
    BY <1>3, <2>2, <2>4
  <2>7. StackSound(a, TRUE)
    BY <2>4, <2>5, <2>6 DEF StackSound
  <2>8. ASSUME ~ AttachFails(s, failing)
        PROVE  /\ \A torn : StackSound(a, torn)
               /\ a.attached /\ a.width = AtLeastOne(size) /\ a.chain = a.width
    <3>1. b /\ a.attached
      BY <2>2, <2>4, <2>8
    <3>2. a.chain = a.width /\ a.chain # 0
      BY <1>1, <2>2, <2>4, <3>1
    <3> QED BY <2>3, <2>4, <2>5, <2>6, <3>1, <3>2 DEF StackSound
  <2> QED BY <1>3, <2>1, <2>4, <2>5, <2>7, <2>8
<1> QED BY <1>2, <1>3

LEMMA ResizeIs ==
  ASSUME NEW s, NEW torn, StackSound(s, torn), IsAvailable(s), NEW size \in 0..MaxSize, NEW failing
  PROVE  LET r == Resize(s, size, failing)
         IN /\ StackSound(r, torn) /\ IsAvailable(r)
            /\ r.lost = s.lost /\ (r.attached <=> s.attached) /\ (r.back => s.back)
            /\ failing # "resize" /\ ~ s.lost => r.width = AtLeastOne(size)
            /\ r.chain = 0 <=> s.chain = 0
<1> DEFINE width == AtLeastOne(size)
<1>1. width \in 0..MaxSize /\ width # 0 /\ width = AtLeastOne(size)
  BY SizesAreThere
<1>2. s \in Surfaces /\ s.have = Built /\ s.chain \in {0, s.width} /\ (torn \/ (s.attached /\ s.chain # 0))
  BY DEF StackSound
<1>3. CASE width = s.width
  <2>1. Resize(s, size, failing) = s
    BY <1>3 DEF Resize
  <2> QED BY <1>1, <1>3, <2>1
<1>4. CASE width # s.width /\ s.chain = 0
  <2> DEFINE r == [s EXCEPT !.width = width]
  <2>1. Resize(s, size, failing) = r
    BY <1>4 DEF Resize
  <2> HIDE DEF width
  <2>2. /\ r \in Surfaces /\ r.have = s.have /\ r.width = width /\ r.chain = s.chain
        /\ r.attached = s.attached /\ r.lost = s.lost /\ r.back = s.back
    BY <1>1, <1>2 DEF Surfaces
  <2> HIDE DEF r
  <2>3. IsAvailable(r)
    BY <2>2 DEF IsAvailable
  <2> QED BY <1>1, <1>2, <1>4, <2>1, <2>2, <2>3 DEF StackSound
<1>5. CASE width # s.width /\ s.chain # 0 /\ (failing = "resize" \/ s.lost)
  <2> DEFINE r == [s EXCEPT !.back = FALSE]
  <2>1. Resize(s, size, failing) = r
    BY <1>5 DEF Resize
  <2> HIDE DEF width
  <2>2. /\ r \in Surfaces /\ r.have = s.have /\ r.width = s.width /\ r.chain = s.chain
        /\ r.attached = s.attached /\ r.lost = s.lost /\ ~ r.back
    BY <1>1, <1>2 DEF Surfaces
  <2> HIDE DEF r
  <2>3. IsAvailable(r)
    BY <2>2 DEF IsAvailable
  <2> QED BY <1>1, <1>2, <1>5, <2>1, <2>2, <2>3 DEF StackSound
<1>6. CASE width # s.width /\ s.chain # 0 /\ ~ (failing = "resize" \/ s.lost)
  <2> DEFINE r == [s EXCEPT !.back = FALSE, !.width = width, !.chain = width]
  <2>1. Resize(s, size, failing) = r
    BY <1>6 DEF Resize
  <2> HIDE DEF width
  <2>2. /\ r \in Surfaces /\ r.have = s.have /\ r.width = width /\ r.chain = width
        /\ r.attached = s.attached /\ r.lost = s.lost /\ ~ r.back
    BY <1>1, <1>2 DEF Surfaces
  <2> HIDE DEF r
  <2>3. IsAvailable(r)
    BY <2>2 DEF IsAvailable
  <2> QED BY <1>1, <1>2, <1>6, <2>1, <2>2, <2>3 DEF StackSound
<1> QED BY <1>3, <1>4, <1>5, <1>6

LEMMA EndDrawIs ==
  ASSUME NEW s, NEW torn, StackSound(s, torn), IsAvailable(s), NEW failing
  PROVE  LET r == EndDraw(s, failing)
         IN /\ StackSound(r, torn)
            /\ DrawFails(s, failing) => r = Released
            /\ ~ DrawFails(s, failing) =>
                 /\ IsAvailable(r) /\ r.width = s.width /\ r.chain = s.chain /\ (r.attached <=> s.attached)
                 /\ ~ s.lost
<1>1. CASE DrawFails(s, failing)
  <2>1. EndDraw(s, failing) = Released
    BY <1>1 DEF EndDraw
  <2> QED BY <1>1, <2>1, ReleasedIs
<1>2. CASE ~ DrawFails(s, failing)
  <2> DEFINE r == [s EXCEPT !.back = TRUE]
  <2>1. EndDraw(s, failing) = r /\ ~ s.lost
    BY <1>2 DEF EndDraw, DrawFails
  <2>2. s \in Surfaces
    BY DEF StackSound
  <2>3. /\ r \in Surfaces /\ r.have = s.have /\ r.width = s.width /\ r.chain = s.chain
        /\ r.attached = s.attached /\ r.lost = s.lost
    BY <2>2 DEF Surfaces
  <2> HIDE DEF r
  <2>4. IsAvailable(r)
    BY <2>3 DEF IsAvailable
  <2> QED BY <1>2, <2>1, <2>3, <2>4 DEF StackSound
<1> QED BY <1>1, <1>2

-----------------------------------------------------------------------------
(* The window.                                                             *)

Excused(d) ==
  \/ d.size = 0 \/ d.torn \/ (d.surface.lost /\ ~ d.surface.back)
  \/ d.wnd = "composed" /\ d.renderer = "unavailable"

ShadowIsThere(d) ==
  d.shadow.exists /\ d.visible =>
    /\ d.shadow.visible /\ d.shadow.place = d.place /\ d.shadow.size = d.size
    /\ d.shadow.gradient => d.shadow.drawn = d.size

\* One paint may miss without an excuse, the one that releases a lost device.
WholeDrawing(d) ==
  /\ d \in Drawings /\ StackSound(d.surface, d.torn)
  /\ d.stack <=> d.wnd = "composed"
  /\ d.wnd # "composed" => d.surface = Released
  /\ d.wnd = "composed" /\ d.said => IsAvailable(d.surface)
  /\ d.wnd = "composed" /\ d.said /\ ~ d.stale => d.surface.chain = AtLeastOne(d.size)
  /\ d.misses = 0 \/ Excused(d) \/ (d.misses = 1 /\ ~ IsAvailable(d.surface))
  /\ ShadowIsThere(d)

LEMMA WholeIsTrue == ASSUME WholeDrawing(draw) PROVE DrawnIsTrue
<1>1. draw.surface.attached \in BOOLEAN /\ draw.misses \in 0..2 /\ draw.torn \in BOOLEAN
  BY DEF WholeDrawing, Drawings, Surfaces
<1>2. AvailableIsWhole /\ DrawnIsShown
  BY <1>1 DEF WholeDrawing, StackSound, AvailableIsWhole, DrawnIsShown
<1>3. DrawnFits /\ ShadowFollows
  BY DEF WholeDrawing, ShadowIsThere, DrawnFits, ShadowFollows
<1>4. NothingFailsForLong
  BY <1>1 DEF WholeDrawing, Excused, NothingFailsForLong
<1> QED BY <1>2, <1>3, <1>4 DEF DrawnIsTrue

\* Everything but what a paint changes.
SameWindow(d, e) ==
  /\ e \in Drawings /\ e.wnd = d.wnd /\ e.size = d.size /\ e.place = d.place
  /\ e.visible = d.visible /\ e.stack = d.stack /\ e.shadow = d.shadow /\ e.misses = d.misses

LEMMA PaintedIs ==
  ASSUME NEW e \in Drawings, NEW said \in BOOLEAN, NEW failing
  PROVE  LET p == Painted(e, said, failing)
         IN /\ p \in Drawings /\ p.wnd = e.wnd /\ p.size = e.size /\ p.place = e.place
            /\ p.visible = e.visible /\ p.stack = e.stack /\ p.shadow = e.shadow
            /\ p.surface = e.surface /\ p.renderer = e.renderer /\ p.torn = e.torn
            /\ p.said = said /\ (p.stale <=> said /\ failing = "resize")
            /\ p.misses = IF Seen(e, said) \/ failing # "none" THEN 0
                          ELSE IF e.misses = 2 THEN 2 ELSE e.misses + 1
<1> DEFINE misses == IF Seen(e, said) \/ failing # "none" THEN 0
                     ELSE IF e.misses = 2 THEN 2 ELSE e.misses + 1
<1> DEFINE stale == said /\ failing = "resize"
<1>1. misses \in 0..2 /\ stale \in BOOLEAN
  BY DEF Drawings
<1> DEFINE p == [e EXCEPT !.said = said, !.stale = stale, !.misses = misses]
<1>2. Painted(e, said, failing) = p
  BY DEF Painted
<1>3. /\ misses = IF Seen(e, said) \/ failing # "none" THEN 0
                  ELSE IF e.misses = 2 THEN 2 ELSE e.misses + 1
      /\ stale <=> said /\ failing = "resize"
  OBVIOUS
<1> HIDE DEF misses, stale
<1>4. /\ p \in Drawings /\ p.wnd = e.wnd /\ p.size = e.size /\ p.place = e.place
      /\ p.visible = e.visible /\ p.stack = e.stack /\ p.shadow = e.shadow
      /\ p.surface = e.surface /\ p.renderer = e.renderer /\ p.torn = e.torn
      /\ p.said = said /\ p.stale = stale /\ p.misses = misses
  BY <1>1 DEF Drawings
<1> HIDE DEF p
<1> QED BY <1>2, <1>3, <1>4

LEMMA PaintedIsWhole ==
  ASSUME NEW d, WholeDrawing(d), NEW e, SameWindow(d, e), NEW said \in BOOLEAN, NEW failing,
         StackSound(e.surface, e.torn),
         e.wnd # "composed" => e.surface = Released,
         e.wnd = "composed" /\ said => IsAvailable(e.surface),
         e.wnd = "composed" /\ said /\ failing # "resize" => e.surface.chain = AtLeastOne(e.size),
         failing = "none" /\ ~ Seen(e, said) =>
           Excused(e) \/ (d.misses = 0 /\ ~ IsAvailable(e.surface))
  PROVE  WholeDrawing(Painted(e, said, failing))
<1> DEFINE p == Painted(e, said, failing)
<1>1. e \in Drawings
  BY DEF SameWindow
<1>2. /\ p \in Drawings /\ p.wnd = e.wnd /\ p.size = e.size /\ p.place = e.place
      /\ p.visible = e.visible /\ p.stack = e.stack /\ p.shadow = e.shadow
      /\ p.surface = e.surface /\ p.renderer = e.renderer /\ p.torn = e.torn
      /\ p.said = said /\ (p.stale <=> said /\ failing = "resize")
      /\ p.misses = IF Seen(e, said) \/ failing # "none" THEN 0
                    ELSE IF e.misses = 2 THEN 2 ELSE e.misses + 1
  BY <1>1, PaintedIs
<1> HIDE DEF p
<1>3. ShadowIsThere(p)
  BY <1>2 DEF WholeDrawing, SameWindow, ShadowIsThere
<1>4. Excused(e) => Excused(p)
  BY <1>2 DEF Excused
<1>5. p.misses = 0 \/ Excused(p) \/ (p.misses = 1 /\ ~ IsAvailable(p.surface))
  <2>1. CASE Seen(e, said) \/ failing # "none"
    BY <1>2, <2>1
  <2>2. CASE ~ (Seen(e, said) \/ failing # "none")
    <3>1. CASE Excused(e)
      BY <1>4, <3>1
    <3>2. CASE d.misses = 0 /\ ~ IsAvailable(e.surface)
      <4>1. e.misses = 0
        BY <3>2 DEF SameWindow
      <4> QED BY <1>2, <2>2, <3>2, <4>1
    <3> QED BY <2>2, <3>1, <3>2
  <2> QED BY <2>1, <2>2
<1>6. p.stack <=> p.wnd = "composed"
  BY <1>2 DEF WholeDrawing, SameWindow
<1>7. /\ StackSound(p.surface, p.torn)
      /\ p.wnd # "composed" => p.surface = Released
      /\ p.wnd = "composed" /\ p.said => IsAvailable(p.surface)
      /\ p.wnd = "composed" /\ p.said /\ ~ p.stale => p.surface.chain = AtLeastOne(p.size)
  BY <1>2
<1> QED BY <1>2, <1>3, <1>5, <1>6, <1>7 DEF WholeDrawing, p

LEMMA NoneIsNotBuilt == "none" \notin Built
BY DEF Built, Stack

\* A composed window is painted, with a renderer.
LEMMA SurfacePaints ==
  ASSUME NEW d, WholeDrawing(d), NEW e, SameWindow(d, e), e.surface = d.surface, e.torn = d.torn,
         d.wnd = "composed", e.renderer = "ready", d.renderer # "unavailable", NEW failing
  PROVE  WholeDrawing(DrawOnSurface(e, failing))
<1> DEFINE again == ~ IsAvailable(e.surface)
<1> DEFINE ready == Initialize(e.surface, failing)
<1> DEFINE failed == again /\ AttachFails(ready, failing)
<1> DEFINE tried == IF again THEN Attach(ready, e.size, failing) ELSE e.surface
<1> DEFINE resized == Resize(tried, e.size, failing)
<1> DEFINE torn == e.torn \/ IsAvailable(ready)
<1>1. /\ StackSound(e.surface, e.torn) /\ e.size \in 0..MaxSize /\ e \in Drawings /\ e.torn \in BOOLEAN
  BY DEF WholeDrawing, SameWindow, Drawings
<1>2. /\ ready \in Surfaces
      /\ ~ again => ready = e.surface
      /\ again /\ failing \in Built => ready = Released
      /\ again /\ failing \notin Built =>
           /\ ready.have = Built /\ IsAvailable(ready) /\ ready.chain = 0 /\ ready.width = 0
           /\ ~ ready.back /\ ~ ready.attached /\ ~ ready.lost
  BY <1>1, InitializeIs
<1>3. again => IF IsAvailable(ready) THEN ready.have = Built ELSE ready = Released
  BY <1>2, ReleasedIs
<1>4. CASE failed
  <2>1. ~ IsAvailable(ready) => tried = Released
    BY <1>3, <1>4 DEF Attach
  <2>2. StackSound(tried, torn)
    <3>1. CASE IsAvailable(ready)
      BY <1>1, <1>2, <1>3, <1>4, <3>1, AttachIs
    <3>2. CASE ~ IsAvailable(ready)
      BY <2>1, <3>2, ReleasedIs
    <3> QED BY <3>1, <3>2
  <2> DEFINE x == [e EXCEPT !.surface = tried, !.torn = torn]
  <2>3. DrawOnSurface(e, failing) = Painted(x, FALSE, failing)
    BY <1>4 DEF DrawOnSurface
  <2>4. failing # "none"
    <3>1. "none" \notin Built
      BY NoneIsNotBuilt
    <3> QED BY <1>2, <1>4, <3>1 DEF AttachFails
  <2>5. tried \in Surfaces /\ torn \in BOOLEAN
    BY <1>1, <2>2 DEF StackSound
  <2> HIDE DEF again, ready, failed, tried, resized, torn
  <2>6. SameWindow(d, x) /\ x.surface = tried /\ x.torn = torn /\ x.wnd = "composed"
    BY <2>5 DEF SameWindow, Drawings
  <2> HIDE DEF x
  <2>7. WholeDrawing(Painted(x, FALSE, failing))
    BY <2>2, <2>4, <2>6, PaintedIsWhole
  <2> QED BY <2>3, <2>7
<1>5. ASSUME ~ failed
      PROVE  /\ StackSound(tried, e.torn) /\ IsAvailable(tried)
             /\ again => ~ tried.lost
             /\ ~ again => tried = d.surface
  <2>1. CASE again
    <3>1. /\ ~ AttachFails(ready, failing) /\ IsAvailable(ready)
      BY <1>5, <2>1 DEF AttachFails
    <3>2. ~ ready.lost
      BY <1>2, <2>1, <3>1, ReleasedIs
    <3>3. tried = Attach(ready, e.size, failing)
      BY <2>1
    <3>4. IF IsAvailable(ready) THEN ready.have = Built ELSE ready = Released
      BY <1>3, <2>1
    <3> HIDE DEF again, ready, failed, tried
    <3>5. StackSound(tried, e.torn) /\ IsAvailable(tried) /\ tried.lost = ready.lost
      BY <1>1, <1>2, <3>1, <3>3, <3>4, AttachIs
    <3> QED BY <2>1, <3>2, <3>5
  <2>2. CASE ~ again
    BY <1>1, <2>2
  <2> QED BY <2>1, <2>2
<1>6. ASSUME ~ failed
      PROVE  /\ StackSound(resized, e.torn) /\ IsAvailable(resized)
             /\ resized.lost = tried.lost /\ (resized.back => tried.back)
             /\ failing # "resize" /\ ~ tried.lost => resized.width = AtLeastOne(e.size)
  BY <1>1, <1>5, <1>6, ResizeIs
<1>7. CASE ~ failed /\ ~ Begins(resized, failing)
  <2> DEFINE x == [e EXCEPT !.surface = resized]
  <2>1. DrawOnSurface(e, failing) = Painted(x, FALSE, failing)
    BY <1>7 DEF DrawOnSurface
  <2>2. /\ StackSound(resized, e.torn) /\ IsAvailable(resized) /\ resized \in Surfaces
    BY <1>6, <1>7 DEF StackSound
  <2>3. failing = "none" => e.torn \/ (resized.lost /\ ~ resized.back)
    BY <1>7, <2>2 DEF Begins, StackSound
  <2> HIDE DEF again, ready, failed, tried, resized, torn
  <2>4. SameWindow(d, x) /\ x.surface = resized /\ x.torn = e.torn /\ x.wnd = "composed"
    BY <2>2 DEF SameWindow, Drawings
  <2> HIDE DEF x
  <2>5. failing = "none" => Excused(x)
    BY <2>3, <2>4 DEF Excused
  <2>6. WholeDrawing(Painted(x, FALSE, failing))
    BY <2>2, <2>4, <2>5, PaintedIsWhole
  <2> QED BY <2>1, <2>6
<1>8. CASE ~ failed /\ Begins(resized, failing)
  <2> DEFINE after == EndDraw(resized, failing)
  <2> DEFINE said == ~ DrawFails(resized, failing) /\ failing # "present"
  <2> DEFINE x == [e EXCEPT !.surface = after]
  <2>1. DrawOnSurface(e, failing) = Painted(x, said, failing)
    BY <1>8 DEF DrawOnSurface
  <2>2. /\ StackSound(resized, e.torn) /\ IsAvailable(resized) /\ resized \in Surfaces
        /\ resized.lost = tried.lost /\ (resized.back => tried.back)
        /\ failing # "resize" /\ ~ tried.lost => resized.width = AtLeastOne(e.size)
    BY <1>6, <1>8 DEF StackSound
  <2>3. /\ StackSound(after, e.torn) /\ after \in Surfaces
        /\ DrawFails(resized, failing) => after = Released
        /\ ~ DrawFails(resized, failing) =>
             /\ IsAvailable(after) /\ after.width = resized.width /\ after.chain = resized.chain
             /\ ~ resized.lost
    BY <2>2, EndDrawIs DEF StackSound
  <2>4. resized.chain # 0 /\ resized.chain \in {0, resized.width}
    BY <1>8, <2>2 DEF Begins, StackSound
  <2>5. said /\ failing # "resize" => after.chain = AtLeastOne(e.size)
    BY <2>2, <2>3, <2>4
  <2>6. failing = "none" /\ DrawFails(resized, failing) =>
          /\ ~ again /\ tried = d.surface /\ resized.lost /\ resized.back
    BY <1>5, <1>8, <2>2 DEF DrawFails, Begins
  <2>7. failing = "none" /\ DrawFails(resized, failing) =>
          d.misses = 0 \/ d.size = 0 \/ d.torn
    BY <2>2, <2>6 DEF WholeDrawing, Excused
  <2>8. failing = "none" /\ ~ DrawFails(resized, failing) => said /\ (e.torn \/ after.attached)
    BY <2>3 DEF StackSound
  <2>9. said \in BOOLEAN
    OBVIOUS
  <2>10. said => IsAvailable(after)
    BY <2>3
  <2> HIDE DEF again, ready, failed, tried, resized, torn, said, after
  <2>11. SameWindow(d, x) /\ x.surface = after /\ x.torn = e.torn /\ x.wnd = "composed" /\ x.size = e.size
         /\ x.size = d.size
    BY <2>3 DEF SameWindow, Drawings
  <2> HIDE DEF x
  <2>12. ASSUME failing = "none", ~ Seen(x, said)
         PROVE  Excused(x) \/ (d.misses = 0 /\ ~ IsAvailable(x.surface))
    <3>1. CASE DrawFails(resized, failing)
      BY <2>3, <2>7, <2>11, <2>12, <3>1, ReleasedIs DEF Excused
    <3>2. CASE ~ DrawFails(resized, failing)
      BY <2>8, <2>11, <2>12, <3>2 DEF Excused, Seen
    <3> QED BY <3>1, <3>2
  <2>13. WholeDrawing(Painted(x, said, failing))
    BY <2>3, <2>5, <2>9, <2>10, <2>11, <2>12, PaintedIsWhole
  <2> QED BY <2>1, <2>13
<1> QED BY <1>4, <1>7, <1>8

\* Any window is painted.
LEMMA PaintIsWhole == ASSUME NEW d, WholeDrawing(d), d.wnd # "none", NEW failing PROVE WholeDrawing(OnPaintOf(d, failing))
<1> DEFINE renderer == IF d.renderer = "none"
                       THEN IF failing = "renderer" THEN "unavailable" ELSE "ready"
                       ELSE d.renderer
<1> DEFINE e == [d EXCEPT !.renderer = renderer]
<1>1. OnPaintOf(d, failing) = IF renderer = "unavailable" THEN Painted(e, FALSE, failing)
                              ELSE IF e.stack THEN DrawOnSurface(e, failing) ELSE DrawOnDC(e, failing)
  BY DEF OnPaintOf
<1>2. d \in Drawings /\ d.renderer \in {"none", "ready", "unavailable"}
  BY DEF WholeDrawing, Drawings
<1>3. renderer \in {"ready", "unavailable"} /\ (renderer = "ready" => d.renderer # "unavailable")
  BY <1>2
<1> HIDE DEF renderer
<1>4. /\ SameWindow(d, e) /\ e.surface = d.surface /\ e.torn = d.torn /\ e.renderer = renderer
  BY <1>2, <1>3 DEF SameWindow, Drawings
<1> HIDE DEF e
<1>5. /\ StackSound(e.surface, e.torn) /\ (e.stack <=> e.wnd = "composed")
      /\ e.wnd # "composed" => e.surface = Released
  BY <1>4 DEF WholeDrawing, SameWindow
<1>6. e.wnd \in {"plain", "composed"}
  BY <1>2, <1>4 DEF Drawings, SameWindow
<1>7. CASE renderer = "unavailable"
  <2>1. failing = "none" /\ ~ Seen(e, FALSE) => Excused(e)
    BY <1>4, <1>6, <1>7 DEF Excused, Seen
  <2>2. WholeDrawing(Painted(e, FALSE, failing))
    BY <1>4, <1>5, <2>1, PaintedIsWhole
  <2> QED BY <1>1, <1>7, <2>2
<1>8. CASE renderer = "ready" /\ e.wnd = "composed"
  <2>1. WholeDrawing(DrawOnSurface(e, failing))
    BY <1>3, <1>4, <1>8, SurfacePaints DEF SameWindow
  <2> QED BY <1>1, <1>5, <1>8, <2>1
<1>9. CASE renderer = "ready" /\ e.wnd = "plain"
  <2> DEFINE made == e.target \/ failing # "target"
  <2> DEFINE target == made /\ failing # "dc"
  <2> DEFINE said == made /\ failing \notin {"dc", "draw"}
  <2> DEFINE x == [e EXCEPT !.target = target]
  <2>1. OnPaintOf(d, failing) = Painted(x, said, failing)
    BY <1>1, <1>5, <1>9 DEF DrawOnDC
  <2>2. target \in BOOLEAN /\ said \in BOOLEAN
    OBVIOUS
  <2> HIDE DEF made, target, said
  <2>3. SameWindow(d, x) /\ x.surface = e.surface /\ x.torn = e.torn /\ x.wnd = "plain"
    BY <1>4, <1>9, <2>2 DEF SameWindow, Drawings
  <2> HIDE DEF x
  <2>4. ~ Seen(x, said) => Excused(x)
    BY <2>3 DEF Seen, Excused
  <2>5. WholeDrawing(Painted(x, said, failing))
    BY <1>5, <1>9, <2>2, <2>3, <2>4, PaintedIsWhole
  <2> QED BY <2>1, <2>5
<1> QED BY <1>3, <1>6, <1>7, <1>8, <1>9

-----------------------------------------------------------------------------
(* The shadow.                                                             *)

LEMMA MovedShadow ==
  ASSUME NEW h \in Shadows, NEW d \in Drawings, NEW resized \in BOOLEAN
  PROVE  LET m == OnOwnerWndMoved(h, d, resized)
         IN /\ m \in Shadows /\ m.exists = h.exists /\ m.visible = h.visible /\ m.gradient = h.gradient
            /\ h.exists /\ h.visible =>
                 /\ m.place = d.place /\ m.size = d.size
                 /\ h.gradient /\ resized => m.drawn = d.size
                 /\ ~ resized => m.drawn = h.drawn
<1>1. d.size \in 0..MaxSize /\ d.place \in Places
  BY DEF Drawings
<1>2. CASE ~ h.exists \/ ~ h.visible
  BY <1>2 DEF OnOwnerWndMoved
<1>3. CASE ~ (~ h.exists \/ ~ h.visible)
  <2> DEFINE a == AdjustWindowPos(h, d)
  <2>1. /\ a \in Shadows /\ a.exists = h.exists /\ a.visible = h.visible /\ a.gradient = h.gradient
        /\ a.place = d.place /\ a.size = d.size /\ a.drawn = h.drawn
    BY <1>1 DEF AdjustWindowPos, Shadows
  <2>2. OnOwnerWndMoved(h, d, resized) = IF resized THEN InitShadow(a, d) ELSE a
    BY <1>3 DEF OnOwnerWndMoved
  <2> HIDE DEF a
  <2> DEFINE i == InitShadow(a, d)
  <2>3. /\ i \in Shadows /\ i.exists = a.exists /\ i.visible = a.visible /\ i.gradient = a.gradient
        /\ i.place = a.place /\ i.size = a.size /\ (a.gradient => i.drawn = d.size)
    BY <1>1, <2>1 DEF InitShadow, Shadows
  <2> HIDE DEF i
  <2>4. CASE resized
    <3>1. OnOwnerWndMoved(h, d, resized) = i
      BY <2>2, <2>4 DEF i
    <3> QED BY <1>3, <2>1, <2>3, <2>4, <3>1
  <2>5. CASE ~ resized
    BY <2>1, <2>2, <2>5
  <2> QED BY <2>4, <2>5
<1> QED BY <1>2, <1>3

LEMMA ShadowShows ==
  ASSUME NEW h \in Shadows, NEW d \in Drawings, NEW shown \in BOOLEAN
  PROVE  LET m == ShowShadow(h, d, shown)
         IN /\ m \in Shadows /\ m.exists = h.exists /\ m.gradient = h.gradient
            /\ h.exists => m.visible = shown
            /\ h.exists /\ h.visible =>
                 m.place = d.place /\ m.size = d.size /\ (h.gradient => m.drawn = d.size)
<1>1. CASE ~ h.exists
  BY <1>1 DEF ShowShadow
<1>2. CASE h.exists
  <2> DEFINE o == OnOwnerWndMoved(h, d, TRUE)
  <2>1. /\ o \in Shadows /\ o.exists = h.exists /\ o.visible = h.visible /\ o.gradient = h.gradient
        /\ h.visible => o.place = d.place /\ o.size = d.size /\ (h.gradient => o.drawn = d.size)
    BY <1>2, MovedShadow
  <2>2. ShowShadow(h, d, shown) = [o EXCEPT !.visible = shown]
    BY <1>2 DEF ShowShadow
  <2> HIDE DEF o
  <2> DEFINE m == [o EXCEPT !.visible = shown]
  <2>3. /\ m \in Shadows /\ m.exists = o.exists /\ m.visible = shown /\ m.gradient = o.gradient
        /\ m.place = o.place /\ m.size = o.size /\ m.drawn = o.drawn
    BY <2>1 DEF Shadows
  <2> HIDE DEF m
  <2>4. ShowShadow(h, d, shown) = m
    BY <2>2 DEF m
  <2> QED BY <1>2, <2>1, <2>3, <2>4
<1> QED BY <1>1, <1>2 DEF Shadows

\* What leaves the surface alone keeps the window whole, if the shadow follows.
LEMMA SameSurfaceIsWhole ==
  ASSUME NEW d, WholeDrawing(d), NEW e \in Drawings, e.wnd = d.wnd, e.size = d.size, e.stack = d.stack,
         e.surface = d.surface, e.renderer = d.renderer, e.said = d.said, e.stale = d.stale,
         e.torn = d.torn, e.misses = d.misses, ShadowIsThere(e)
  PROVE  WholeDrawing(e)
BY DEF WholeDrawing, Excused

LEMMA ShownIsWhole == ASSUME NEW d, WholeDrawing(d), NEW shown \in BOOLEAN PROVE WholeDrawing(Shown(d, shown))
<1> DEFINE first == ShowShadow(d.shadow, d, shown)
<1> DEFINE second == ShowShadow(first, d, shown)
<1> DEFINE h == IF d.visible = shown THEN first ELSE OnOwnerWndMoved(second, d, FALSE)
<1> DEFINE e == [d EXCEPT !.visible = shown, !.shadow = h]
<1>1. Shown(d, shown) = e
  BY DEF Shown
<1>2. d \in Drawings /\ d.shadow \in Shadows /\ d.visible \in BOOLEAN
  BY DEF WholeDrawing, Drawings
<1>3. /\ first \in Shadows /\ first.exists = d.shadow.exists /\ first.gradient = d.shadow.gradient
      /\ d.shadow.exists => first.visible = shown
      /\ d.shadow.exists /\ d.shadow.visible =>
           first.place = d.place /\ first.size = d.size /\ (d.shadow.gradient => first.drawn = d.size)
  BY <1>2, ShadowShows
<1> HIDE DEF first
<1>4. /\ second \in Shadows /\ second.exists = first.exists /\ second.gradient = first.gradient
      /\ first.exists => second.visible = shown
      /\ first.exists /\ first.visible =>
           second.place = d.place /\ second.size = d.size /\ (first.gradient => second.drawn = d.size)
  BY <1>2, <1>3, ShadowShows
<1> HIDE DEF second
<1> DEFINE moved == OnOwnerWndMoved(second, d, FALSE)
<1>5. /\ moved \in Shadows /\ moved.exists = second.exists /\ moved.visible = second.visible
      /\ moved.gradient = second.gradient
      /\ second.exists /\ second.visible =>
           moved.place = d.place /\ moved.size = d.size /\ moved.drawn = second.drawn
  BY <1>2, <1>4, MovedShadow
<1>6. h = IF d.visible = shown THEN first ELSE moved
  OBVIOUS
<1> HIDE DEF moved, h
<1>7. h \in Shadows
  BY <1>3, <1>5, <1>6
<1>8. /\ e \in Drawings /\ e.wnd = d.wnd /\ e.size = d.size /\ e.place = d.place /\ e.stack = d.stack
      /\ e.surface = d.surface /\ e.renderer = d.renderer /\ e.said = d.said /\ e.stale = d.stale
      /\ e.torn = d.torn /\ e.misses = d.misses /\ e.visible = shown /\ e.shadow = h
  BY <1>2, <1>7 DEF Drawings
<1> HIDE DEF e
<1>9. ASSUME h.exists, shown
      PROVE  h.visible /\ h.place = d.place /\ h.size = d.size /\ (h.gradient => h.drawn = d.size)
  <2>1. CASE d.visible = shown
    <3>1. d.shadow.exists /\ d.shadow.visible
      BY <1>3, <1>6, <1>9, <2>1 DEF WholeDrawing, ShadowIsThere
    <3> QED BY <1>3, <1>6, <1>9, <2>1, <3>1
  <2>2. CASE d.visible # shown
    BY <1>3, <1>4, <1>5, <1>6, <1>9, <2>2
  <2> QED BY <2>1, <2>2
<1>10. ShadowIsThere(e)
  BY <1>8, <1>9 DEF ShadowIsThere
<1> QED BY <1>1, <1>8, <1>10, SameSurfaceIsWhole

LEMMA MovedIsWhole == ASSUME NEW d, WholeDrawing(d), NEW place \in Places PROVE WholeDrawing(Moved(d, place))
<1> DEFINE there == [d EXCEPT !.place = place]
<1>1. d \in Drawings /\ d.shadow \in Shadows
  BY DEF WholeDrawing, Drawings
<1>2. /\ there \in Drawings /\ there.wnd = d.wnd /\ there.size = d.size /\ there.place = place
      /\ there.stack = d.stack /\ there.visible = d.visible /\ there.shadow = d.shadow
      /\ there.surface = d.surface /\ there.renderer = d.renderer /\ there.said = d.said
      /\ there.stale = d.stale /\ there.torn = d.torn /\ there.misses = d.misses
  BY <1>1 DEF Drawings
<1>3. Moved(d, place) = [there EXCEPT !.shadow = OnOwnerWndMoved(there.shadow, there, FALSE)]
  BY DEF Moved
<1> HIDE DEF there
<1> DEFINE h == OnOwnerWndMoved(there.shadow, there, FALSE)
<1>4. /\ h \in Shadows /\ h.exists = d.shadow.exists /\ h.visible = d.shadow.visible
      /\ h.gradient = d.shadow.gradient
      /\ h.exists /\ h.visible => h.place = place /\ h.size = d.size /\ h.drawn = d.shadow.drawn
  <2> DEFINE g == there.shadow
  <2>1. g \in Shadows /\ there \in Drawings /\ FALSE \in BOOLEAN
    BY <1>1, <1>2
  <2> HIDE DEF g
  <2> DEFINE m == OnOwnerWndMoved(g, there, FALSE)
  <2>2. /\ m \in Shadows /\ m.exists = g.exists /\ m.visible = g.visible /\ m.gradient = g.gradient
        /\ g.exists /\ g.visible => m.place = there.place /\ m.size = there.size /\ m.drawn = g.drawn
    BY <2>1, MovedShadow
  <2>3. g = d.shadow /\ h = m
    BY <1>2 DEF g
  <2> HIDE DEF h, m
  <2> QED BY <1>2, <2>2, <2>3
<1> HIDE DEF h
<1> DEFINE e == [there EXCEPT !.shadow = h]
<1>5. /\ e \in Drawings /\ e.wnd = there.wnd /\ e.size = there.size /\ e.place = there.place
      /\ e.stack = there.stack /\ e.visible = there.visible /\ e.shadow = h
      /\ e.surface = there.surface /\ e.renderer = there.renderer /\ e.said = there.said
      /\ e.stale = there.stale /\ e.torn = there.torn /\ e.misses = there.misses
  BY <1>2, <1>4 DEF Drawings
<1>6. Moved(d, place) = e
  BY <1>3 DEF h
<1> HIDE DEF e
<1>7. ShadowIsThere(e)
  BY <1>2, <1>4, <1>5 DEF WholeDrawing, ShadowIsThere
<1> QED BY <1>2, <1>5, <1>6, <1>7, SameSurfaceIsWhole

LEMMA NoDrawingIsWhole ==
  /\ WholeDrawing(NoDrawing) /\ NoDrawing.wnd = "none" /\ NoDrawing.size = 0 /\ NoDrawing.place = 0
  /\ ~ NoDrawing.visible /\ ~ NoDrawing.stack /\ NoDrawing.surface = Released
  /\ NoDrawing.renderer = "none" /\ ~ NoDrawing.target /\ NoDrawing.shadow = NoShadow /\ ~ NoDrawing.said
  /\ ~ NoDrawing.stale /\ ~ NoDrawing.torn /\ NoDrawing.misses = 0
  /\ NoShadow \in Shadows /\ ~ NoShadow.exists
<1>1. NoShadow \in Shadows /\ ~ NoShadow.exists
  BY DrawingAssumption DEF NoShadow, Shadows, Places
<1>2. /\ NoDrawing.wnd = "none" /\ NoDrawing.size = 0 /\ NoDrawing.place = 0
      /\ ~ NoDrawing.visible /\ ~ NoDrawing.stack /\ NoDrawing.surface = Released
      /\ NoDrawing.renderer = "none" /\ ~ NoDrawing.target /\ NoDrawing.shadow = NoShadow
      /\ ~ NoDrawing.said /\ ~ NoDrawing.stale /\ ~ NoDrawing.torn /\ NoDrawing.misses = 0
  BY DEF NoDrawing
<1>3. NoDrawing \in Drawings
  BY <1>1, ReleasedIs, DrawingAssumption DEF NoDrawing, Drawings, Places
<1> QED BY <1>1, <1>2, <1>3, ReleasedIs DEF WholeDrawing, ShadowIsThere

\* A window as it is made: composed if the device stack is there, of GDI if not.
LEMMA CreatedIsWhole == ASSUME NEW failing, NEW whole \in BOOLEAN PROVE WholeDrawing(CreateDrawing(failing, whole))
<1> DEFINE s == Initialize(Released, failing)
<1> DEFINE a == IF AttachFails(s, failing) THEN Released ELSE Attach(s, 0, failing)
<1> DEFINE kind == IF IsAvailable(s) THEN "composed" ELSE "plain"
<1> DEFINE stack == IsAvailable(s)
<1> DEFINE made == [NoDrawing EXCEPT !.wnd = kind, !.stack = stack, !.size = 0, !.surface = a]
<1>1. CreateMainWindow(0, failing) = made
  BY DEF CreateMainWindow
<1>2. /\ s \in Surfaces
      /\ IF IsAvailable(s) THEN s.have = Built ELSE s = Released
  <2>1. StackSound(Released, FALSE) /\ ~ IsAvailable(Released)
    BY ReleasedIs
  <2> QED BY <2>1, ReleasedIs, InitializeIs
<1>3. /\ \A torn : StackSound(a, torn)
      /\ a \in Surfaces
      /\ ~ IsAvailable(s) => a = Released
  <2>1. 0 \in 0..MaxSize
    BY DrawingAssumption
  <2>2. CASE AttachFails(s, failing)
    BY <2>2, ReleasedIs
  <2>3. CASE ~ AttachFails(s, failing)
    <3> HIDE DEF s
    <3>1. \A torn : StackSound(Attach(s, 0, failing), torn)
      BY <1>2, <2>1, <2>3, AttachIs
    <3>2. a = Attach(s, 0, failing) /\ IsAvailable(s)
      BY <2>3 DEF AttachFails
    <3>3. \A torn : StackSound(a, torn)
      BY <3>1, <3>2
    <3> HIDE DEF a
    <3> QED BY <3>2, <3>3 DEF StackSound
  <2> QED BY <2>2, <2>3
<1>4. stack \in BOOLEAN /\ (stack <=> kind = "composed") /\ kind \in {"plain", "composed"}
      /\ (kind # "composed" => a = Released)
  <2>1. stack \in BOOLEAN
    BY DEF IsAvailable
  <2> QED BY <1>3, <2>1
<1> HIDE DEF s, a, kind, stack
<1>5. /\ made \in Drawings /\ made.wnd = kind /\ made.stack = stack /\ made.size = 0 /\ made.surface = a
      /\ made.place = 0 /\ ~ made.visible /\ made.renderer = "none" /\ made.shadow = NoShadow
      /\ ~ made.said /\ ~ made.stale /\ ~ made.torn /\ made.misses = 0
  BY <1>3, <1>4, NoDrawingIsWhole, DrawingAssumption DEF Drawings, WholeDrawing
<1> HIDE DEF made
<1> DEFINE c == CreateBackGroundShadowWindow(made, whole)
<1>6. /\ c \in Drawings /\ c.wnd = kind /\ c.stack = stack /\ c.surface = a
      /\ ~ c.visible /\ ~ c.said /\ ~ c.torn /\ c.misses = 0
  <2>1. CASE stack
    BY <1>5, <2>1 DEF CreateBackGroundShadowWindow
  <2>2. CASE ~ stack
    <3> DEFINE h == [made.shadow EXCEPT !.exists = whole]
    <3>1. h \in Shadows
      BY <1>5 DEF Drawings, Shadows
    <3>2. c = [made EXCEPT !.shadow = h]
      BY <1>5, <2>2 DEF CreateBackGroundShadowWindow, Drawings
    <3> HIDE DEF h, c
    <3> QED BY <1>5, <3>1, <3>2 DEF Drawings
  <2> QED BY <2>1, <2>2, <1>4
<1> DEFINE size == IF whole THEN MaxSize ELSE 0
<1> DEFINE d == [c EXCEPT !.size = size]
<1>7. CreateDrawing(failing, whole) = d
  BY <1>1 DEF CreateDrawing
<1>8. size \in 0..MaxSize
  BY DrawingAssumption
<1> HIDE DEF c, size
<1>9. /\ d \in Drawings /\ d.wnd = kind /\ d.stack = stack /\ d.surface = a
      /\ ~ d.visible /\ ~ d.said /\ ~ d.torn /\ d.misses = 0
  BY <1>6, <1>8 DEF Drawings
<1> HIDE DEF d
<1> QED BY <1>3, <1>4, <1>7, <1>9 DEF WholeDrawing, ShadowIsThere

LEMMA DeviceLostIsWhole == ASSUME WholeDrawing(draw), DeviceLost PROVE WholeDrawing(draw')
<1> DEFINE s == [draw.surface EXCEPT !.lost = TRUE]
<1>1. draw \in Drawings /\ draw.surface \in Surfaces /\ IsAvailable(draw.surface)
  BY DEF WholeDrawing, Drawings, DeviceLost
<1>2. /\ s \in Surfaces /\ s.have = draw.surface.have /\ s.chain = draw.surface.chain
      /\ s.width = draw.surface.width /\ s.attached = draw.surface.attached
  BY <1>1 DEF Surfaces
<1>3. draw' = [draw EXCEPT !.surface = s, !.misses = 0]
  BY <1>1 DEF DeviceLost, Drawings
<1> HIDE DEF s
<1>4. IsAvailable(s) /\ StackSound(s, draw.torn)
  BY <1>1, <1>2 DEF WholeDrawing, StackSound, IsAvailable
<1> DEFINE none == 0
<1> DEFINE e == [draw EXCEPT !.surface = s, !.misses = none]
<1>10. draw' = e /\ none = 0 /\ none \in 0..2
  BY <1>3
<1> HIDE DEF none
<1>5. /\ e \in Drawings /\ e.wnd = draw.wnd /\ e.size = draw.size /\ e.place = draw.place
      /\ e.stack = draw.stack /\ e.visible = draw.visible /\ e.shadow = draw.shadow
      /\ e.surface = s /\ e.renderer = draw.renderer /\ e.said = draw.said
      /\ e.stale = draw.stale /\ e.torn = draw.torn /\ e.misses = none
  BY <1>1, <1>2, <1>10 DEF Drawings
<1> HIDE DEF e
<1>7. e.wnd = "composed"
  BY <1>1, <1>5, ReleasedIs DEF WholeDrawing
<1>8. ShadowIsThere(e)
  BY <1>5 DEF WholeDrawing, ShadowIsThere
<1>9. WholeDrawing(e)
  BY <1>2, <1>4, <1>5, <1>7, <1>8, <1>10 DEF WholeDrawing
<1> QED BY <1>9, <1>10

LEMMA SettingChangeIsWhole == ASSUME WholeDrawing(draw), OnSettingChange PROVE WholeDrawing(draw')
<1>1. PICK gradient \in BOOLEAN :
        LET h == AdjustWindowPos([draw.shadow EXCEPT !.gradient = gradient], draw)
        IN draw' = [draw EXCEPT !.shadow = InitShadow(h, draw)]
  BY DEF OnSettingChange
<1> DEFINE g == [draw.shadow EXCEPT !.gradient = gradient]
<1> DEFINE h == AdjustWindowPos(g, draw)
<1> DEFINE i == InitShadow(h, draw)
<1>2. draw' = [draw EXCEPT !.shadow = i]
  BY <1>1
<1>3. draw \in Drawings /\ draw.shadow \in Shadows /\ draw.size \in 0..MaxSize /\ draw.place \in Places
  BY DEF WholeDrawing, Drawings
<1>4. /\ g \in Shadows /\ g.exists = draw.shadow.exists /\ g.visible = draw.shadow.visible
  BY <1>3 DEF Shadows
<1> HIDE DEF g
<1>5. /\ h \in Shadows /\ h.exists = g.exists /\ h.visible = g.visible
      /\ h.place = draw.place /\ h.size = draw.size
  BY <1>3, <1>4 DEF AdjustWindowPos, Shadows
<1> HIDE DEF h
<1>6. /\ i \in Shadows /\ i.exists = h.exists /\ i.visible = h.visible
      /\ i.place = h.place /\ i.size = h.size /\ (i.gradient => i.drawn = draw.size)
  BY <1>3, <1>5 DEF InitShadow, Shadows
<1> HIDE DEF i
<1> DEFINE e == [draw EXCEPT !.shadow = i]
<1>7. /\ e \in Drawings /\ e.wnd = draw.wnd /\ e.size = draw.size /\ e.place = draw.place
      /\ e.stack = draw.stack /\ e.visible = draw.visible /\ e.shadow = i
      /\ e.surface = draw.surface /\ e.renderer = draw.renderer /\ e.said = draw.said
      /\ e.stale = draw.stale /\ e.torn = draw.torn /\ e.misses = draw.misses
  BY <1>3, <1>6 DEF Drawings
<1>8. draw' = e
  BY <1>2
<1> HIDE DEF e
<1>9. ShadowIsThere(e)
  BY <1>4, <1>5, <1>6, <1>7 DEF WholeDrawing, ShadowIsThere
<1>10. WholeDrawing(e)
  BY <1>7, <1>9, SameSurfaceIsWhole
<1> QED BY <1>8, <1>10

LEMMA DrawStepIsWhole == ASSUME WholeDrawing(draw), DrawStep PROVE WholeDrawing(draw')
BY PaintIsWhole, MovedIsWhole, DeviceLostIsWhole, SettingChangeIsWhole DEF DrawStep, PaintWindow, MoveWindow

-----------------------------------------------------------------------------
(* Where the window goes.                                                  *)

Rects == [left : Int, top : Int, right : Int, bottom : Int]

\* Over which edges a rectangle is, in the words of RectInRect.
LEMMA EdgesOf ==
  ASSUME NEW area \in Rects, NEW r \in Rects
  PROVE  LET e == RectInRect(area, r)
         IN /\ "overLeft" \in e <=> r.left < area.left /\ r.right <= area.right
            /\ "overRight" \in e <=> r.left >= area.left /\ r.right > area.right
            /\ "overTop" \in e <=> r.top < area.top /\ r.bottom <= area.bottom
            /\ "overBottom" \in e <=> r.top >= area.top /\ r.bottom > area.bottom
            /\ e = {} => Inside(area, r)
            /\ Inside(area, r) => e = {}
<1> DEFINE flatX == [both |-> "tooWide", low |-> "overLeft", high |-> "overRight"]
<1> DEFINE flatY == [both |-> "tooTall", low |-> "overTop", high |-> "overBottom"]
<1> DEFINE x == Over(area.left, area.right, r.left, r.right, flatX)
<1> DEFINE y == Over(area.top, area.bottom, r.top, r.bottom, flatY)
<1>1. /\ "tooWide" \in x <=> r.left < area.left /\ r.right > area.right
      /\ "overLeft" \in x <=> r.left < area.left /\ r.right <= area.right
      /\ "overRight" \in x <=> r.left >= area.left /\ r.right > area.right
      /\ \A f \in x : f \in {"tooWide", "overLeft", "overRight"}
  BY DEF Over
<1>2. /\ "tooTall" \in y <=> r.top < area.top /\ r.bottom > area.bottom
      /\ "overTop" \in y <=> r.top < area.top /\ r.bottom <= area.bottom
      /\ "overBottom" \in y <=> r.top >= area.top /\ r.bottom > area.bottom
      /\ \A f \in y : f \in {"tooTall", "overTop", "overBottom"}
  BY DEF Over
<1>3. RectInRect(area, r) = x \union y
  BY DEF RectInRect
<1> HIDE DEF x, y
<1>4. /\ area.left \in Int /\ area.right \in Int /\ area.top \in Int /\ area.bottom \in Int
      /\ r.left \in Int /\ r.right \in Int /\ r.top \in Int /\ r.bottom \in Int
  BY DEF Rects
<1>5. x \union y = {} => Inside(area, r)
  BY <1>1, <1>2, <1>4 DEF Inside
<1>6. ASSUME Inside(area, r) PROVE x \union y = {}
  <2>1. \A f : f \notin x
    BY <1>1, <1>4, <1>6 DEF Inside
  <2>2. \A f : f \notin y
    BY <1>2, <1>4, <1>6 DEF Inside
  <2> QED BY <2>1, <2>2
<1>7. /\ "overLeft" \notin y /\ "overRight" \notin y /\ "overTop" \notin x /\ "overBottom" \notin x
  BY <1>1, <1>2
<1> QED BY <1>1, <1>2, <1>3, <1>5, <1>6, <1>7

\* The cases of where the window goes, point by point.
LEMMA PlacedIs ==
  ASSUME NEW text \in Rects, NEW area \in Rects, NEW window \in Rects,
         window.left = 0, window.top = 0
  PROVE  LET high  == window.bottom
             below == Rect(text.left, text.bottom, text.left + window.right, text.bottom + high)
             above == Rect(text.left, text.top - high, text.left + window.right, text.top)
             under == RectInRect(area, below)
             over  == RectInRect(area, above)
             at    == Placed(text, area, window, 0)
         IN /\ below \in Rects /\ above \in Rects
            /\ at = OffsetRect(window,
                      IF Fits(under) \/ ~ Fits(over) THEN DockedLeft(under, area, window, text.left)
                                                    ELSE DockedLeft(over, area, window, text.left),
                      IF Fits(under) THEN text.bottom
                      ELSE IF Fits(over) THEN text.top - high ELSE DockedTop(under, area, window))
            /\ CalcFitPointAroundTextExtent(text, area, window).x \in Int
            /\ CalcFitPointAroundTextExtent(text, area, window).y \in Int
<1> DEFINE high  == window.bottom
<1> DEFINE below == Rect(text.left, text.bottom, text.left + window.right, text.bottom + high)
<1> DEFINE above == Rect(text.left, text.top - high, text.left + window.right, text.top)
<1> DEFINE under == RectInRect(area, below)
<1> DEFINE over  == RectInRect(area, above)
<1>1. /\ text.left \in Int /\ text.right \in Int /\ text.top \in Int /\ text.bottom \in Int
      /\ window.right \in Int /\ window.bottom \in Int
  BY DEF Rects
<1>2. below \in Rects /\ above \in Rects
  BY <1>1 DEF Rect, Rects
<1>3. Below(text, window) = below
  BY <1>1 DEF Below, OffsetRect, Rect
<1>4. Above(text, window) = above
  <2>1. Height(window) = window.bottom
    BY <1>1 DEF Height
  <2>2. text.top - high + window.bottom = text.top
    BY <1>1
  <2> QED BY <1>1, <2>1, <2>2 DEF Above, OffsetRect, Rect
<1>5. below.top = text.bottom /\ above.top = text.top - high
  BY DEF Rect
<1> HIDE DEF below, above
<1> DEFINE Left(edges) == DockedLeft(edges, area, window, text.left)
<1>6. CalcFitPointAroundTextExtent(text, area, window) =
        IF Fits(under)     THEN [x |-> Left(under), y |-> text.bottom]
        ELSE IF Fits(over) THEN [x |-> Left(over), y |-> text.top - high]
        ELSE [x |-> Left(under), y |-> DockedTop(under, area, window)]
  BY <1>3, <1>4, <1>5 DEF CalcFitPointAroundTextExtent
<1> HIDE DEF under, over, Left, high
<1>7. /\ Fits(under) => CalcFitPointAroundTextExtent(text, area, window).x = Left(under)
                     /\ CalcFitPointAroundTextExtent(text, area, window).y = text.bottom
      /\ ~ Fits(under) /\ Fits(over) =>
           /\ CalcFitPointAroundTextExtent(text, area, window).x = Left(over)
           /\ CalcFitPointAroundTextExtent(text, area, window).y = text.top - high
      /\ ~ Fits(under) /\ ~ Fits(over) =>
           /\ CalcFitPointAroundTextExtent(text, area, window).x = Left(under)
           /\ CalcFitPointAroundTextExtent(text, area, window).y = DockedTop(under, area, window)
  BY <1>6
<1>8. Placed(text, area, window, 0) =
        OffsetRect(window, CalcFitPointAroundTextExtent(text, area, window).x,
                           CalcFitPointAroundTextExtent(text, area, window).y)
  <2>1. Rect(0, 0, window.right + 2 * 0, window.bottom + 2 * 0) = window
    BY DEF Rect, Rects
  <2> QED BY <2>1, Zenon DEF Placed
<1>9. Placed(text, area, window, 0) =
        OffsetRect(window, IF Fits(under) \/ ~ Fits(over) THEN Left(under) ELSE Left(over),
                           IF Fits(under) THEN text.bottom
                           ELSE IF Fits(over) THEN text.top - high ELSE DockedTop(under, area, window))
  BY <1>7, <1>8
<1>10. /\ \A edges : Left(edges) \in Int
       /\ DockedTop(under, area, window) \in Int /\ text.bottom \in Int /\ text.top - high \in Int
  BY <1>1 DEF Left, DockedLeft, DockedTop, Width, Height, Rects, high
<1>11. /\ CalcFitPointAroundTextExtent(text, area, window).x \in Int
       /\ CalcFitPointAroundTextExtent(text, area, window).y \in Int
  BY <1>7, <1>10
<1> QED BY <1>2, <1>9, <1>11 DEF under, over, Left, below, above, high

LEMMA PlacedWell ==
  ASSUME NEW text \in Rects, NEW area \in Rects, NEW window \in Rects,
         window.left = 0, window.top = 0, window.right >= 0, window.bottom >= 0,
         text.left <= text.right, text.top <= text.bottom, Width(window) <= Width(area)
  PROVE  LET at   == Placed(text, area, window, 0)
             high == Height(window)
         IN /\ /\ Height(window) <= Height(area)
               /\ \/ area.left = 0 /\ area.top = 0
                  \/ area.left <= text.left /\ area.top <= text.top
               => Inside(area, at)
            /\ \/ text.bottom + high <= area.bottom /\ area.top <= text.bottom
               \/ area.top <= text.top - high /\ text.top <= area.bottom
               => ~ Covers(text, at)
<1> DEFINE wide  == window.right
<1> DEFINE high  == window.bottom
<1> DEFINE below == Rect(text.left, text.bottom, text.left + wide, text.bottom + high)
<1> DEFINE above == Rect(text.left, text.top - high, text.left + wide, text.top)
<1> DEFINE under == RectInRect(area, below)
<1> DEFINE over  == RectInRect(area, above)
<1> DEFINE x == IF Fits(under) \/ ~ Fits(over) THEN DockedLeft(under, area, window, text.left)
                ELSE DockedLeft(over, area, window, text.left)
<1> DEFINE y == IF Fits(under) THEN text.bottom
                ELSE IF Fits(over) THEN text.top - high ELSE DockedTop(under, area, window)
<1>1. /\ text.left \in Int /\ text.right \in Int /\ text.top \in Int /\ text.bottom \in Int
      /\ area.left \in Int /\ area.right \in Int /\ area.top \in Int /\ area.bottom \in Int
      /\ wide \in Int /\ high \in Int
  BY DEF Rects
<1>2. below \in Rects /\ above \in Rects /\ Placed(text, area, window, 0) = OffsetRect(window, x, y)
  BY PlacedIs
<1>3. Width(window) = wide /\ Height(window) = high
  BY <1>1 DEF Width, Height
<1>4. wide <= area.right - area.left
  BY <1>3 DEF Width
<1>5. /\ below.left = text.left /\ below.right = text.left + wide
      /\ below.top = text.bottom /\ below.bottom = text.bottom + high
      /\ above.left = text.left /\ above.right = text.left + wide
      /\ above.top = text.top - high /\ above.bottom = text.top
  BY DEF Rect
<1> HIDE DEF below, above
<1>6. /\ "overLeft" \in under <=> text.left < area.left /\ text.left + wide <= area.right
      /\ "overRight" \in under <=> text.left >= area.left /\ text.left + wide > area.right
      /\ "overTop" \in under <=> text.bottom < area.top /\ text.bottom + high <= area.bottom
      /\ "overBottom" \in under <=> text.bottom >= area.top /\ text.bottom + high > area.bottom
      /\ under = {} => Inside(area, below)
      /\ Inside(area, below) => under = {}
  <2>1. LET e == RectInRect(area, below)
        IN /\ "overLeft" \in e <=> below.left < area.left /\ below.right <= area.right
           /\ "overRight" \in e <=> below.left >= area.left /\ below.right > area.right
           /\ "overTop" \in e <=> below.top < area.top /\ below.bottom <= area.bottom
           /\ "overBottom" \in e <=> below.top >= area.top /\ below.bottom > area.bottom
           /\ e = {} => Inside(area, below)
           /\ Inside(area, below) => e = {}
    BY <1>2, EdgesOf
  <2> QED BY <1>5, <2>1
<1>7. /\ "overLeft" \in over <=> text.left < area.left /\ text.left + wide <= area.right
      /\ "overRight" \in over <=> text.left >= area.left /\ text.left + wide > area.right
      /\ "overTop" \in over <=> text.top - high < area.top /\ text.top <= area.bottom
      /\ "overBottom" \in over <=> text.top - high >= area.top /\ text.top > area.bottom
      /\ over = {} => Inside(area, above)
      /\ Inside(area, above) => over = {}
  <2>1. LET e == RectInRect(area, above)
        IN /\ "overLeft" \in e <=> above.left < area.left /\ above.right <= area.right
           /\ "overRight" \in e <=> above.left >= area.left /\ above.right > area.right
           /\ "overTop" \in e <=> above.top < area.top /\ above.bottom <= area.bottom
           /\ "overBottom" \in e <=> above.top >= area.top /\ above.bottom > area.bottom
           /\ e = {} => Inside(area, above)
           /\ Inside(area, above) => e = {}
    BY <1>2, EdgesOf
  <2> QED BY <1>5, <2>1
<1> HIDE DEF under, over
<1>8. /\ Inside(area, below) <=>
           /\ area.left <= text.left /\ text.left + wide <= area.right
           /\ area.top <= text.bottom /\ text.bottom + high <= area.bottom
      /\ Inside(area, above) <=>
           /\ area.left <= text.left /\ text.left + wide <= area.right
           /\ area.top <= text.top - high /\ text.top <= area.bottom
  BY <1>5 DEF Inside
<1>9. \A edges : Fits(edges) <=>
        /\ "overTop" \notin edges /\ "overBottom" \notin edges
        /\ edges = {} \/ "overLeft" \in edges \/ "overRight" \in edges
  BY DEF Fits
<1>10. x = IF text.left < area.left /\ text.left + wide <= area.right THEN 0
           ELSE IF text.left >= area.left /\ text.left + wide > area.right THEN area.right - wide
           ELSE text.left
  BY <1>3, <1>6, <1>7 DEF DockedLeft
<1>11. y = IF Fits(under) THEN text.bottom
           ELSE IF Fits(over) THEN text.top - high
           ELSE IF text.bottom < area.top /\ text.bottom + high <= area.bottom THEN 0
           ELSE area.bottom - high
  BY <1>3, <1>6 DEF DockedTop
<1> HIDE DEF x, y, wide, high
<1>12. x \in Int /\ y \in Int
  BY <1>1, <1>10, <1>11
<1>13. OffsetRect(window, x, y) = Rect(x, y, x + wide, y + high)
  BY <1>1, <1>12 DEF OffsetRect, Rect, wide, high
<1> DEFINE at == Rect(x, y, x + wide, y + high)
<1>14. at.left = x /\ at.top = y /\ at.right = x + wide /\ at.bottom = y + high
  BY DEF Rect
<1> HIDE DEF at
<1>15. wide >= 0 /\ high >= 0
  BY DEF wide, high
<1>16. ASSUME high <= area.bottom - area.top,
              \/ area.left = 0 /\ area.top = 0
              \/ area.left <= text.left /\ area.top <= text.top
       PROVE  Inside(area, at)
  <2>1. area.left <= x /\ x + wide <= area.right
    BY <1>1, <1>4, <1>10, <1>15, <1>16
  <2>2. area.top <= y /\ y + high <= area.bottom
    BY <1>1, <1>6, <1>7, <1>8, <1>9, <1>11, <1>15, <1>16
  <2> QED BY <1>14, <2>1, <2>2 DEF Inside
<1>17. ASSUME \/ text.bottom + high <= area.bottom /\ area.top <= text.bottom
              \/ area.top <= text.top - high /\ text.top <= area.bottom
       PROVE  ~ Covers(text, at)
  <2>1. Fits(under) \/ Fits(over)
    BY <1>1, <1>4, <1>6, <1>7, <1>8, <1>9, <1>15, <1>17
  <2>2. y = text.bottom \/ y = text.top - high
    BY <1>11, <2>1
  <2> QED BY <1>1, <1>12, <1>14, <1>15, <2>2 DEF Covers
<1>18. Height(area) = area.bottom - area.top /\ Placed(text, area, window, 0) = at
  BY <1>2, <1>13 DEF Height, at
<1> QED BY <1>3, <1>16, <1>17, <1>18

-----------------------------------------------------------------------------
LEMMA ExtentsAreRects ==
  /\ \A text \in TextExtents : text \in Rects /\ text.left <= text.right /\ text.top <= text.bottom
  /\ \A window \in Windows : /\ window \in Rects /\ window.left = 0 /\ window.top = 0
                             /\ window.right >= 0 /\ window.bottom >= 0
  /\ WorkAreas \subseteq Rects
<1>1. ASSUME NEW text \in TextExtents
      PROVE  text \in Rects /\ text.left <= text.right /\ text.top <= text.bottom
  <2>1. PICK x \in Coordinates, y \in Coordinates, w \in Sizes, h \in Sizes : text = Rect(x, y, x + w, y + h)
    BY <1>1 DEF TextExtents
  <2>2. x \in Int /\ y \in Int /\ w \in Nat /\ h \in Nat
    BY PlacementAssumption
  <2> QED BY <2>1, <2>2 DEF Rect, Rects
<1>2. ASSUME NEW window \in Windows
      PROVE  /\ window \in Rects /\ window.left = 0 /\ window.top = 0
             /\ window.right >= 0 /\ window.bottom >= 0
  <2>1. PICK w \in Sizes, h \in Sizes : window = Rect(0, 0, w, h)
    BY <1>2 DEF Windows
  <2>2. w \in Nat /\ h \in Nat
    BY PlacementAssumption
  <2> QED BY <2>1, <2>2 DEF Rect, Rects
<1> QED BY <1>1, <1>2, PlacementAssumption DEF Rects

LEMMA LayoutBegins == ASSUME PlacingInit PROVE PlacingTypeOK
<1>1. PICK x \in Coordinates, w \in Sizes, a \in WorkAreas : TRUE
  BY PlacementAssumption
<1>2. Rect(x, x, x + w, x + w) \in TextExtents /\ Rect(0, 0, w, w) \in Windows
  BY DEF TextExtents, Windows
<1> DEFINE l == [text |-> Rect(x, x, x + w, x + w), area |-> a, window |-> Rect(0, 0, w, w), border |-> 0]
<1>3. l \in Layouts
  BY <1>2 DEF Layouts
<1>4. (CHOOSE layout \in Layouts : TRUE) \in Layouts
  <2> HIDE DEF l
  <2> QED BY <1>3
<1> QED BY <1>4 DEF PlacingInit, PlacingTypeOK

LEMMA LayoutKeeps == ASSUME PlacingTypeOK, PlacingStep PROVE PlacingTypeOK'
<1>1. placing'.text \in TextExtents
  BY DEF PlacingStep
<1>2. placing \in Layouts
  BY DEF PlacingTypeOK
<1>3. PICK t0 \in TextExtents, a0 \in WorkAreas, w0 \in Windows, b0 \in {0, Border} :
        placing = [text |-> t0, area |-> a0, window |-> w0, border |-> b0]
  BY <1>2 DEF Layouts
<1> DEFINE Laid(t, a, w, b) == [text |-> t, area |-> a, window |-> w, border |-> b]
<1>4. /\ \A t : [placing EXCEPT !.text = t] = Laid(t, a0, w0, b0)
      /\ \A a : [placing EXCEPT !.area = a] = Laid(t0, a, w0, b0)
      /\ \A w : [placing EXCEPT !.window = w] = Laid(t0, a0, w, b0)
      /\ \A b : [placing EXCEPT !.border = b] = Laid(t0, a0, w0, b)
  BY <1>3
<1> HIDE DEF Laid
<1>5. \E t : \E a \in WorkAreas, w \in Windows, b \in {0, Border} : placing' = Laid(t, a, w, b)
  <2>0. ASSUME NEW t, placing' = [placing EXCEPT !.text = t]
        PROVE  \E a \in WorkAreas, w \in Windows, b \in {0, Border} : placing' = Laid(t, a, w, b)
    <3>1. placing' = Laid(t, a0, w0, b0)
      BY <1>4, <2>0
    <3> QED BY <3>1
  <2>1. CASE \E x, y \in -1..1 : placing' = [placing EXCEPT !.text = OffsetRect(@, x, y)]
    <3>1. PICK x, y \in -1..1 : placing' = [placing EXCEPT !.text = OffsetRect(@, x, y)]
      BY <2>1
    <3> QED BY <2>0, <3>1
  <2>2. CASE \E t : placing' = [placing EXCEPT !.text = t]
    <3>1. PICK t : placing' = [placing EXCEPT !.text = t]
      BY <2>2
    <3> QED BY <2>0, <3>1
  <2>3. CASE \E w \in Windows : placing' = [placing EXCEPT !.window = w]
    <3>1. PICK w \in Windows : placing' = [placing EXCEPT !.window = w]
      BY <2>3
    <3>2. placing' = Laid(t0, a0, w, b0)
      BY <1>4, <3>1
    <3> QED BY <3>2
  <2>4. CASE \E a \in WorkAreas : placing' = [placing EXCEPT !.area = a]
    BY <1>4, <2>4
  <2>5. CASE \E b \in {0, Border} : placing' = [placing EXCEPT !.border = b]
    BY <1>4, <2>5
  <2> QED BY <2>1, <2>2, <2>3, <2>4, <2>5 DEF PlacingStep, LayoutChange
<1>6. PICK t, a, w, b : /\ a \in WorkAreas /\ w \in Windows /\ b \in {0, Border}
                        /\ placing' = Laid(t, a, w, b)
  BY <1>5
<1>7. t \in TextExtents
  BY <1>1, <1>6 DEF Laid
<1> QED BY <1>6, <1>7 DEF PlacingTypeOK, Layouts, Laid

\* The borders make the window larger to the right and below.
LEMMA FramedIs ==
  ASSUME NEW text \in Rects, NEW area \in Rects, NEW window \in Rects, NEW border \in Nat,
         window.left = 0, window.top = 0
  PROVE  LET bare  == Placed(text, area, window, 0)
             whole == Placed(text, area, window, border)
         IN /\ whole = Extended(bare, 2 * border)
            /\ Extended(whole, -(2 * border)) = bare
            /\ Inside(area, bare) => Inside(Extended(area, 2 * border), whole)
<1> DEFINE x == CalcFitPointAroundTextExtent(text, area, window).x
           y == CalcFitPointAroundTextExtent(text, area, window).y
           e == 2 * border
           bare  == Placed(text, area, window, 0)
           whole == Placed(text, area, window, border)
<1>1. x \in Int /\ y \in Int
  BY PlacedIs
<1>2. /\ window.right \in Int /\ window.bottom \in Int /\ e \in Int
      /\ area.left \in Int /\ area.top \in Int /\ area.right \in Int /\ area.bottom \in Int
  BY DEF Rects
<1>3. /\ bare = Rect(0 + x, 0 + y, (window.right + 2 * 0) + x, (window.bottom + 2 * 0) + y)
      /\ whole = Rect(0 + x, 0 + y, (window.right + e) + x, (window.bottom + e) + y)
  BY DEF Placed, OffsetRect, Rect
<1> HIDE DEF x, y, e, bare, whole
<1>4. /\ bare = Rect(x, y, window.right + x, window.bottom + y)
      /\ whole = Rect(x, y, (window.right + x) + e, (window.bottom + y) + e)
  BY <1>1, <1>2, <1>3
<1>5. whole = Extended(bare, e)
  BY <1>4 DEF Extended, Rect
<1>6. Extended(whole, -e) = bare
  <2>1. /\ ((window.right + x) + e) + (-e) = window.right + x
        /\ ((window.bottom + y) + e) + (-e) = window.bottom + y
    BY <1>1, <1>2
  <2> QED BY <1>4, <2>1 DEF Extended, Rect
<1>7. Inside(area, bare) => Inside(Extended(area, e), whole)
  BY <1>1, <1>2, <1>4 DEF Inside, Extended, Rect
<1> QED BY <1>5, <1>6, <1>7 DEF bare, whole, e

LEMMA LayoutIsPlaced == PlacingTypeOK => PlacedBesideText
<1> SUFFICES ASSUME PlacingTypeOK PROVE PlacedBesideText
  OBVIOUS
<1>1. placing.text \in TextExtents /\ placing.area \in WorkAreas /\ placing.window \in Windows
  BY DEF PlacingTypeOK, Layouts
<1>2. /\ placing.text \in Rects /\ placing.text.left <= placing.text.right
      /\ placing.text.top <= placing.text.bottom /\ placing.area \in Rects
      /\ placing.window \in Rects /\ placing.window.left = 0 /\ placing.window.top = 0
      /\ placing.window.right >= 0 /\ placing.window.bottom >= 0
  BY <1>1, ExtentsAreRects
<1> DEFINE bare == Placed(placing.text, placing.area, placing.window, 0)
<1>3. placing.border \in Nat
  BY PlacementAssumption DEF PlacingTypeOK, Layouts
<1>4. /\ Extended(Window, -Borders) = bare
      /\ Inside(placing.area, bare) => Inside(Extended(placing.area, Borders), Window)
  BY <1>2, <1>3, FramedIs DEF Window, Borders
<1>5. CASE Width(placing.window) <= Width(placing.area)
  <2>1. /\ /\ Height(placing.window) <= Height(placing.area)
           /\ \/ placing.area.left = 0 /\ placing.area.top = 0
              \/ placing.area.left <= placing.text.left /\ placing.area.top <= placing.text.top
           => Inside(placing.area, bare)
        /\ \/ /\ placing.text.bottom + Height(placing.window) <= placing.area.bottom
              /\ placing.area.top <= placing.text.bottom
           \/ /\ placing.area.top <= placing.text.top - Height(placing.window)
              /\ placing.text.top <= placing.area.bottom
           => ~ Covers(placing.text, bare)
    BY <1>2, <1>5, PlacedWell
  <2> HIDE DEF bare
  <2> QED BY <1>4, <2>1 DEF PlacedBesideText, PlacedOnMonitor, TextUncovered
<1>6. CASE ~ (Width(placing.window) <= Width(placing.area))
  BY <1>6 DEF PlacedBesideText, PlacedOnMonitor, TextUncovered
<1> QED BY <1>5, <1>6

-----------------------------------------------------------------------------
(* The list.                                                               *)

\* What a window's fields hold, without the bounds of a run.
ListWindows ==
  [count : Nat, sel : Nat, pages : Seq(Nat), sticky : BOOLEAN, store : BOOLEAN,
   show : BOOLEAN, dirty : BOOLEAN, seen : [first : Int, sel : Int], pos : Int,
   capture : {"none", "bar", "up", "down"}, timer : {"none", "up", "down"}]

\* Pages begin with the list, each within reach of the one before it.
Reached(p) ==
  /\ p # <<>> /\ p[1] = 0
  /\ \A i \in 1..(Len(p) - 1) : p[i + 1] - p[i] \in 1..PageSize
  /\ \A i, j \in DOMAIN p : i < j => p[i] < p[j]

\* All pages but the first, which may end at the selection, are full.
Full(p) == \A i \in 2..(Len(p) - 1) : p[i + 1] = p[i] + PageSize

\* The pages of a window begin at its list, cover it, and are full in a list
\* that the text service draws.
WellPaged(w) ==
  /\ w \in ListWindows
  /\ w.count = 0 <=> w.pages = <<>>
  /\ w.count > 0 => /\ Reached(w.pages)
                    /\ w.count <= w.pages[Len(w.pages)] + PageSize
                    /\ w.show => Full(w.pages)

(* A set of numbers that none exceeds has a greatest. *)
LEMMA Greatest ==
  ASSUME NEW n \in Nat, NEW S \in SUBSET (1..n), S # {}
  PROVE  \E i \in S : \A j \in S : j <= i
<1> DEFINE below == 1..n
           R == StrictSubsetOrdering(below)
           above(i) == {j \in 1..n : j > i}
           T == {above(i) : i \in S}
<1>0. IsFiniteSet(below)
  BY FS_Interval
<1> HIDE DEF below
<1>1. IsWellFoundedOn(R, SUBSET below)
  <2>1. IsWellFoundedOn(R, FiniteSubsetsOf(below))
    BY FS_StrictSubsetOrderingWellFounded
  <2>2. FiniteSubsetsOf(below) = SUBSET below
    BY <1>0, FS_FiniteSubsetsOfFinite
  <2> QED BY <2>1, <2>2
<1>2. T \subseteq SUBSET below /\ T # {}
  BY DEF below
<1> HIDE DEF R, T
<1>3. PICK x \in T : \A y \in T : <<y, x>> \notin R
  BY <1>1, <1>2, WFMin
<1>4. PICK i \in S : x = above(i)
  BY <1>3 DEF T
<1>5. ASSUME NEW j \in S, j > i PROVE FALSE
  <2>1. above(j) \in T
    BY DEF T
  <2>2. above(j) \subseteq above(i) /\ j \in above(i) /\ j \notin above(j)
    BY <1>5
  <2>3. <<above(j), x>> \in R
    BY <2>2, <1>4 DEF R, StrictSubsetOrdering, below
  <2> QED BY <2>1, <2>3, <1>3
<1> QED BY <1>5

LEMMA DivIs ==
  ASSUME NEW a \in Nat, NEW p \in Nat \ {0}
  PROVE  /\ a \div p \in Nat /\ a % p \in 0..(p - 1)
         /\ a = p * (a \div p) + (a % p)
OBVIOUS

LEMMA Multiples ==
  ASSUME NEW p \in Nat, NEW i \in Int, NEW j \in Int, i < j
  PROVE  i * p + p <= j * p
<1> DEFINE d == j - i - 1
<1>1. d \in Nat /\ j = d + i + 1
  OBVIOUS
<1> HIDE DEF d
<1>2. d * p \in Nat
  BY <1>1
<1>3. (d + i + 1) * p = d * p + i * p + p
  BY <1>1
<1>4. i * p \in Int
  OBVIOUS
<1> QED BY <1>1, <1>2, <1>3, <1>4

\* Pages of r rows each.
EvenPages(m, r) == [i \in 1..m |-> (i - 1) * r]

LEMMA EvenPagesAre ==
  ASSUME NEW m \in Nat \ {0}, NEW r \in 1..PageSize
  PROVE  /\ EvenPages(m, r) \in Seq(Nat) /\ Len(EvenPages(m, r)) = m
         /\ Reached(EvenPages(m, r)) /\ EvenPages(m, r)[m] = (m - 1) * r
         /\ r = PageSize => Full(EvenPages(m, r))
<1> DEFINE q == EvenPages(m, r)
<1>1. r \in Nat \ {0} /\ PageSize \in Nat \ {0}
  BY CandidateListAssumption
<1>2. \A i \in 1..m : (i - 1) * r \in Nat
  BY <1>1
<1>3. q \in Seq(Nat) /\ Len(q) = m /\ DOMAIN q = 1..m /\ q # <<>>
  BY <1>2 DEF EvenPages
<1>4. \A i \in 1..m : q[i] = (i - 1) * r
  BY DEF EvenPages
<1> HIDE DEF q
<1>5. \A i \in 1..(m - 1) : q[i + 1] = q[i] + r
  <2> TAKE i \in 1..(m - 1)
  <2>1. q[i + 1] = ((i + 1) - 1) * r /\ q[i] = (i - 1) * r
    BY <1>4
  <2>2. ((i + 1) - 1) * r = (i - 1) * r + r
    BY <1>1
  <2> QED BY <2>1, <2>2
<1>6. \A i, j \in 1..m : i < j => q[i] < q[j]
  <2> SUFFICES ASSUME NEW i \in 1..m, NEW j \in 1..m, i < j PROVE q[i] < q[j]
    OBVIOUS
  <2>1. (i - 1) * r + r <= (j - 1) * r
    BY <1>1, Multiples
  <2> QED BY <2>1, <1>1, <1>2, <1>4
<1>7. q[1] = 0 /\ q[m] = (m - 1) * r
  BY <1>1, <1>4
<1>8. q[1] = 0 /\ \A i \in 1..m : q[i] \in Nat
  BY <1>2, <1>4, <1>7
<1>9. \A i \in 1..(m - 1) : q[i + 1] - q[i] \in 1..PageSize
  BY <1>1, <1>5, <1>8
<1>10. Reached(q)
  BY <1>3, <1>6, <1>7, <1>9 DEF Reached
<1>11. r = PageSize => Full(q)
  BY <1>3, <1>5 DEF Full
<1> QED BY <1>3, <1>7, <1>10, <1>11 DEF q

\* A first page of r rows and full ones after it.
ShiftedPages(m, r) == [i \in 1..m |-> IF i = 1 THEN 0 ELSE r + (i - 2) * PageSize]

LEMMA ShiftedPagesAre ==
  ASSUME NEW m \in Nat \ {0}, NEW r \in 1..PageSize
  PROVE  /\ ShiftedPages(m, r) \in Seq(Nat) /\ Len(ShiftedPages(m, r)) = m
         /\ Reached(ShiftedPages(m, r)) /\ Full(ShiftedPages(m, r))
         /\ m > 1 => ShiftedPages(m, r)[m] = r + (m - 2) * PageSize
<1> DEFINE q == ShiftedPages(m, r)
<1>1. r \in Nat \ {0} /\ PageSize \in Nat \ {0}
  BY CandidateListAssumption
<1>2. \A i \in 2..m : (i - 2) * PageSize \in Nat
  BY <1>1
<1>3. q \in Seq(Nat) /\ Len(q) = m /\ DOMAIN q = 1..m /\ q # <<>>
  BY <1>1, <1>2 DEF ShiftedPages
<1>4. q[1] = 0 /\ \A i \in 2..m : q[i] = r + (i - 2) * PageSize
  <2>1. q[1] = 0
    BY DEF ShiftedPages
  <2>2. ASSUME NEW i \in 2..m PROVE q[i] = r + (i - 2) * PageSize
    <3>1. i \in 1..m /\ i # 1
      OBVIOUS
    <3> QED BY <3>1 DEF ShiftedPages
  <2> QED BY <2>1, <2>2
<1> HIDE DEF q
<1>5. \A i \in 2..(m - 1) : q[i + 1] = q[i] + PageSize
  <2> TAKE i \in 2..(m - 1)
  <2>1. q[i + 1] = r + ((i + 1) - 2) * PageSize /\ q[i] = r + (i - 2) * PageSize
    BY <1>4
  <2>2. ((i + 1) - 2) * PageSize = (i - 2) * PageSize + PageSize
    BY <1>1
  <2> QED BY <2>1, <2>2, <1>1, <1>2
<1>6. \A i, j \in 1..m : i < j => q[i] < q[j]
  <2> SUFFICES ASSUME NEW i \in 1..m, NEW j \in 1..m, i < j PROVE q[i] < q[j]
    OBVIOUS
  <2>1. CASE i = 1
    BY <2>1, <1>1, <1>2, <1>4
  <2>2. CASE i # 1
    <3>1. (i - 2) * PageSize + PageSize <= (j - 2) * PageSize
      BY <1>1, Multiples
    <3>2. q[i] = r + (i - 2) * PageSize /\ q[j] = r + (j - 2) * PageSize
      BY <2>2, <1>4
    <3>3. (i - 2) * PageSize \in Nat /\ (j - 2) * PageSize \in Nat
      BY <2>2, <1>2
    <3> QED BY <3>1, <3>2, <3>3, <1>1
  <2> QED BY <2>1, <2>2
<1>7. \A i \in 1..m : q[i] \in Nat
  BY <1>3
<1>8. m > 1 => q[2] = r
  BY <1>1, <1>4
<1>9. \A i \in 1..(m - 1) : q[i + 1] - q[i] \in 1..PageSize
  <2> TAKE i \in 1..(m - 1)
  <2>1. CASE i = 1
    BY <2>1, <1>1, <1>4, <1>8
  <2>2. CASE i # 1
    BY <2>2, <1>1, <1>5, <1>7
  <2> QED BY <2>1, <2>2
<1>10. m > 1 => q[m] = r + (m - 2) * PageSize
  BY <1>4
<1>11. Reached(q) /\ Full(q)
  BY <1>3, <1>4, <1>5, <1>6, <1>9 DEF Reached, Full
<1> QED BY <1>3, <1>10, <1>11 DEF q

-----------------------------------------------------------------------------
(* A selection cuts the pages so that one of them begins with it.          *)

LEMMA NewPageCountReaches ==
  ASSUME NEW w \in ListWindows, w.count >= PageSize, w.sel < w.count
  PROVE  /\ NewPageCount(w) \in Nat \ {0} /\ w.sel % PageSize \in 0..(PageSize - 1)
         /\ w.sel % PageSize = 0 => w.count <= (NewPageCount(w) - 1) * PageSize + PageSize
         /\ w.sel % PageSize # 0 =>
              /\ NewPageCount(w) > 1
              /\ w.count <= (w.sel % PageSize) + (NewPageCount(w) - 2) * PageSize + PageSize
<1> DEFINE P == PageSize  s == w.sel  c == w.count  r == s % P  N == NewPageCount(w)
<1>1. P \in Nat \ {0} /\ s \in Nat /\ c \in Nat /\ c >= P /\ s < c
  BY CandidateListAssumption DEF ListWindows
<1>2. N = IF s > 0 THEN IF c > s + P THEN (c - 2) \div P + 2 ELSE 2 + (s - 1) \div P
                   ELSE IF c > s + P THEN (c - 1) \div P + 1 ELSE 1
  BY DEF NewPageCount
<1> HIDE DEF P, s, c, N
<1>3. s \div P \in Nat /\ r \in 0..(P - 1) /\ s = P * (s \div P) + r
  BY <1>1, DivIs
<1> HIDE DEF r
<1>4. CASE s > 0 /\ c > s + P
  <2> DEFINE q == (c - 2) \div P  e == (c - 2) % P
  <2>1. c - 2 \in Nat
    BY <1>1, <1>4
  <2>2. q \in Nat /\ e \in 0..(P - 1) /\ c - 2 = P * q + e
    BY <1>1, <2>1, DivIs
  <2>3. N = q + 2
    BY <1>2, <1>4
  <2> HIDE DEF q, e
  <2>4. (N - 1) * P = P * q + P /\ (N - 2) * P = P * q /\ P * q \in Nat
    BY <1>1, <2>2, <2>3
  <2>5. N \in Nat \ {0} /\ N > 1
    BY <2>2, <2>3
  <2>6. c <= P * q + P + P /\ (r # 0 => c <= r + P * q + P)
    BY <1>1, <1>3, <2>2, <2>4
  <2>7. c <= (N - 1) * P + P /\ (r # 0 => c <= r + (N - 2) * P + P)
    BY <2>4, <2>6
  <2> QED BY <1>3, <2>5, <2>7 DEF P, s, c, r, N
<1>5. CASE s > 0 /\ ~(c > s + P)
  <2> DEFINE q == (s - 1) \div P  e == (s - 1) % P  k == s \div P
  <2>1. s - 1 \in Nat
    BY <1>1, <1>5
  <2>2. q \in Nat /\ e \in 0..(P - 1) /\ s - 1 = P * q + e
    BY <1>1, <2>1, DivIs
  <2>3. N = q + 2
    BY <1>2, <1>5, <2>2
  <2>4. k \in Nat /\ s = P * k + r
    BY <1>3
  <2> HIDE DEF q, e, k
  <2>5. (N - 1) * P = P * q + P /\ (N - 2) * P = P * q /\ P * q \in Nat /\ P * k \in Nat
    BY <1>1, <2>2, <2>3, <2>4
  <2>6. N \in Nat \ {0} /\ N > 1
    BY <2>2, <2>3
  <2>7. c <= P * q + P + P
    BY <1>1, <1>5, <2>2, <2>5
  <2>8. r # 0 => P * k <= P * q
    <3> SUFFICES ASSUME r # 0, q < k PROVE FALSE
      <4> SUFFICES ASSUME r # 0, k <= q PROVE P * k <= P * q
        BY <2>2, <2>4
      <4>1. CASE k = q
        BY <4>1, <2>5
      <4>2. CASE k < q
        <5>1. k * P + P <= q * P
          BY <1>1, <2>2, <2>4, <4>2, Multiples
        <5>2. k * P = P * k /\ q * P = P * q
          BY <1>1, <2>2, <2>4
        <5> QED BY <1>1, <2>5, <5>1, <5>2
      <4> QED BY <2>2, <2>4, <4>1, <4>2
    <3>1. q * P + P <= k * P
      BY <1>1, <2>2, <2>4, Multiples
    <3>2. k * P = P * k /\ q * P = P * q
      BY <1>1, <2>2, <2>4
    <3> QED BY <1>1, <1>3, <2>2, <2>4, <2>5, <3>1, <3>2
  <2>9. r # 0 => c <= r + P * q + P
    BY <1>1, <1>3, <1>5, <2>4, <2>5, <2>8
  <2>10. c <= (N - 1) * P + P /\ (r # 0 => c <= r + (N - 2) * P + P)
    BY <2>5, <2>7, <2>9
  <2> QED BY <1>3, <2>6, <2>10 DEF P, s, c, r, N
<1>6. CASE s = 0
  <2> DEFINE q == (c - 1) \div P  e == (c - 1) % P
  <2>1. r = 0
    <3>1. 0 % P = 0
      BY <1>1
    <3> QED BY <3>1, <1>6 DEF r
  <2>2. c - 1 \in Nat
    BY <1>1, <1>6
  <2>3. q \in Nat /\ e \in 0..(P - 1) /\ c - 1 = P * q + e
    BY <1>1, <2>2, DivIs
  <2>4. N = IF c > P THEN q + 1 ELSE 1
    BY <1>1, <1>2, <1>6
  <2> HIDE DEF q, e
  <2>5. N \in Nat \ {0}
    BY <2>3, <2>4
  <2>6. c <= (N - 1) * P + P
    <3>1. CASE c > P
      <4>1. (N - 1) * P = P * q /\ P * q \in Nat
        BY <1>1, <2>3, <2>4, <3>1
      <4> QED BY <1>1, <2>3, <4>1
    <3>2. CASE ~(c > P)
      <4>1. (N - 1) * P = 0
        BY <1>1, <2>4, <3>2
      <4> QED BY <1>1, <3>2, <4>1
    <3> QED BY <3>1, <3>2
  <2> QED BY <1>3, <2>1, <2>5, <2>6 DEF P, s, c, r, N
<1> QED BY <1>1, <1>4, <1>5, <1>6

LEMMA AdjustedPages ==
  ASSUME NEW w \in ListWindows, w.count >= PageSize, w.sel < w.count
  PROVE  LET q == AdjustPageIndexForSelection(w).pages
         IN /\ q \in Seq(Nat) /\ Reached(q) /\ Full(q)
            /\ w.count <= q[Len(q)] + PageSize
<1> DEFINE N == NewPageCount(w)  r == w.sel % PageSize
           q == AdjustPageIndexForSelection(w).pages
<1>1. /\ N \in Nat \ {0} /\ r \in 0..(PageSize - 1)
      /\ r = 0 => w.count <= (N - 1) * PageSize + PageSize
      /\ r # 0 => N > 1 /\ w.count <= r + (N - 2) * PageSize + PageSize
  BY NewPageCountReaches
<1>2. ~(w.count < PageSize) /\ PageSize \in Nat \ {0} /\ w.count \in Nat
  BY CandidateListAssumption DEF ListWindows
<1>3. q = [i \in 1..N |-> IF i = 1 THEN 0 ELSE IF r = 0 THEN (i - 1) * PageSize
                                                ELSE r + (i - 2) * PageSize]
  BY <1>2 DEF AdjustPageIndexForSelection, ListWindows
<1> HIDE DEF q, N, r
<1>4. CASE r = 0
  <2>1. \A i \in 1..N : (IF i = 1 THEN 0 ELSE (i - 1) * PageSize) = (i - 1) * PageSize
    BY <1>1, <1>2
  <2>2. q = EvenPages(N, PageSize)
    BY <1>3, <1>4, <2>1 DEF EvenPages
  <2>3. PageSize \in 1..PageSize
    BY <1>2
  <2>4. /\ q \in Seq(Nat) /\ Len(q) = N /\ Reached(q) /\ Full(q)
        /\ q[N] = (N - 1) * PageSize
    BY <1>1, <2>2, <2>3, EvenPagesAre
  <2>5. w.count <= q[Len(q)] + PageSize
    BY <1>1, <1>4, <2>4
  <2> QED BY <2>4, <2>5 DEF q
<1>5. CASE r # 0
  <2>1. q = ShiftedPages(N, r)
    BY <1>3, <1>5 DEF ShiftedPages
  <2>2. r \in 1..PageSize
    BY <1>1, <1>2, <1>5
  <2> QED BY <1>1, <1>2, <1>5, <2>1, <2>2, ShiftedPagesAre DEF q
<1> QED BY <1>4, <1>5

-----------------------------------------------------------------------------
(* The current page.                                                       *)

\* What makes a page the current one.
IsCurrent(w, i) ==
  /\ i \in DOMAIN w.pages
  /\ i < Len(w.pages) => w.pages[i + 1] > w.sel
  /\ \A j \in 1..i : w.pages[j] <= w.sel

LEMMA CurrentPageIs ==
  ASSUME NEW w \in ListWindows, Reached(w.pages)
  PROVE  IsCurrent(w, GetCurrentPage(w))
<1> DEFINE p == w.pages  s == w.sel  n == Len(p)
           S == {i \in 1..n : \A j \in 2..i : p[j] <= s}
           Cur(i) == (i < n => p[i + 1] > s) /\ \A j \in 2..i : p[j] <= s
<1>1. /\ p \in Seq(Nat) /\ n \in Nat \ {0} /\ DOMAIN p = 1..n /\ s \in Nat /\ p # <<>> /\ p[1] = 0
      /\ \A i \in 1..n : p[i] \in Nat
  BY DEF ListWindows, Reached
<1> HIDE DEF p, s, n
<1>2. PICK i \in S : \A j \in S : j <= i
  <2>1. S \in SUBSET (1..n) /\ 1 \in S
    BY <1>1
  <2> HIDE DEF S
  <2> QED BY <1>1, <2>1, Greatest
<1>3. i \in 1..n /\ Cur(i)
  <2>1. i \in 1..n /\ \A j \in 2..i : p[j] <= s
    BY <1>2
  <2>2. ASSUME i < n, ~(p[i + 1] > s) PROVE FALSE
    <3>1. i + 1 \in S
      BY <1>1, <2>1, <2>2
    <3> QED BY <1>2, <2>1, <3>1
  <2> QED BY <2>1, <2>2
<1>4. GetCurrentPage(w) = CHOOSE k \in DOMAIN p : Cur(k)
  BY <1>1 DEF GetCurrentPage, p, s, n
<1>5. GetCurrentPage(w) \in 1..n /\ Cur(GetCurrentPage(w))
  <2> HIDE DEF Cur
  <2> QED BY <1>1, <1>3, <1>4
<1>6. \A j \in 1..GetCurrentPage(w) : p[j] <= s
  BY <1>1, <1>5
<1> QED BY <1>1, <1>5, <1>6 DEF IsCurrent, p, s, n

LEMMA OneIsCurrent ==
  ASSUME NEW w \in ListWindows, Reached(w.pages), NEW i, IsCurrent(w, i)
  PROVE  GetCurrentPage(w) = i
<1>1. IsCurrent(w, GetCurrentPage(w))
  BY CurrentPageIs
<1>2. DOMAIN w.pages = 1..Len(w.pages) /\ Len(w.pages) \in Nat /\ w.sel \in Nat
      /\ \A j \in 1..Len(w.pages) : w.pages[j] \in Nat
  BY DEF ListWindows
<1>3. ASSUME NEW a, NEW b, IsCurrent(w, a), IsCurrent(w, b) PROVE ~(a < b)
  <2>1. a \in 1..Len(w.pages) /\ b \in 1..Len(w.pages)
    BY <1>2, <1>3 DEF IsCurrent
  <2>2. SUFFICES ASSUME a < b PROVE FALSE
    OBVIOUS
  <2>3. a + 1 \in 1..b /\ a < Len(w.pages)
    BY <1>2, <2>1, <2>2
  <2>4. w.pages[a + 1] > w.sel /\ w.pages[a + 1] <= w.sel
    BY <1>3, <2>3 DEF IsCurrent
  <2> QED BY <1>2, <2>1, <2>3, <2>4
<1>4. i \in 1..Len(w.pages) /\ GetCurrentPage(w) \in 1..Len(w.pages)
  BY <1>1, <1>2 DEF IsCurrent
<1>5. ~(i < GetCurrentPage(w)) /\ ~(GetCurrentPage(w) < i)
  BY <1>1, <1>3
<1> DEFINE g == GetCurrentPage(w)
<1> HIDE DEF g
<1>6. i \in Int /\ g \in Int /\ ~(i < g) /\ ~(g < i)
  BY <1>2, <1>4, <1>5 DEF g
<1>7. g = i
  BY <1>6
<1> QED BY <1>7 DEF g

\* The current page depends on pages and selection alone.
LEMMA SamePage ==
  ASSUME NEW v \in ListWindows, NEW w \in ListWindows, v.pages = w.pages, v.sel = w.sel,
         w.pages # <<>> => Reached(w.pages)
  PROVE  GetCurrentPage(v) = GetCurrentPage(w) /\ First(v) = First(w)
<1>1. CASE w.pages = <<>>
  BY <1>1 DEF GetCurrentPage, First
<1>2. CASE w.pages # <<>>
  <2>1. IsCurrent(w, GetCurrentPage(w))
    BY <1>2, CurrentPageIs
  <2>2. IsCurrent(v, GetCurrentPage(w))
    BY <2>1 DEF IsCurrent
  <2>3. GetCurrentPage(v) = GetCurrentPage(w)
    BY <1>2, <2>2, OneIsCurrent
  <2> QED BY <2>3 DEF First
<1> QED BY <1>1, <1>2

\* A selection is on its page.
LEMMA OnPage ==
  ASSUME NEW w, WellPaged(w), w.count > 0
  PROVE  /\ First(w) \in Nat /\ First(w) <= w.sel
         /\ w.sel < w.count => w.sel - First(w) \in 0..(PageSize - 1)
<1> DEFINE i == GetCurrentPage(w)
<1>1. w \in ListWindows /\ Reached(w.pages) /\ w.count <= w.pages[Len(w.pages)] + PageSize
  BY DEF WellPaged
<1>2. IsCurrent(w, i)
  BY <1>1, CurrentPageIs
<1>3. /\ DOMAIN w.pages = 1..Len(w.pages) /\ Len(w.pages) \in Nat /\ w.sel \in Nat /\ w.count \in Nat
      /\ \A j \in 1..Len(w.pages) : w.pages[j] \in Nat
  BY <1>1 DEF ListWindows
<1> HIDE DEF i
<1>4. First(w) = w.pages[i]
  BY DEF First, i
<1>5. i \in 1..Len(w.pages) /\ w.pages[i] <= w.sel /\ (i < Len(w.pages) => w.pages[i + 1] > w.sel)
  BY <1>2, <1>3 DEF IsCurrent
<1>6. i < Len(w.pages) => w.pages[i + 1] - w.pages[i] \in 1..PageSize
  BY <1>1, <1>3, <1>5 DEF Reached
<1>7. PageSize \in Nat
  BY CandidateListAssumption
<1>8. w.sel < w.count => w.sel < w.pages[i] + PageSize
  <2>1. CASE i < Len(w.pages)
    <3>1. w.pages[i + 1] \in Nat /\ w.pages[i] \in Nat
      BY <2>1, <1>3, <1>5
    <3> QED BY SMTT(40), <2>1, <3>1, <1>3, <1>5, <1>6, <1>7
  <2>2. CASE i = Len(w.pages)
    BY <2>2, <1>1, <1>3, <1>5, <1>7
  <2> QED BY <2>1, <2>2, <1>3, <1>5
<1> QED BY <1>3, <1>4, <1>5, <1>7, <1>8

-----------------------------------------------------------------------------
(* What the moves leave alone.                                             *)

\* v is w after moves and scrolls: another selection, other pages, another
\* position, but the same list in the same window, which may have to be
\* painted.
Follows(v, w) ==
  /\ WellPaged(v)
  /\ v.count = w.count /\ v.show = w.show /\ v.store = w.store /\ v.seen = w.seen
  /\ v.capture = w.capture /\ v.timer = w.timer /\ (w.dirty => v.dirty)

LEMMA FollowsItself == ASSUME NEW w, WellPaged(w) PROVE Follows(w, w)
BY DEF Follows

LEMMA FollowsOn ==
  ASSUME NEW u, NEW v, NEW w, Follows(u, v), Follows(v, w) PROVE Follows(u, w)
BY DEF Follows

\* A selection in the list, made before pages are cut for it or without it.
Chosen(w, i, sticky) == [w EXCEPT !.sel = i, !.sticky = sticky]

LEMMA Selected ==
  ASSUME NEW w, WellPaged(w), NEW i \in Nat, NEW sticky \in BOOLEAN
  PROVE  Follows(Chosen(w, i, sticky), w) /\ Chosen(w, i, sticky).sel = i
<1>1. w \in ListWindows
  BY DEF WellPaged
<1> DEFINE v == Chosen(w, i, sticky)
<1>2. /\ v \in ListWindows /\ v.sel = i /\ v.pages = w.pages /\ v.count = w.count /\ v.show = w.show
      /\ v.store = w.store /\ v.seen = w.seen /\ v.capture = w.capture /\ v.timer = w.timer
      /\ v.dirty = w.dirty
  BY <1>1 DEF ListWindows, Chosen
<1> HIDE DEF v
<1>3. Follows(v, w) /\ v.sel = i
  BY <1>2 DEF WellPaged, Follows
<1> QED BY <1>3 DEF v

LEMMA AdjustFollows ==
  ASSUME NEW w, WellPaged(w), w.sel < w.count
  PROVE  /\ Follows(AdjustPageIndexForSelection(w), w)
         /\ AdjustPageIndexForSelection(w).sel = w.sel
         /\ AdjustPageIndexForSelection(w).dirty = w.dirty
         /\ AdjustPageIndexForSelection(w).sticky = w.sticky
         /\ AdjustPageIndexForSelection(w).pos = w.pos
<1> DEFINE v == AdjustPageIndexForSelection(w)
<1>1. w \in ListWindows
  BY DEF WellPaged
<1>2. CASE w.count < PageSize
  <2>1. v = w
    BY <1>2 DEF AdjustPageIndexForSelection
  <2> QED BY <2>1 DEF Follows
<1>3. CASE ~(w.count < PageSize)
  <2>1. w.count >= PageSize /\ PageSize \in Nat \ {0} /\ w.count \in Nat
    BY <1>1, <1>3, CandidateListAssumption DEF ListWindows
  <2>2. /\ v.pages \in Seq(Nat) /\ Reached(v.pages) /\ Full(v.pages)
        /\ w.count <= v.pages[Len(v.pages)] + PageSize
    BY <1>1, <2>1, AdjustedPages
  <2>3. PICK q : v = [w EXCEPT !.pages = q]
    BY <1>3 DEF AdjustPageIndexForSelection
  <2> HIDE DEF v
  <2>4. /\ v.pages = q /\ v.count = w.count /\ v.sel = w.sel /\ v.show = w.show /\ v.store = w.store
        /\ v.seen = w.seen /\ v.capture = w.capture /\ v.timer = w.timer /\ v.dirty = w.dirty
        /\ v.sticky = w.sticky /\ v.pos = w.pos
    BY <1>1, <2>3 DEF ListWindows
  <2>5. v \in ListWindows
    BY <1>1, <2>2, <2>3, <2>4 DEF ListWindows
  <2>6. w.count > 0 /\ v.pages # <<>>
    BY <2>1, <2>2 DEF Reached
  <2>7. WellPaged(v)
    BY <2>1, <2>2, <2>4, <2>5, <2>6 DEF WellPaged
  <2> QED BY <2>4, <2>7 DEF Follows, v
<1> QED BY <1>2, <1>3

LEMMA SelectFollows ==
  ASSUME NEW w, WellPaged(w), NEW i \in Int PROVE Follows(SelectQuietly(w, i), w)
<1> DEFINE v == Chosen(w, i, w.sticky)
<1>1. w \in ListWindows /\ w.count \in Nat
  BY DEF WellPaged, ListWindows
<1>2. CASE InList(w, i)
  <2>1. i \in Nat /\ i < w.count
    BY <1>1, <1>2 DEF InList
  <2>2. [w EXCEPT !.sel = i] = v
    BY <1>1 DEF ListWindows, Chosen
  <2>3. Follows(v, w) /\ v.sel = i
    BY <1>1, <2>1, Selected DEF ListWindows
  <2> HIDE DEF v
  <2>4. WellPaged(v) /\ v.sel < v.count
    BY <2>1, <2>3 DEF Follows
  <2>5. Follows(AdjustPageIndexForSelection(v), v)
    BY <2>4, AdjustFollows
  <2> QED BY <1>2, <2>2, <2>3, <2>5, FollowsOn DEF SelectQuietly
<1>3. CASE ~InList(w, i)
  BY <1>3, FollowsItself DEF SelectQuietly
<1> QED BY <1>2, <1>3

LEMMA OffsetFollows ==
  ASSUME NEW w, WellPaged(w), NEW d \in Int PROVE Follows(SetSelectionOffset(w, d), w)
<1> DEFINE i == w.sel + d
           special == CurrentPageHasEmptyItems(w) /\ Len(w.pages) > 1
           v == [w EXCEPT !.sel = i, !.sticky = @ \/ special]
<1>1. w \in ListWindows /\ w.count \in Nat /\ w.sel \in Nat /\ w.sticky \in BOOLEAN
  BY DEF WellPaged, ListWindows
<1>2. CASE InList(w, i)
  <2>1. i \in Nat /\ i < w.count
    BY <1>1, <1>2 DEF InList
  <2> DEFINE sticky == w.sticky \/ special
  <2>3. v = Chosen(w, i, sticky) /\ sticky \in BOOLEAN
    BY <1>1 DEF ListWindows, Chosen
  <2>4. SetSelectionOffset(w, d) \in {v, AdjustPageIndexForSelection(v)}
    BY <1>2 DEF SetSelectionOffset
  <2> HIDE DEF v, i, special, sticky
  <2>8. i \in Nat
    BY <2>1
  <2>5. Follows(v, w) /\ v.sel = i
    BY <2>3, <2>8, Selected
  <2>6. WellPaged(v) /\ v.sel < v.count
    BY <2>1, <2>5 DEF Follows
  <2>7. Follows(AdjustPageIndexForSelection(v), v)
    BY <2>6, AdjustFollows
  <2> QED BY <2>4, <2>5, <2>7, FollowsOn
<1>3. CASE ~InList(w, i)
  BY <1>3, FollowsItself DEF SetSelectionOffset
<1> QED BY <1>2, <1>3

LEMMA PageFollows ==
  ASSUME NEW w, WellPaged(w), NEW d \in Int PROVE Follows(MovePageQuietly(w, d), w)
<1> DEFINE p == GetCurrentPage(w)
           target == w.pages[p + d] + (w.sel - First(w))
           i == Smaller(target, w.count - 1)
           special == w.sel % PageSize = 0 /\ w.sel = First(w)
           v == [w EXCEPT !.sel = i, !.sticky = @ \/ special]
<1>1. w \in ListWindows /\ w.count \in Nat /\ w.sel \in Nat /\ w.sticky \in BOOLEAN
  BY DEF WellPaged, ListWindows
<1>2. CASE MovablePage(w, d)
  <2>1. w.pages # <<>> /\ p + d \in DOMAIN w.pages
    BY <1>2 DEF MovablePage, GetCurrentPage
  <2>2. w.count > 0 /\ w.pages[p + d] \in Nat
    BY <1>1, <2>1 DEF WellPaged, ListWindows
  <2>3. First(w) \in Nat /\ First(w) <= w.sel
    BY <2>2, OnPage
  <2>4. i \in Nat
    BY <1>1, <2>2, <2>3 DEF Smaller
  <2> DEFINE sticky == w.sticky \/ special
  <2>5. v = Chosen(w, i, sticky) /\ sticky \in BOOLEAN
    BY <1>1 DEF ListWindows, Chosen
  <2>6. MovePageQuietly(w, d) = v
    BY <1>2 DEF MovePageQuietly
  <2> HIDE DEF v, i, special, sticky
  <2> QED BY <2>4, <2>5, <2>6, Selected
<1>3. CASE ~MovablePage(w, d)
  BY <1>3, FollowsItself DEF MovePageQuietly
<1> QED BY <1>2, <1>3

-----------------------------------------------------------------------------
(* The scroll bar, and what the presenter makes of a move.                 *)

LEMMA InvalidateFollows ==
  ASSUME NEW w, WellPaged(w)
  PROVE  Follows(InvalidateRect(w), w) /\ InvalidateRect(w).dirty
<1>1. w \in ListWindows
  BY DEF WellPaged
<1> DEFINE v == InvalidateRect(w)
<1>2. /\ v \in ListWindows /\ v.dirty /\ v.pages = w.pages /\ v.count = w.count /\ v.show = w.show
      /\ v.store = w.store /\ v.seen = w.seen /\ v.capture = w.capture /\ v.timer = w.timer
  BY <1>1 DEF ListWindows, InvalidateRect
<1> HIDE DEF v
<1>3. Follows(v, w) /\ v.dirty
  BY <1>2 DEF WellPaged, Follows
<1> QED BY <1>3 DEF v

LEMMA ScrollFollows ==
  ASSUME NEW w, WellPaged(w), NEW code, NEW pos \in Int
  PROVE  Follows(OnVScroll(w, code, pos), w) /\ OnVScroll(w, code, pos).dirty
<1>1. ASSUME NEW v, Follows(v, w)
      PROVE  Follows(InvalidateRect(v), w) /\ InvalidateRect(v).dirty
  BY <1>1, InvalidateFollows, FollowsOn DEF Follows
<1>2. Direction(code) \in Int
  BY DEF Direction
<1>3. /\ Follows(SetSelectionOffset(w, Direction(code)), w)
      /\ Follows(MovePageQuietly(w, Direction(code)), w)
      /\ Follows(SelectQuietly(w, pos), w)
  BY <1>2, OffsetFollows, PageFollows, SelectFollows
<1> QED BY <1>1, <1>3 DEF OnVScroll

LEMMA CurPosFollows ==
  ASSUME NEW w, WellPaged(w), NEW pos \in Int, NEW code
  PROVE  Follows(SetCurPos(w, pos, code), w)
<1> DEFINE most == Larger(w.count - PageSize, 0)
           at == Larger(Smaller(pos, most), 0)
           moved == [w EXCEPT !.pos = at]
<1>1. w \in ListWindows /\ w.count \in Nat /\ PageSize \in Nat
  BY CandidateListAssumption DEF WellPaged, ListWindows
<1>2. at \in Int
  BY <1>1 DEF Larger, Smaller
<1> HIDE DEF at
<1>3. /\ moved \in ListWindows /\ moved.pos = at /\ moved.pages = w.pages /\ moved.count = w.count
      /\ moved.show = w.show /\ moved.store = w.store /\ moved.seen = w.seen
      /\ moved.capture = w.capture /\ moved.timer = w.timer /\ moved.dirty = w.dirty
  BY <1>1, <1>2 DEF ListWindows
<1>4. SetCurPos(w, pos, code) \in {w, OnVScroll(moved, code, moved.pos), moved}
  BY DEF SetCurPos, at
<1> HIDE DEF moved
<1>5. Follows(moved, w) /\ moved.pos \in Int
  BY <1>2, <1>3 DEF WellPaged, Follows
<1>6. Follows(OnVScroll(moved, code, moved.pos), w)
  BY <1>5, ScrollFollows, FollowsOn DEF Follows
<1> QED BY <1>4, <1>5, <1>6, FollowsItself

\* The moves that the arrow keys make.  One that is not made changes nothing.
LEMMA MovesFollow ==
  ASSUME NEW w, WellPaged(w), NEW d \in {-1, 1}, NEW i \in {0, -1}
  PROVE  /\ Follows(MoveSelection(w, d), w) /\ (~InList(w, Shifted(w, d)) => MoveSelection(w, d) = w)
         /\ Follows(MovePage(w, d), w) /\ (~MovablePage(w, d) => MovePage(w, d) = w)
         /\ Follows(SetSelection(w, i), w) /\ (~(w.count > 0) => SetSelection(w, i) = w)
<1>1. /\ w \in ListWindows /\ w.count \in Nat /\ w.sel \in Nat /\ w.pos \in Int
      /\ PageSize \in Nat /\ d \in Int /\ i \in Int
  BY CandidateListAssumption DEF WellPaged, ListWindows
<1>2. Follows(MoveSelection(w, d), w) /\ (~InList(w, Shifted(w, d)) => MoveSelection(w, d) = w)
  <2> DEFINE j == Shifted(w, d)  v == [w EXCEPT !.sel = j, !.sticky = TRUE]
  <2>1. CASE InList(w, j)
    <3>1. j \in Nat
      BY <1>1, <2>1 DEF InList
    <3>3. MoveSelection(w, d) = SetCurPos(v, w.pos + d, LineCode(d))
      BY <2>1 DEF MoveSelection
    <3> HIDE DEF j
    <3>4. v = Chosen(w, j, TRUE)
      BY DEF Chosen
    <3> HIDE DEF v
    <3>5. Follows(v, w)
      BY <3>1, <3>4, Selected
    <3>6. Follows(SetCurPos(v, w.pos + d, LineCode(d)), v)
      BY <1>1, <3>5, CurPosFollows DEF Follows
    <3> QED BY <2>1, <3>3, <3>5, <3>6, FollowsOn DEF j
  <2>2. CASE ~InList(w, j)
    BY <2>2, FollowsItself DEF MoveSelection
  <2> QED BY <2>1, <2>2
<1>3. Follows(MovePage(w, d), w) /\ (~MovablePage(w, d) => MovePage(w, d) = w)
  <2> DEFINE v == MovePageQuietly(w, d)
  <2>1. Follows(v, w)
    BY <1>1, PageFollows
  <2>2. MovePage(w, d) = IF ~MovablePage(w, d) THEN w
                         ELSE SetCurPos(v, w.pos + PageSize * d, PageCode(d))
    BY DEF MovePage
  <2> HIDE DEF v
  <2>3. w.pos + PageSize * d \in Int
    BY <1>1
  <2>4. Follows(SetCurPos(v, w.pos + PageSize * d, PageCode(d)), v)
    BY <2>1, <2>3, CurPosFollows DEF Follows
  <2> QED BY <2>1, <2>2, <2>4, FollowsOn, FollowsItself
<1>4. Follows(SetSelection(w, i), w) /\ (~(w.count > 0) => SetSelection(w, i) = w)
  <2> DEFINE j == IF i = -1 THEN w.count - 1 ELSE i
  <2>1. j \in Int /\ (~(w.count > 0) => ~InList(w, j))
    BY <1>1 DEF InList
  <2>2. SetSelection(w, i) = IF InList(w, j) THEN SetCurPos(SelectQuietly(w, j), j, "thumb") ELSE w
    BY DEF SetSelection
  <2> HIDE DEF j
  <2>3. Follows(SelectQuietly(w, j), w)
    BY <2>1, SelectFollows
  <2>4. Follows(SetCurPos(SelectQuietly(w, j), j, "thumb"), SelectQuietly(w, j))
    BY <2>1, <2>3, CurPosFollows DEF Follows
  <2> QED BY <2>1, <2>2, <2>3, <2>4, FollowsOn, FollowsItself
<1> QED BY <1>2, <1>3, <1>4

\* v is w after an arrow key: painted anew or, where the application paints,
\* told of the selection, if anything has moved.
Told(v) == IF v.show THEN v.dirty ELSE v.seen.sel = v.sel

Announced(v, w) ==
  /\ WellPaged(v) /\ v.count = w.count /\ v.show = w.show /\ v.timer = w.timer
  /\ v = w \/ Told(v)

LEMMA AnnounceIs ==
  ASSUME NEW w, NEW v, Follows(v, w), NEW moved \in BOOLEAN, ~moved => v = w, NEW flags,
         moved => w.count > 0
  PROVE  /\ Announced(Announce(v, moved, flags), w)
         /\ moved => Told(Announce(v, moved, flags))
<1>1. /\ v \in ListWindows /\ WellPaged(v) /\ v.count = w.count /\ v.show = w.show
      /\ v.timer = w.timer
  BY DEF Follows, WellPaged
<1>2. CASE ~moved
  BY <1>1, <1>2 DEF Announce, Announced
<1>3. CASE moved /\ v.show
  <2>1. Follows(InvalidateRect(v), v) /\ InvalidateRect(v).dirty
    BY <1>1, InvalidateFollows
  <2>2. Announce(v, moved, flags) = InvalidateRect(v)
    BY <1>3 DEF Announce
  <2> QED BY <1>1, <1>3, <2>1, <2>2 DEF Follows, Announced, Told
<1>4. CASE moved /\ ~v.show
  <2> DEFINE first == IF "page" \in flags THEN First(v) ELSE v.seen.first
             u == [v EXCEPT !.seen = [first |-> first, sel |-> v.sel]]
  <2>1. first \in Int /\ v.sel \in Int
    <3>1. v.count > 0
      BY <1>1, <1>4
    <3>2. First(v) \in Nat
      BY <1>1, <3>1, OnPage
    <3> QED BY <1>1, <3>2 DEF ListWindows
  <2>2. Announce(v, moved, flags) = u
    BY <1>1, <1>4 DEF Announce, ListWindows
  <2> HIDE DEF first
  <2>3. /\ u \in ListWindows /\ u.pages = v.pages /\ u.count = v.count /\ u.show = v.show
        /\ u.timer = v.timer /\ u.sel = v.sel /\ u.seen = [first |-> first, sel |-> v.sel]
    BY <1>1, <2>1 DEF ListWindows
  <2> HIDE DEF u
  <2>4. WellPaged(u)
    BY <1>1, <2>3 DEF WellPaged
  <2>5. u.seen.sel = u.sel /\ ~u.show
    BY <1>1, <1>4, <2>3
  <2>6. Announced(u, w) /\ Told(u)
    BY <1>1, <2>3, <2>4, <2>5 DEF Announced, Told
  <2> QED BY <2>2, <2>6
<1> QED BY <1>2, <1>3, <1>4

LEMMA ArrowIs ==
  ASSUME NEW w, WellPaged(w), NEW arrow \in Arrows
  PROVE  Announced(AdviseUIChangedByArrowKey(w, arrow), w)
<1> DEFINE d == IF arrow \in {"up", "pageUp"} THEN -1 ELSE 1
           i == IF arrow = "top" THEN 0 ELSE -1
<1>1. w \in ListWindows /\ w.count \in Nat /\ w.sel \in Nat
  BY DEF WellPaged, ListWindows
<1>2. d \in {-1, 1} /\ i \in {0, -1}
  OBVIOUS
<1>3. \/ AdviseUIChangedByArrowKey(w, arrow)
           = Announce(MoveSelection(w, d), InList(w, Shifted(w, d)), {"sel"})
      \/ AdviseUIChangedByArrowKey(w, arrow)
           = Announce(MovePage(w, d), MovablePage(w, d), {"sel", "page"})
      \/ AdviseUIChangedByArrowKey(w, arrow)
           = Announce(SetSelection(w, i), w.count > 0, {"sel", "page"})
  BY DEF AdviseUIChangedByArrowKey
<1> HIDE DEF d, i
<1>4. /\ Follows(MoveSelection(w, d), w) /\ (~InList(w, Shifted(w, d)) => MoveSelection(w, d) = w)
      /\ Follows(MovePage(w, d), w) /\ (~MovablePage(w, d) => MovePage(w, d) = w)
      /\ Follows(SetSelection(w, i), w) /\ (~(w.count > 0) => SetSelection(w, i) = w)
  BY <1>2, MovesFollow
<1>5. /\ InList(w, Shifted(w, d)) \in BOOLEAN /\ MovablePage(w, d) \in BOOLEAN /\ (w.count > 0) \in BOOLEAN
      /\ InList(w, Shifted(w, d)) => w.count > 0
      /\ MovablePage(w, d) => w.count > 0
  BY <1>1 DEF InList, MovablePage, GetCurrentPage, WellPaged
<1> DEFINE a == InList(w, Shifted(w, d))  b == MovablePage(w, d)  c == w.count > 0
<1>6. /\ a \in BOOLEAN /\ b \in BOOLEAN /\ c \in BOOLEAN
      /\ ~a => MoveSelection(w, d) = w
      /\ ~b => MovePage(w, d) = w
      /\ ~c => SetSelection(w, i) = w
      /\ (a => w.count > 0) /\ (b => w.count > 0) /\ (c => w.count > 0)
  BY <1>4, <1>5
<1>7. \/ AdviseUIChangedByArrowKey(w, arrow) = Announce(MoveSelection(w, d), a, {"sel"})
      \/ AdviseUIChangedByArrowKey(w, arrow) = Announce(MovePage(w, d), b, {"sel", "page"})
      \/ AdviseUIChangedByArrowKey(w, arrow) = Announce(SetSelection(w, i), c, {"sel", "page"})
  BY <1>3
<1> HIDE DEF a, b, c
<1>8. Announced(Announce(MoveSelection(w, d), a, {"sel"}), w)
  BY <1>4, <1>6, AnnounceIs
<1>9. Announced(Announce(MovePage(w, d), b, {"sel", "page"}), w)
  BY <1>4, <1>6, AnnounceIs
<1>10. Announced(Announce(SetSelection(w, i), c, {"sel", "page"}), w)
  BY <1>4, <1>6, AnnounceIs
<1> QED BY <1>7, <1>8, <1>9, <1>10

-----------------------------------------------------------------------------
(* Painting.                                                               *)

LEMMA RefillFollows ==
  ASSUME NEW w, WellPaged(w), w.count > 0, NEW i \in Nat, i < w.count, NEW u,
         u = [AdjustPageIndexForSelection([w EXCEPT !.sel = i]) EXCEPT !.sel = w.sel, !.sticky = FALSE]
  PROVE  Follows(u, w) /\ u.sel = w.sel
<1> DEFINE v == Chosen(w, i, w.sticky)  a == AdjustPageIndexForSelection(v)
<1>1. w \in ListWindows /\ w.sel \in Nat /\ w.sticky \in BOOLEAN
  BY DEF WellPaged, ListWindows
<1>2. [w EXCEPT !.sel = i] = v
  BY <1>1 DEF ListWindows, Chosen
<1>3. u = Chosen(a, w.sel, FALSE)
  BY <1>2 DEF Chosen
<1>4. Follows(v, w) /\ v.sel = i
  BY <1>1, Selected
<1> HIDE DEF v
<1>5. WellPaged(v) /\ v.sel < v.count
  BY <1>4 DEF Follows
<1>6. Follows(a, v)
  BY <1>5, AdjustFollows
<1> HIDE DEF a
<1>7. WellPaged(a)
  BY <1>6 DEF Follows
<1>8. Follows(Chosen(a, w.sel, FALSE), a) /\ Chosen(a, w.sel, FALSE).sel = w.sel
  BY <1>1, <1>7, Selected
<1> QED BY <1>3, <1>4, <1>6, <1>8, FollowsOn

LEMMA AdjustIndexFollows ==
  ASSUME NEW w, WellPaged(w), w.pages # <<>>
  PROVE  Follows(AdjustPageIndex(w), w) /\ AdjustPageIndex(w).sel = w.sel
<1> DEFINE refilled(i) == [AdjustPageIndexForSelection([w EXCEPT !.sel = i])
                             EXCEPT !.sel = w.sel, !.sticky = FALSE]
<1>1. w \in ListWindows /\ w.sel \in Nat /\ w.count \in Nat /\ w.count > 0 /\ PageSize \in Nat \ {0}
  BY CandidateListAssumption DEF WellPaged, ListWindows
<1>2. \A i \in Nat : i < w.count => Follows(refilled(i), w) /\ refilled(i).sel = w.sel
  BY <1>1, RefillFollows
<1>3. CASE ~CurrentPageHasEmptyItems(w) \/ w.sticky
  BY <1>3, FollowsItself DEF AdjustPageIndex
<1>4. CASE ~(~CurrentPageHasEmptyItems(w) \/ w.sticky)
  <2>1. w.count >= PageSize
    BY <1>4 DEF CurrentPageHasEmptyItems
  <2>2. w.count - PageSize \in Nat /\ w.count - PageSize < w.count /\ 0 < w.count
    BY <1>1, <2>1
  <2> DEFINE v == [w EXCEPT !.sticky = FALSE]
  <2>3. AdjustPageIndex(w) \in {refilled(w.count - PageSize), refilled(0), v}
    BY <1>4 DEF AdjustPageIndex
  <2>4. Follows(v, w) /\ v.sel = w.sel
    <3>1. v = Chosen(w, w.sel, FALSE)
      BY <1>1 DEF ListWindows, Chosen
    <3> QED BY <1>1, <3>1, Selected
  <2> HIDE DEF v, refilled
  <2> QED BY <1>2, <2>2, <2>3, <2>4
<1> QED BY <1>3, <1>4

\* What a paint shows is there.
LEMMA PaintIs ==
  ASSUME NEW w, WellPaged(w), NEW v, v = OnPaint(w)
  PROVE  /\ WellPaged(v) /\ v.count = w.count /\ v.show = w.show /\ v.timer = w.timer
         /\ v.sel = w.sel
         /\ v.count > 0 => v.seen = [first |-> First(v), sel |-> v.sel]
<1>1. w \in ListWindows
  BY DEF WellPaged
<1>2. CASE w.pages = <<>>
  <2>1. v = [w EXCEPT !.dirty = FALSE]
    BY <1>2 DEF OnPaint
  <2>2. /\ v \in ListWindows /\ v.pages = w.pages /\ v.count = w.count /\ v.show = w.show
        /\ v.timer = w.timer /\ v.sel = w.sel
    BY <1>1, <2>1 DEF ListWindows
  <2>3. ~(v.count > 0)
    BY <1>2, <2>2 DEF WellPaged
  <2> QED BY <2>2, <2>3 DEF WellPaged
<1>3. CASE w.pages # <<>>
  <2> DEFINE a == AdjustPageIndex(w)  s == [first |-> First(a), sel |-> w.sel]
  <2>1. Follows(a, w) /\ a.sel = w.sel
    BY <1>3, AdjustIndexFollows
  <2>2. v = [a EXCEPT !.dirty = FALSE, !.seen = s]
    BY <1>3 DEF OnPaint
  <2> HIDE DEF a, s
  <2>3. a \in ListWindows /\ WellPaged(a) /\ a.count > 0
    BY <1>1, <1>3, <2>1 DEF Follows, WellPaged, ListWindows
  <2>4. First(a) \in Nat /\ w.sel \in Nat
    BY <1>1, <2>3, OnPage DEF ListWindows
  <2>5. s \in [first : Int, sel : Int] /\ s = [first |-> First(a), sel |-> w.sel]
    BY <2>4 DEF s
  <2>6. /\ v \in ListWindows /\ v.pages = a.pages /\ v.count = a.count /\ v.show = a.show
        /\ v.timer = a.timer /\ v.sel = a.sel /\ v.seen = s
    BY ZenonT(40), <2>2, <2>3, <2>5 DEF ListWindows
  <2>7. WellPaged(v)
    BY <2>3, <2>6 DEF WellPaged
  <2>8. First(v) = First(a)
    BY <2>3, <2>6, SamePage DEF WellPaged
  <2> QED BY <2>1, <2>5, <2>6, <2>7, <2>8 DEF Follows
<1> QED BY <1>2, <1>3

-----------------------------------------------------------------------------
(* The invariant.                                                          *)

WidePicks == [seen : Int, taken : Int, waits : BOOLEAN, moved : BOOLEAN]

\* A pick that has been handled took what was seen; the one of a click that
\* waits is what is selected, unless that was moved.
TruePick(p, w) ==
  /\ p \in WidePicks
  /\ ~p.moved => IF p.waits THEN InList(w, w.sel) /\ p.seen = w.sel ELSE p.seen = p.taken

ListInv ==
  /\ WellPaged(list) /\ (list.timer # "none" => list.show)
  /\ TruePick(pick, list)
  /\ PaintedIsCurrent /\ HostSeesSelection

\* A list that has ended, one that is to be painted, one whose picked row waits
\* for its session, and one whose application has been told.
LEMMA ListInvNow ==
  ASSUME WellPaged(list'), list'.timer # "none" => list'.show,
         TruePick(pick', list'),
         \/ list'.count = 0
         \/ list'.show /\ (list'.dirty \/ pick'.waits)
         \/ ~list'.show /\ (Stray(list') \/ list'.seen.sel = list'.sel)
  PROVE  ListInv'
<1>1. PaintedIsCurrent'
  BY DEF PaintedIsCurrent
<1>2. HostSeesSelection'
  BY DEF HostSeesSelection
<1> QED BY <1>1, <1>2 DEF ListInv

LEMMA EmptyIsPaged ==
  ASSUME NEW store \in BOOLEAN, NEW show \in BOOLEAN
  PROVE  /\ WellPaged(Empty(store, show)) /\ Empty(store, show).count = 0
         /\ Empty(store, show).timer = "none"
<1>1. Empty(store, show) \in ListWindows
  BY DEF Empty, ListWindows
<1> QED BY <1>1 DEF Empty, WellPaged

\* The list ends.
LEMMA ListInvEmpty ==
  ASSUME NEW store \in BOOLEAN, NEW show \in BOOLEAN, list' = Empty(store, show),
         TruePick(pick', list')
  PROVE  ListInv'
BY EmptyIsPaged, ListInvNow

LEMMA NoPickIs == ASSUME NEW w PROVE TruePick(NoPick, w)
BY DEF NoPick, TruePick, WidePicks

\* Whatever is done to the list, what a click waits for is unclaimed.
LEMMA StirredIs ==
  ASSUME NEW w, pick.waits \in BOOLEAN PROVE TruePick(Stirred, w) /\ Stirred.waits = pick.waits
BY DEF Stirred, TruePick, WidePicks

LEMMA PickIsTyped == ASSUME ListInv PROVE pick \in WidePicks /\ pick.waits \in BOOLEAN
BY DEF ListInv, TruePick, WidePicks

\* What a row is taken for is what it is, unless a click waits.
LEMMA SeenIs ==
  ASSUME ListInv, list.count > 0, NEW row \in Nat
  PROVE  /\ SeenAt(row, First(list) + row) \in Int /\ First(list) + row \in Nat
         /\ ~pick.waits => SeenAt(row, First(list) + row) = First(list) + row
<1>1. First(list) \in Nat /\ list.seen.first \in Int
  BY OnPage DEF ListInv, WellPaged, ListWindows
<1> QED BY <1>1 DEF ListInv, PaintedIsCurrent, SeenAt

LEMMA PickedIs ==
  ASSUME NEW w, NEW seen \in Int, NEW index \in Int, pick.waits \in BOOLEAN,
         ~pick.waits => seen = index
  PROVE  TruePick(Picked(seen, index), w)
BY DEF Picked, TruePick, WidePicks

LEMMA WaitingIs ==
  ASSUME NEW w, NEW seen \in Int, pick.waits \in BOOLEAN,
         ~pick.waits => InList(w, w.sel) /\ seen = w.sel
  PROVE  TruePick(Waiting(seen), w) /\ Waiting(seen).waits
BY DEF Waiting, TruePick, WidePicks

\* A row past the end of the list is on the current page all the same.
LEMMA StrayPage ==
  ASSUME NEW w, WellPaged(w), Full(w.pages), w.count > 0, NEW row \in 0..(PageSize - 1), row < w.count,
         First(w) + row >= w.count, NEW v, v = [w EXCEPT !.sel = First(w) + row]
  PROVE  WellPaged(v) /\ First(v) = First(w)
<1> DEFINE i == GetCurrentPage(w)  s == First(w) + row
<1>1. /\ w \in ListWindows /\ Reached(w.pages)
  BY DEF WellPaged
<1>2. /\ DOMAIN w.pages = 1..Len(w.pages) /\ Len(w.pages) \in Nat /\ w.sel \in Nat /\ w.count \in Nat
      /\ \A j \in 1..Len(w.pages) : w.pages[j] \in Nat
  BY <1>1 DEF ListWindows
<1>3. IsCurrent(w, i)
  BY <1>1, CurrentPageIs
<1>4. First(w) = w.pages[i] /\ First(w) \in Nat
  BY OnPage DEF First
<1> HIDE DEF i, s
<1>5. i \in 1..Len(w.pages)
  BY <1>2, <1>3 DEF IsCurrent
<1>6. s \in Nat /\ s = w.pages[i] + row /\ PageSize \in Nat
  BY <1>4, CandidateListAssumption DEF s
<1>7. i < Len(w.pages) => w.pages[i + 1] > s
  <2>1. CASE i = 1
    BY <2>1, <1>1, <1>6, <1>4, <1>2 DEF Reached
  <2>2. CASE i # 1 /\ i < Len(w.pages)
    <3>1. w.pages[i + 1] = w.pages[i] + PageSize
      BY <1>1, <1>2, <1>5, <2>2 DEF Full
    <3> QED BY <1>2, <1>5, <1>6, <3>1
  <2> QED BY <2>1, <2>2
<1>8. \A j \in 1..i : w.pages[j] <= s
  <2> SUFFICES ASSUME NEW j \in 1..i PROVE w.pages[j] <= s
    OBVIOUS
  <2>1. w.pages[j] <= w.pages[i]
    <3>1. CASE j = i
      BY <3>1, <1>2, <1>5
    <3>2. CASE j # i
      <4>1. j \in DOMAIN w.pages /\ i \in DOMAIN w.pages /\ j < i
        BY <3>2, <1>2, <1>5
      <4>2. w.pages[j] < w.pages[i]
        BY <4>1, <1>1 DEF Reached
      <4> QED BY <4>1, <4>2, <1>2
    <3> QED BY <3>1, <3>2
  <2>2. w.pages[j] \in Nat /\ w.pages[i] \in Nat
    BY <1>2, <1>5
  <2>3. row \in Nat
    BY <1>6
  <2> QED BY <2>1, <2>2, <2>3, <1>6
<1>9. v = [w EXCEPT !.sel = s]
  BY DEF s
<1>10. /\ v \in ListWindows /\ v.pages = w.pages /\ v.count = w.count /\ v.sel = s /\ v.show = w.show
  BY <1>1, <1>6, <1>9 DEF ListWindows
<1> HIDE DEF s
<1>11. IsCurrent(v, i)
  BY <1>2, <1>5, <1>7, <1>8, <1>10 DEF IsCurrent
<1>12. GetCurrentPage(v) = i
  BY <1>1, <1>10, <1>11, OneIsCurrent
<1>13. WellPaged(v)
  BY <1>10 DEF WellPaged
<1> QED BY <1>4, <1>10, <1>12, <1>13 DEF First

LEMMA DigitKeeps ==
  ASSUME ListInv, NEW row \in 0..(PageSize - 1), Digit(row) PROVE ListInv'
<1> DEFINE index == First(list) + row
<1>1. /\ list \in ListWindows /\ WellPaged(list) /\ list.count \in Nat /\ row \in Nat
      /\ row < list.count /\ list.store \in BOOLEAN /\ list.show \in BOOLEAN
      /\ (list.timer # "none" => list.show)
  BY CandidateListAssumption DEF Digit, ListInv, WellPaged, ListWindows
<1>2. list.count > 0 /\ PageSize \in Nat
  BY <1>1, CandidateListAssumption
<1>3. First(list) \in Nat
  BY <1>1, <1>2, OnPage
<1>4. CASE index < list.count
  <2>1. pick' = Picked(SeenAt(row, index), index) /\ list' = Empty(list.store, list.show)
    BY <1>4 DEF Digit
  <2>2. TruePick(pick', list')
    BY <1>1, <1>2, <2>1, PickIsTyped, SeenIs, PickedIs
  <2> QED BY <1>1, <2>1, <2>2, ListInvEmpty
<1>5. CASE ~(index < list.count)
  <2>1. list' = [list EXCEPT !.sel = index] /\ pick' = Stirred
    BY <1>5 DEF Digit
  <2>2. index >= list.count /\ index \in Nat
    BY <1>1, <1>3, <1>5
  <2>3. /\ list' \in ListWindows /\ list'.pages = list.pages /\ list'.count = list.count
        /\ list'.sel = index /\ list'.show = list.show /\ list'.timer = list.timer
        /\ list'.seen = list.seen /\ list'.dirty = list.dirty
    BY <1>1, <2>1, <2>2 DEF ListWindows
  <2>4. WellPaged(list') /\ Stray(list')
    BY <1>1, <1>2, <2>2, <2>3 DEF WellPaged, Stray
  <2>5. list.show => First(list') = First(list)
    <3>1. list.show => Full(list.pages)
      BY <1>1, <1>2 DEF WellPaged
    <3> QED BY <1>1, <1>2, <2>1, <2>2, <3>1, StrayPage
  <2>6. TruePick(pick', list') /\ pick'.waits = pick.waits
    BY <2>1, PickIsTyped, StirredIs
  <2>7. PaintedIsCurrent'
    BY <2>3, <2>4, <2>5, <2>6 DEF PaintedIsCurrent, ListInv
  <2>8. HostSeesSelection'
    BY <2>4 DEF HostSeesSelection
  <2> QED BY <1>1, <2>3, <2>4, <2>6, <2>7, <2>8 DEF ListInv
<1> QED BY <1>4, <1>5

LEMMA ClickKeeps ==
  ASSUME ListInv, NEW row \in 0..(PageSize - 1), ClickRow(row) PROVE ListInv'
<1> DEFINE index == First(list) + row
<1>1. /\ list \in ListWindows /\ WellPaged(list) /\ list.count \in Nat /\ row \in Nat
      /\ list.store \in BOOLEAN /\ list.show \in BOOLEAN /\ list.show /\ index < list.count
      /\ list.pages # <<>>
  BY CandidateListAssumption DEF ClickRow, ListInv, WellPaged, ListWindows
<1>2. list.count > 0
  BY <1>1 DEF WellPaged
<1>3. First(list) \in Nat
  BY <1>1, <1>2, OnPage
<1> DEFINE seen == SeenAt(row, index)
<1>4. CASE pick' = Picked(seen, index) /\ list' = Empty(list.store, list.show)
  <2>1. TruePick(pick', list')
    <3>1. seen \in Int /\ index \in Int /\ pick.waits \in BOOLEAN /\ (~pick.waits => seen = index)
      BY <1>1, <1>2, PickIsTyped, SeenIs
    <3> HIDE DEF seen, index
    <3>2. TruePick(Picked(seen, index), list')
      BY <3>1, PickedIs
    <3> QED BY <1>4, <3>2
  <2> QED BY <1>1, <1>4, <2>1, ListInvEmpty
<1>5. CASE pick' = Waiting(seen) /\ list' = [list EXCEPT !.sel = index]
  <2>1. index \in Nat
    BY <1>1, <1>3
  <2>2. /\ list' \in ListWindows /\ list'.pages = list.pages /\ list'.count = list.count
        /\ list'.show = list.show /\ list'.sel = index
    BY <1>1, <1>5, <2>1 DEF ListWindows
  <2>3. WellPaged(list')
    BY <1>1, <2>2 DEF WellPaged
  <2>4. InList(list', list'.sel)
    BY <1>1, <2>1, <2>2 DEF InList
  <2>5. seen \in Int /\ (~pick.waits => seen = index) /\ pick.waits \in BOOLEAN
    BY <1>1, <1>2, PickIsTyped, SeenIs
  <2> HIDE DEF seen, index
  <2>6. TruePick(pick', list') /\ pick'.waits
    BY <1>5, <2>2, <2>4, <2>5, WaitingIs
  <2>7. ~(list'.timer # "none") \/ list'.show
    BY <1>1, <2>2
  <2> QED BY <1>1, <2>2, <2>3, <2>6, <2>7, ListInvNow
<1> QED BY <1>4, <1>5 DEF ClickRow

\* A window whose list has been filled.
Filled(w, n, starts) == [w EXCEPT !.count = n, !.pages = starts, !.pos = 0]

LEMMA FilledIs ==
  ASSUME NEW w \in ListWindows, NEW n \in Nat, NEW starts \in Seq(Nat)
  PROVE  LET v == Filled(w, n, starts)
         IN /\ v \in ListWindows /\ v.pages = starts /\ v.count = n /\ v.show = w.show
            /\ v.timer = w.timer
<1> DEFINE v == Filled(w, n, starts)
<1>1. /\ v.pages = starts /\ v.count = n /\ v.pos = 0 /\ v.sel = w.sel /\ v.sticky = w.sticky
      /\ v.store = w.store /\ v.show = w.show /\ v.dirty = w.dirty /\ v.seen = w.seen
      /\ v.capture = w.capture /\ v.timer = w.timer
  BY DEF Filled, ListWindows
<1>2. v \in ListWindows
  <2> DEFINE z == 0  u == [w EXCEPT !.count = n, !.pos = z]
  <2>1. u \in ListWindows
    <3>1. z \in Int
      OBVIOUS
    <3> HIDE DEF z
    <3> QED BY <3>1 DEF ListWindows
  <2>2. v = [u EXCEPT !.pages = starts]
    BY DEF Filled, ListWindows
  <2> HIDE DEF u, v
  <2> QED BY <2>1, <2>2 DEF ListWindows
<1> QED BY <1>1, <1>2

LEMMA SetTextKeeps ==
  ASSUME ListInv, NEW n \in 1..MaxCount, SetText(n) PROVE ListInv'
<1> DEFINE m == n \div PageSize + 1  e == n % PageSize  starts == [i \in 1..m |-> (i - 1) * PageSize]
           v == [list EXCEPT !.count = n, !.pages = starts, !.pos = 0]
<1>1. /\ list \in ListWindows /\ n \in Nat \ {0} /\ PageSize \in Nat \ {0}
      /\ (list.timer # "none" => list.show)
  BY CandidateListAssumption DEF ListInv, WellPaged
<1>2. list' = Announce(v, TRUE, {"sel", "page"}) /\ pick' = Stirred
  BY DEF SetText
<1>3. n \div PageSize \in Nat /\ e \in 0..(PageSize - 1) /\ n = PageSize * (n \div PageSize) + e
  BY <1>1, DivIs
<1>4. starts = EvenPages(m, PageSize)
  BY DEF EvenPages
<1> HIDE DEF m, e, starts
<1>5. m \in Nat \ {0} /\ (m - 1) * PageSize = PageSize * (n \div PageSize) /\ PageSize \in 1..PageSize
  BY <1>1, <1>3 DEF m
<1>6. /\ starts \in Seq(Nat) /\ Len(starts) = m /\ Reached(starts) /\ Full(starts)
      /\ starts[m] = (m - 1) * PageSize
  BY <1>4, <1>5, EvenPagesAre
<1>7. n <= starts[Len(starts)] + PageSize
  <2> DEFINE k == PageSize * (n \div PageSize)
  <2>1. k \in Nat
    BY <1>1, <1>3
  <2>2. n = k + e /\ starts[Len(starts)] = k
    BY <1>3, <1>5, <1>6
  <2> HIDE DEF k
  <2> QED BY <1>1, <1>3, <2>1, <2>2
<1>8. /\ v \in ListWindows /\ v.pages = starts /\ v.count = n /\ v.show = list.show
      /\ v.timer = list.timer
  <2>1. n \in Nat /\ starts \in Seq(Nat)
    BY <1>1, <1>6
  <2> HIDE DEF starts
  <2>2. v = Filled(list, n, starts)
    BY DEF Filled
  <2> QED BY <1>1, <2>1, <2>2, FilledIs
<1> HIDE DEF v
<1>9. WellPaged(v)
  BY <1>1, <1>6, <1>7, <1>8 DEF WellPaged, Reached
<1>10. Announced(Announce(v, TRUE, {"sel", "page"}), v) /\ Told(Announce(v, TRUE, {"sel", "page"}))
  <2>1. Follows(v, v) /\ v.count > 0
    BY <1>1, <1>8, <1>9, FollowsItself
  <2> QED BY <2>1, AnnounceIs
<1>11. /\ WellPaged(list') /\ (list'.timer # "none" => list'.show)
       /\ IF list'.show THEN list'.dirty ELSE list'.seen.sel = list'.sel
  BY <1>1, <1>2, <1>8, <1>10 DEF Announced, Told
<1>12. pick' = Stirred
  BY DEF SetText
<1>13. TruePick(pick', list')
  BY <1>12, PickIsTyped, StirredIs
<1> QED BY <1>11, <1>13, ListInvNow

LEMMA ArrowKeeps ==
  ASSUME ListInv, NEW arrow \in Arrows, Arrow(arrow) PROVE ListInv'
<1>1. /\ WellPaged(list) /\ list' = AdviseUIChangedByArrowKey(list, arrow) /\ pick' = Stirred
      /\ (list.timer # "none" => list.show)
  BY DEF Arrow, ListInv
<1>2. Announced(list', list)
  BY <1>1, ArrowIs
<1>3. TruePick(pick', list') /\ pick'.waits = pick.waits
  BY <1>1, PickIsTyped, StirredIs
<1>4. CASE list' = list
  <2>1. PaintedIsCurrent' /\ HostSeesSelection'
    BY <1>3, <1>4 DEF ListInv, PaintedIsCurrent, HostSeesSelection, Stray, First, GetCurrentPage
  <2> QED BY <1>1, <1>3, <1>4, <2>1 DEF ListInv
<1>5. CASE list' # list
  <2>1. /\ WellPaged(list') /\ (list'.timer # "none" => list'.show)
        /\ IF list'.show THEN list'.dirty ELSE list'.seen.sel = list'.sel
    BY <1>1, <1>2, <1>5 DEF Announced, Told
  <2> QED BY <1>3, <2>1, ListInvNow
<1> QED BY <1>4, <1>5

\* A scroll is painted.
LEMMA ScrollLineIs ==
  ASSUME NEW w, WellPaged(w), NEW button
  PROVE  Follows(ScrollLine(w, button), w) /\ ScrollLine(w, button).dirty
<1> DEFINE d == IF button = "up" THEN -1 ELSE 1  v == OnVScroll(w, LineCode(d), 0)
<1>1. Follows(v, w) /\ v.dirty
  BY ScrollFollows
<1>2. w.pos + d \in Int
  BY DEF WellPaged, ListWindows
<1>3. ScrollLine(w, button) = SetCurPos(v, w.pos + d, "none")
  BY DEF ScrollLine
<1> HIDE DEF v, d
<1>4. Follows(SetCurPos(v, w.pos + d, "none"), v)
  BY <1>1, <1>2, CurPosFollows DEF Follows
<1> QED BY <1>1, <1>3, <1>4, FollowsOn DEF Follows


LEMMA PressButtonKeeps ==
  ASSUME ListInv, NEW button \in {"up", "down"}, PressButton(button) PROVE ListInv'
<1> DEFINE u == [list EXCEPT !.capture = button]  v == ScrollLine(u, button)
<1>1. /\ list \in ListWindows /\ WellPaged(list) /\ list.show
      /\ list' = [v EXCEPT !.timer = button] /\ pick' = Stirred
  BY DEF PressButton, ListInv, WellPaged
<1>2. u \in ListWindows /\ u.pages = list.pages /\ u.count = list.count /\ u.show = list.show
  BY <1>1 DEF ListWindows
<1> HIDE DEF u
<1>3. WellPaged(u)
  BY <1>1, <1>2 DEF WellPaged
<1>4. Follows(v, u) /\ v.dirty
  BY <1>3, ScrollLineIs
<1> HIDE DEF v
<1>5. WellPaged(v) /\ v \in ListWindows /\ v.show
  BY <1>1, <1>2, <1>4 DEF Follows, WellPaged
<1>6. /\ list' \in ListWindows /\ list'.pages = v.pages /\ list'.count = v.count
      /\ list'.show = v.show /\ list'.dirty = v.dirty
  BY <1>1, <1>5 DEF ListWindows
<1>7. WellPaged(list')
  BY <1>5, <1>6 DEF WellPaged
<1> QED BY <1>1, <1>4, <1>5, <1>6, <1>7, PickIsTyped, StirredIs, ListInvNow

LEMMA TimerKeeps ==
  ASSUME ListInv, OnTimer PROVE ListInv'
<1>1. WellPaged(list) /\ list.show /\ list' = ScrollLine(list, list.timer) /\ pick' = Stirred
  BY DEF OnTimer, ListInv
<1>2. Follows(list', list) /\ list'.dirty
  BY <1>1, ScrollLineIs
<1> QED BY <1>1, <1>2, PickIsTyped, StirredIs, ListInvNow DEF Follows

\* Where the selection stays, so does what a waiting click is for.
LEMMA PickStays ==
  ASSUME ListInv, pick' = pick, list'.sel = list.sel, list'.count = list.count
  PROVE  TruePick(pick', list') /\ pick'.waits = pick.waits
BY DEF ListInv, TruePick, InList

\* The mouse changes neither what is shown nor what is selected.
LEMMA MouseKeeps ==
  ASSUME ListInv, list' \in ListWindows, pick' = pick,
         list'.pages = list.pages, list'.count = list.count, list'.sel = list.sel,
         list'.show = list.show, list'.dirty = list.dirty, list'.seen = list.seen,
         list'.timer # "none" => list'.show
  PROVE  ListInv'
<1>1. WellPaged(list) /\ list \in ListWindows /\ (list.pages # <<>> => Reached(list.pages))
  BY DEF ListInv, WellPaged, ListWindows
<1>2. First(list') = First(list)
  BY <1>1, SamePage
<1>3. WellPaged(list')
  BY <1>1 DEF WellPaged
<1>4. PaintedIsCurrent' /\ HostSeesSelection'
  BY <1>2 DEF PaintedIsCurrent, HostSeesSelection, ListInv, Stray
<1> QED BY <1>3, <1>4, PickStays DEF ListInv

LEMMA PressBarKeeps == ASSUME ListInv, PressBar PROVE ListInv'
<1>1. /\ list \in ListWindows /\ list' = [list EXCEPT !.capture = "bar"] /\ pick' = pick
      /\ (list.timer # "none" => list.show)
  BY DEF PressBar, ListInv, WellPaged
<1>2. /\ list' \in ListWindows /\ list'.pages = list.pages /\ list'.count = list.count
      /\ list'.sel = list.sel /\ list'.show = list.show /\ list'.dirty = list.dirty
      /\ list'.seen = list.seen /\ list'.timer = list.timer
  BY <1>1 DEF ListWindows
<1> QED BY <1>1, <1>2, MouseKeeps

LEMMA ButtonUpKeeps == ASSUME ListInv, OnLButtonUp PROVE ListInv'
<1>1. list \in ListWindows /\ list' = [list EXCEPT !.capture = "none", !.timer = "none"] /\ pick' = pick
  BY DEF OnLButtonUp, ListInv, WellPaged
<1>2. /\ list' \in ListWindows /\ list'.pages = list.pages /\ list'.count = list.count
      /\ list'.sel = list.sel /\ list'.show = list.show /\ list'.dirty = list.dirty
      /\ list'.seen = list.seen /\ list'.timer = "none"
  BY <1>1 DEF ListWindows
<1> QED BY <1>1, <1>2, MouseKeeps

LEMMA PaintKeeps == ASSUME ListInv, Paint PROVE ListInv'
<1>1. WellPaged(list) /\ list' = OnPaint(list) /\ pick' = pick /\ list.show
  BY DEF Paint, ListInv
<1>2. /\ WellPaged(list') /\ list'.count = list.count /\ list'.show = list.show
      /\ list'.timer = list.timer /\ list'.sel = list.sel
      /\ list'.count > 0 => list'.seen = [first |-> First(list'), sel |-> list'.sel]
  BY <1>1, PaintIs
<1>3. PaintedIsCurrent' /\ HostSeesSelection'
  BY <1>1, <1>2 DEF PaintedIsCurrent, HostSeesSelection, ListInv
<1> QED BY <1>1, <1>2, <1>3, PickStays DEF ListInv

LEMMA ClearKeeps == ASSUME ListInv, ClearList PROVE ListInv'
<1>1. /\ list \in ListWindows /\ (list.timer # "none" => list.show) /\ pick' = Stirred
      /\ list' = [list EXCEPT !.count = 0, !.sel = 0, !.pages = <<>>, !.dirty = TRUE]
  BY DEF ClearList, ListInv, WellPaged
<1>2. <<>> \in Seq(Nat)
  OBVIOUS
<1>3. /\ list' \in ListWindows /\ list'.pages = <<>> /\ list'.count = 0
      /\ list'.show = list.show /\ list'.timer = list.timer
  BY <1>1, <1>2 DEF ListWindows
<1>4. WellPaged(list')
  BY <1>3 DEF WellPaged
<1> QED BY <1>1, <1>3, <1>4, PickIsTyped, StirredIs, ListInvNow

\* The application pages a list that it draws itself.
LEMMA SetPageIndexKeeps ==
  ASSUME ListInv, NEW rows \in 1..PageSize, SetPageIndex(rows) PROVE ListInv'
<1> DEFINE c == list.count  q == (c - 1) \div rows  e == (c - 1) % rows  m == q + 1
           starts == EvenPages(m, rows)
<1>1. /\ list \in ListWindows /\ c \in Nat \ {0} /\ ~list.show /\ pick' = pick
      /\ (list.timer # "none" => list.show)
      /\ list' = [list EXCEPT !.pages = starts]
      /\ rows \in Nat \ {0} /\ PageSize \in Nat
  BY SMTT(40), CandidateListAssumption DEF SetPageIndex, ListInv, WellPaged, EvenPages, ListWindows
<1>2. q \in Nat /\ e \in 0..(rows - 1) /\ c - 1 = rows * q + e
  <2>1. c - 1 \in Nat
    BY <1>1
  <2> QED BY <1>1, <2>1, DivIs
<1> HIDE DEF q, e, c
<1>3. m \in Nat \ {0} /\ (m - 1) * rows = rows * q /\ rows * q \in Nat
  BY <1>1, <1>2
<1> HIDE DEF m
<1>4. /\ starts \in Seq(Nat) /\ Len(starts) = m /\ Reached(starts)
      /\ starts[m] = (m - 1) * rows
  BY <1>3, EvenPagesAre
<1> HIDE DEF starts
<1>5. c <= starts[Len(starts)] + PageSize
  BY SMTT(40), <1>1, <1>2, <1>3, <1>4
<1>6. /\ list' \in ListWindows /\ list'.pages = starts /\ list'.count = c
      /\ list'.sel = list.sel /\ list'.show = list.show /\ list'.timer = list.timer
      /\ list'.seen = list.seen
  BY <1>1, <1>4 DEF ListWindows, c
<1>7. WellPaged(list')
  BY <1>1, <1>4, <1>5, <1>6 DEF WellPaged, Reached
<1>8. PaintedIsCurrent' /\ HostSeesSelection'
  BY <1>1, <1>6 DEF PaintedIsCurrent, HostSeesSelection, ListInv, Stray, c
<1>9. list'.count = list.count
  BY <1>6 DEF c
<1> QED BY <1>1, <1>6, <1>7, <1>8, <1>9, PickStays DEF ListInv

LEMMA AppSetSelectionKeeps ==
  ASSUME ListInv, NEW i \in Indices, AppSetSelection(i) PROVE ListInv'
<1>1. /\ list \in ListWindows /\ WellPaged(list) /\ ~list.show /\ pick' = Stirred
      /\ list.timer = "none" /\ i \in Nat
      /\ list' = [list EXCEPT !.sel = i, !.seen.sel = i]
  BY CandidateListAssumption DEF AppSetSelection, ListInv, WellPaged, ListWindows, Indices, MaxIndex
<1>2. /\ list' \in ListWindows /\ list'.pages = list.pages /\ list'.count = list.count
      /\ list'.sel = i /\ list'.show = list.show /\ list'.timer = list.timer
      /\ list'.seen.sel = i
  <2> DEFINE s == [list.seen EXCEPT !.sel = i]
  <2>1. s \in [first : Int, sel : Int] /\ s.sel = i
    BY <1>1 DEF ListWindows
  <2>2. list' = [list EXCEPT !.sel = i, !.seen = s]
    BY <1>1 DEF ListWindows
  <2> HIDE DEF s
  <2> QED BY <1>1, <2>1, <2>2 DEF ListWindows
<1>3. WellPaged(list')
  BY <1>1, <1>2 DEF WellPaged
<1> QED BY <1>1, <1>2, <1>3, PickIsTyped, StirredIs, ListInvNow

\* The list ends, with its window or without it.
LEMMA ListEndKeeps ==
  ASSUME ListInv, NEW store \in BOOLEAN, NEW show \in BOOLEAN, list' = Empty(store, show),
         pick' = Stirred
  PROVE  ListInv'
BY PickIsTyped, StirredIs, ListInvEmpty

\* What is selected is what is seen to be, unless a click waits.
LEMMA SelectedIs ==
  ASSUME ListInv, InList(list, list.sel)
  PROVE  /\ SeenSelected \in Int /\ list.sel \in Int
         /\ ~pick.waits => SeenSelected = list.sel
<1>1. list.sel \in Nat /\ list.seen.sel \in Int /\ list.count \in Nat
  BY DEF ListInv, WellPaged, ListWindows
<1>2. list.count > 0 /\ ~Stray(list)
  BY <1>1 DEF InList, Stray
<1> QED BY <1>1, <1>2 DEF ListInv, PaintedIsCurrent, HostSeesSelection, SeenSelected

LEMMA FinalizeKeeps == ASSUME ListInv, Finalize PROVE ListInv'
<1>1. list.store \in BOOLEAN /\ list.show \in BOOLEAN /\ list' = Empty(list.store, list.show)
  BY DEF ListInv, WellPaged, ListWindows, Finalize
<1>2. CASE InList(list, list.sel)
  <2>1. pick' = Picked(SeenSelected, list.sel)
    BY <1>2 DEF Finalize
  <2>2. TruePick(pick', list')
    BY <1>2, <2>1, SelectedIs, PickIsTyped, PickedIs
  <2> QED BY <1>1, <2>2, ListInvEmpty
<1>3. CASE ~InList(list, list.sel)
  BY <1>1, <1>3, ListEndKeeps DEF Finalize
<1> QED BY <1>2, <1>3

LEMMA FinishKeeps == ASSUME ListInv, FinishClick PROVE ListInv'
<1>1. list.store \in BOOLEAN /\ list.show \in BOOLEAN /\ list' = Empty(list.store, list.show)
  BY DEF ListInv, WellPaged, ListWindows, FinishClick
<1>2. CASE InList(list, list.sel)
  <2>1. pick' = [pick EXCEPT !.taken = list.sel, !.waits = FALSE] /\ pick.waits
    BY <1>2 DEF FinishClick
  <2>2. /\ pick \in WidePicks /\ list.sel \in Int
        /\ ~pick.moved => pick.seen = list.sel
    BY <1>2, <2>1, SelectedIs DEF ListInv, TruePick
  <2>3. /\ pick' \in WidePicks /\ pick'.moved = pick.moved /\ pick'.seen = pick.seen
        /\ pick'.taken = list.sel /\ ~pick'.waits
    BY <2>1, <2>2 DEF WidePicks
  <2>4. TruePick(pick', list')
    BY <2>2, <2>3 DEF TruePick
  <2> QED BY <1>1, <2>4, ListInvEmpty
<1>3. CASE ~InList(list, list.sel)
  <2>1. pick' = NoPick
    BY <1>3 DEF FinishClick
  <2> QED BY <1>1, <2>1, NoPickIs, ListInvEmpty
<1> QED BY <1>2, <1>3

LEMMA ListRests == ASSUME ListInv, UNCHANGED listVars PROVE ListInv'
BY PickStays DEF ListInv, listVars, PaintedIsCurrent, HostSeesSelection, Stray, First, GetCurrentPage

LEMMA ListPickKeeps == ASSUME ListInv, ListPick PROVE ListInv'
<1>1. CASE \E row \in 0..(PageSize - 1) : Digit(row) \/ ClickRow(row)
  BY <1>1, DigitKeeps, ClickKeeps
<1>2. CASE Finalize \/ FinishClick
  BY <1>2, FinalizeKeeps, FinishKeeps
<1> QED BY <1>1, <1>2 DEF ListPick

LEMMA ListMoveKeeps == ASSUME ListInv, ListMove PROVE ListInv'
<1>1. CASE \E n \in 1..MaxCount : SetText(n)
  BY <1>1, SetTextKeeps
<1>2. CASE ClearList
  BY <1>2, ClearKeeps
<1>3. CASE \E arrow \in Arrows : Arrow(arrow)
  BY <1>3, ArrowKeeps
<1>4. CASE PressBar
  BY <1>4, PressBarKeeps
<1>5. CASE \E button \in {"up", "down"} : PressButton(button)
  BY <1>5, PressButtonKeeps
<1>6. CASE OnTimer
  BY <1>6, TimerKeeps
<1>7. CASE OnLButtonUp
  BY <1>7, ButtonUpKeeps
<1>8. CASE Paint
  BY <1>8, PaintKeeps
<1>9. CASE \E rows \in 1..PageSize : SetPageIndex(rows)
  BY <1>9, SetPageIndexKeeps
<1>10. CASE \E i \in Indices : AppSetSelection(i)
  BY <1>10, AppSetSelectionKeeps
<1> QED BY <1>1, <1>2, <1>3, <1>4, <1>5, <1>6, <1>7, <1>8, <1>9, <1>10 DEF ListMove

\* The invariant is what the property says of pages and selection, and more.
LEMMA ListInvIsTrue == ASSUME ListInv PROVE ListIsTrue
<1>1. WellPaged(list) /\ list \in ListWindows /\ list.count \in Nat /\ list.sel \in Nat
  BY DEF ListInv, WellPaged, ListWindows
<1>2. PagesCover
  BY <1>1 DEF PagesCover, WellPaged, Reached
<1>3. SelectionOnPage
  BY <1>1, OnPage DEF SelectionOnPage, Stray
<1>4. PickIsSeen
  BY DEF ListInv, TruePick, PickIsSeen
<1> QED BY <1>2, <1>3, <1>4 DEF ListInv, ListIsTrue, SelectionIsShown, TakenIsSeen

(* Whatever the length of a list and however it is moved through - by      *)
(* keys, by the scroll bar and its timer, by paint messages, by an         *)
(* application that draws it -, the selection is among what is shown, and  *)
(* what a digit, Enter or a click takes is what was seen there; also a     *)
(* click whose session comes later, unless something moved the selection   *)
(* on (CandidateWindow.cpp, _OnLButtonDown, _GetSelectedCandidateString).  *)
THEOREM ListIsTrueHolds == ListSpec => []ListIsTrue
<1>1. ListInit => ListInv
  <2> SUFFICES ASSUME ListInit PROVE ListInv
    OBVIOUS
  <2>1. PICK store \in BOOLEAN, show \in BOOLEAN : list = Empty(store, show) /\ pick = NoPick
    BY DEF ListInit
  <2>2. WellPaged(list) /\ list.count = 0 /\ list.timer = "none"
    BY <2>1, EmptyIsPaged
  <2> QED BY <2>1, <2>2, NoPickIs DEF ListInv, PaintedIsCurrent, HostSeesSelection
<1>2. ListInv /\ [ListNext]_listVars => ListInv'
  BY ListPickKeeps, ListMoveKeeps, ListRests DEF ListNext
<1> QED BY <1>1, <1>2, ListInvIsTrue, PTL DEF ListSpec

-----------------------------------------------------------------------------
(* How far pages, selection and position go, whatever is done in the list. *)

\* No page begins further than a page after the list.
InReach(p, c) == \A i \in DOMAIN p : p[i] <= c + PageSize

Looks == [first : 0..(MaxCount + PageSize), sel : Indices]

Sized(w) ==
  /\ WellPaged(w)
  /\ w.count \in 0..MaxCount /\ w.pos \in 0..MaxCount
  /\ w.seen \in Looks /\ w.sel \in Indices
  /\ w.count > 0 => InReach(w.pages, w.count)

LEMMA IndicesAre ==
  /\ \A i : i \in Indices <=> i \in Nat /\ i <= MaxCount + 2 * PageSize
  /\ 0 \in Indices /\ MaxCount \in Nat /\ PageSize \in Nat \ {0}
BY CandidateListAssumption DEF Indices, MaxIndex

LEMMA LooksAre ==
  ASSUME NEW x \in Looks
  PROVE  x \in [first : Indices, sel : Indices] /\ x \in [first : Int, sel : Int]
<1>1. /\ \A i \in 0..(MaxCount + PageSize) : i \in Indices /\ i \in Int
      /\ \A i \in Indices : i \in Int
  BY IndicesAre
<1> HIDE DEF Indices
<1> QED BY <1>1 DEF Looks

LEMMA SizedIsTyped == ASSUME NEW w, Sized(w) PROVE w \in CandidateWindow
<1>1. /\ w \in ListWindows /\ MaxCount \in Nat /\ PageSize \in Nat /\ w.count \in 0..MaxCount
      /\ w.pages \in Seq(Nat) /\ w.sel \in Indices /\ w.seen \in Looks
  BY CandidateListAssumption DEF Sized, WellPaged, ListWindows
<1>2. w.seen \in [first : Indices, sel : Indices]
  BY <1>1, LooksAre
<1>3. \A i \in 1..Len(w.pages) : w.pages[i] \in Indices
  <2>1. CASE w.count = 0
    BY <1>1, <2>1 DEF Sized, WellPaged
  <2>2. CASE w.count > 0
    <3>1. \A i \in 1..Len(w.pages) : w.pages[i] \in Nat /\ w.pages[i] <= w.count + PageSize
      BY <1>1, <2>2 DEF Sized, InReach
    <3> QED BY SMTT(40), <1>1, <3>1 DEF Indices, MaxIndex
  <2> QED BY SMTT(40), <1>1, <2>1, <2>2
<1>4. w.pages \in Seq(Indices)
  <2>1. w.pages = [i \in 1..Len(w.pages) |-> w.pages[i]] /\ Len(w.pages) \in Nat
    BY <1>1
  <2> QED BY <1>3, <2>1
<1> QED BY <1>1, <1>2, <1>4 DEF Sized, ListWindows, CandidateWindow

LEMMA PagesAre ==
  ASSUME NEW w, WellPaged(w)
  PROVE  /\ w \in ListWindows /\ w.count \in Nat /\ w.sel \in Nat /\ w.pos \in Int /\ PageSize \in Nat \ {0}
         /\ DOMAIN w.pages = 1..Len(w.pages) /\ Len(w.pages) \in Nat
         /\ \A i \in 1..Len(w.pages) : w.pages[i] \in Nat
         /\ w.sticky \in BOOLEAN
BY CandidateListAssumption DEF WellPaged, ListWindows

\* Nor does the current page.
LEMMA FirstIsNear ==
  ASSUME NEW w, Sized(w), w.count > 0
  PROVE  First(w) \in 0..(MaxCount + PageSize)
<1>1. /\ w \in ListWindows /\ Reached(w.pages) /\ w.count \in 0..MaxCount /\ w.sel \in Nat
      /\ MaxCount \in Nat /\ PageSize \in Nat /\ WellPaged(w)
  BY IndicesAre, PagesAre DEF Sized, WellPaged
<1>2. GetCurrentPage(w) \in DOMAIN w.pages
  BY <1>1, CurrentPageIs DEF IsCurrent
<1>3. First(w) \in Nat
  BY <1>1, OnPage
<1>4. First(w) <= w.count + PageSize
  BY <1>2 DEF Sized, InReach, First
<1> QED BY <1>1, <1>3, <1>4

\* Another selection in the list.
LEMMA SizedChosen ==
  ASSUME NEW w, Sized(w), NEW i \in Nat, i < w.count, NEW sticky \in BOOLEAN
  PROVE  Sized(Chosen(w, i, sticky))
<1> DEFINE v == Chosen(w, i, sticky)
<1>1. WellPaged(w)
  BY DEF Sized
<1>2. w \in ListWindows /\ w.count \in Nat /\ PageSize \in Nat
  BY <1>1, PagesAre
<1>3. WellPaged(v) /\ v.sel = i /\ v.count = w.count /\ v.seen = w.seen
  BY <1>1, Selected DEF Follows
<1>4. v.pos = w.pos /\ v.pages = w.pages
  BY <1>2 DEF Chosen, ListWindows
<1> HIDE DEF v
<1>5. v.sel \in Indices
  <2>1. w.count \in 0..MaxCount
    BY DEF Sized
  <2> QED BY <1>3, <2>1, IndicesAre
<1>6. Sized(v)
  BY <1>3, <1>4, <1>5 DEF Sized
<1> QED BY <1>6 DEF v

\* What changes neither the list, its pages nor its selection.
LEMMA SizedAlike ==
  ASSUME NEW w, Sized(w), NEW v, WellPaged(v), v.count = w.count, v.sel = w.sel, v.pages = w.pages,
         v.pos \in 0..MaxCount, v.seen \in Looks
  PROVE  Sized(v)
BY DEF Sized

LEMMA NewPageCountStays ==
  ASSUME NEW w \in ListWindows, w.count >= PageSize, w.sel < w.count
  PROVE  /\ w.sel % PageSize = 0 =>
              (NewPageCount(w) - 1) * PageSize <= w.count + PageSize
         /\ w.sel % PageSize # 0 =>
              (w.sel % PageSize) + (NewPageCount(w) - 2) * PageSize <= w.count + PageSize
<1> DEFINE P == PageSize  s == w.sel  c == w.count  r == s % P  N == NewPageCount(w)
           Stays == /\ r = 0 => (N - 1) * P <= c + P
                    /\ r # 0 => r + (N - 2) * P <= c + P
<1>1. P \in Nat \ {0} /\ s \in Nat /\ c \in Nat /\ c >= P /\ s < c
  BY CandidateListAssumption DEF ListWindows
<1>2. N = IF s > 0 THEN IF c > s + P THEN (c - 2) \div P + 2 ELSE 2 + (s - 1) \div P
                   ELSE IF c > s + P THEN (c - 1) \div P + 1 ELSE 1
  BY DEF NewPageCount
<1> HIDE DEF P, s, c, N
<1>3. s \div P \in Nat /\ r \in 0..(P - 1) /\ s = P * (s \div P) + r
  BY <1>1, DivIs
<1> HIDE DEF r
<1>4. ASSUME s > 0 /\ c > s + P PROVE Stays
  <2> DEFINE q == (c - 2) \div P  e == (c - 2) % P
  <2>1. c - 2 \in Nat
    BY <1>1, <1>4
  <2>2. q \in Nat /\ e \in 0..(P - 1) /\ c - 2 = P * q + e
    BY <1>1, <2>1, DivIs
  <2>3. N = q + 2
    BY <1>2, <1>4
  <2> HIDE DEF q, e
  <2>4. (N - 1) * P = P * q + P /\ (N - 2) * P = P * q /\ P * q \in Nat
    BY <1>1, <2>2, <2>3
  <2>5. P * q + P <= c + P /\ r + P * q <= c + P
    BY <1>1, <1>3, <1>4, <2>2, <2>4
  <2> QED BY <2>4, <2>5 DEF Stays
<1>5. ASSUME s > 0 /\ ~(c > s + P) PROVE Stays
  <2> DEFINE q == (s - 1) \div P  e == (s - 1) % P
  <2>1. s - 1 \in Nat
    BY <1>1, <1>5
  <2>2. q \in Nat /\ e \in 0..(P - 1) /\ s - 1 = P * q + e
    BY <1>1, <2>1, DivIs
  <2>3. N = q + 2
    BY <1>2, <1>5, <2>2
  <2> HIDE DEF q, e
  <2>4. (N - 1) * P = P * q + P /\ (N - 2) * P = P * q /\ P * q \in Nat
    BY <1>1, <2>2, <2>3
  <2>5. P * q + P <= c + P /\ r + P * q <= c + P
    BY <1>1, <1>3, <1>5, <2>2, <2>4
  <2> QED BY <2>4, <2>5
<1>6. ASSUME s = 0 PROVE Stays
  <2> DEFINE q == (c - 1) \div P  e == (c - 1) % P
  <2>1. r = 0
    <3>1. 0 % P = 0
      BY <1>1
    <3> QED BY <3>1, <1>6 DEF r
  <2>2. c - 1 \in Nat
    BY <1>1, <1>6
  <2>3. q \in Nat /\ e \in 0..(P - 1) /\ c - 1 = P * q + e
    BY <1>1, <2>2, DivIs
  <2>4. N = IF c > P THEN q + 1 ELSE 1
    BY <1>1, <1>2, <1>6
  <2> HIDE DEF q, e
  <2>5. (N - 1) * P \in Nat /\ (N - 1) * P < c
    <3>1. CASE c > P
      <4>1. (N - 1) * P = P * q /\ P * q \in Nat
        BY <1>1, <2>3, <2>4, <3>1
      <4> QED BY <1>1, <2>3, <4>1
    <3>2. CASE ~(c > P)
      <4>1. (N - 1) * P = 0
        BY <1>1, <2>4, <3>2
      <4> QED BY <1>1, <1>6, <4>1
    <3> QED BY <3>1, <3>2
  <2> QED BY <1>1, <2>1, <2>5
<1>7. Stays
  <2> HIDE DEF Stays
  <2>1. s > 0 \/ s = 0
    BY <1>1
  <2> QED BY <1>1, <2>1, <1>4, <1>5, <1>6
<1> QED BY <1>7 DEF P, s, c, r, N

LEMMA LastIsMost ==
  ASSUME NEW p \in Seq(Nat), Reached(p)
  PROVE  \A i \in DOMAIN p : p[i] <= p[Len(p)]
<1>1. /\ DOMAIN p = 1..Len(p) /\ Len(p) \in Nat /\ p # <<>>
      /\ \A i, j \in DOMAIN p : i < j => p[i] < p[j]
      /\ \A i \in 1..Len(p) : p[i] \in Nat
  BY DEF Reached
<1> SUFFICES ASSUME NEW i \in 1..Len(p) PROVE p[i] <= p[Len(p)]
  BY <1>1
<1>2. CASE i = Len(p)
  <2>1. p[i] \in Nat
    BY <1>1
  <2> QED BY <1>2, <2>1
<1>3. CASE i # Len(p)
  <2>0. Len(p) \in Nat /\ i \in Nat /\ 1 <= i /\ i <= Len(p)
    OBVIOUS
  <2>1. i < Len(p) /\ Len(p) \in 1..Len(p)
    BY <2>0, <1>3
  <2>2. p[i] < p[Len(p)] /\ p[i] \in Nat /\ p[Len(p)] \in Nat
    BY <1>1, <2>1
  <2> QED BY <2>2
<1> QED BY <1>2, <1>3

LEMMA AdjustedStays ==
  ASSUME NEW w \in ListWindows, w.count >= PageSize, w.sel < w.count
  PROVE  LET q == AdjustPageIndexForSelection(w).pages
         IN InReach(q, w.count)
<1> DEFINE N == NewPageCount(w)  r == w.sel % PageSize  c == w.count
           q == AdjustPageIndexForSelection(w).pages
           last == IF r = 0 THEN (N - 1) * PageSize ELSE r + (N - 2) * PageSize
<1>1. /\ N \in Nat \ {0} /\ r \in 0..(PageSize - 1) /\ (r # 0 => N > 1)
  BY NewPageCountReaches
<1>2. ~(w.count < PageSize) /\ PageSize \in Nat \ {0} /\ c \in Nat
  BY CandidateListAssumption DEF ListWindows
<1>3. last <= c + PageSize
  BY NewPageCountStays
<1>4. q = [i \in 1..N |-> IF i = 1 THEN 0 ELSE IF r = 0 THEN (i - 1) * PageSize
                                                ELSE r + (i - 2) * PageSize]
  BY <1>2 DEF AdjustPageIndexForSelection, ListWindows
<1>5. q \in Seq(Nat) /\ Reached(q) /\ Full(q)
  BY AdjustedPages
<1> HIDE DEF q, N, r
<1>6. Len(q) = N /\ q[N] = last
  <2>1. Len(q) = N
    BY <1>1, <1>4
  <2>2. CASE r = 0
    <3>1. q[N] = IF N = 1 THEN 0 ELSE (N - 1) * PageSize
      BY <1>1, <1>4, <2>2
    <3>2. (1 - 1) * PageSize = 0
      BY <1>2
    <3> QED BY <2>1, <2>2, <3>1, <3>2
  <2>3. CASE r # 0
    BY <1>1, <1>4, <2>1, <2>3
  <2> QED BY <2>1, <2>2, <2>3
<1> HIDE DEF last
<1>7. \A i \in DOMAIN q : q[i] <= last /\ q[i] \in Nat
  <2>1. \A i \in DOMAIN q : q[i] \in Nat
    BY <1>5
  <2> QED BY <1>5, <1>6, <2>1, LastIsMost
<1>8. last \in Nat
  <2>1. N \in DOMAIN q
    BY <1>1, <1>4
  <2> QED BY <1>6, <1>7, <2>1
<1>9. InReach(q, c)
  BY <1>2, <1>3, <1>7, <1>8 DEF InReach
<1> QED BY <1>9 DEF q

-----------------------------------------------------------------------------
(* The moves keep to it.                                                   *)

LEMMA SizedAdjusted ==
  ASSUME NEW w, Sized(w), w.sel < w.count
  PROVE  Sized(AdjustPageIndexForSelection(w))
<1> DEFINE v == AdjustPageIndexForSelection(w)
<1>1. WellPaged(w)
  BY DEF Sized
<1>2. w \in ListWindows /\ w.count \in Nat /\ w.sel \in Nat /\ PageSize \in Nat
  BY <1>1, PagesAre
<1>3. CASE w.count < PageSize
  <2>1. v = w
    BY <1>3 DEF AdjustPageIndexForSelection
  <2> QED BY <1>2, <1>3, <2>1
<1>4. CASE ~(w.count < PageSize)
  <2>1. /\ WellPaged(v) /\ v.count = w.count /\ v.seen = w.seen /\ v.sel = w.sel /\ v.pos = w.pos
    BY <1>1, AdjustFollows DEF Follows
  <2>2. InReach(v.pages, w.count)
    BY <1>2, <1>4, AdjustedStays
  <2> HIDE DEF v
  <2>3. Sized(v)
    BY <2>1, <2>2 DEF Sized
  <2> QED BY <2>3 DEF v
<1> QED BY <1>3, <1>4

LEMMA SizedSelect == ASSUME NEW w, Sized(w), NEW i \in Int PROVE Sized(SelectQuietly(w, i))
<1> DEFINE v == Chosen(w, i, w.sticky)
<1>1. w \in ListWindows /\ w.count \in Nat /\ w.sticky \in BOOLEAN /\ WellPaged(w)
  BY PagesAre DEF Sized
<1>2. CASE InList(w, i)
  <2>1. i \in Nat /\ i < w.count
    BY <1>1, <1>2 DEF InList
  <2>2. [w EXCEPT !.sel = i] = v
    BY <1>1 DEF ListWindows, Chosen
  <2>3. Sized(v) /\ v.sel = i /\ v.count = w.count
    BY <1>1, <2>1, SizedChosen, Selected DEF Follows
  <2> HIDE DEF v
  <2>4. Sized(AdjustPageIndexForSelection(v))
    BY <2>1, <2>3, SizedAdjusted
  <2> QED BY <1>2, <2>2, <2>4 DEF SelectQuietly
<1>3. CASE ~InList(w, i)
  BY <1>3 DEF SelectQuietly
<1> QED BY <1>2, <1>3

LEMMA SizedOffset == ASSUME NEW w, Sized(w), NEW d \in Int PROVE Sized(SetSelectionOffset(w, d))
<1> DEFINE i == w.sel + d
           special == CurrentPageHasEmptyItems(w) /\ Len(w.pages) > 1
           v == [w EXCEPT !.sel = i, !.sticky = @ \/ special]
           sticky == w.sticky \/ special
<1>1. w \in ListWindows /\ w.count \in Nat /\ w.sel \in Nat /\ w.sticky \in BOOLEAN /\ WellPaged(w)
  BY PagesAre DEF Sized
<1>2. CASE InList(w, i)
  <2>1. i \in Nat /\ i < w.count
    BY <1>1, <1>2 DEF InList
  <2>2. v = Chosen(w, i, sticky) /\ sticky \in BOOLEAN
    BY <1>1 DEF ListWindows, Chosen
  <2>3. SetSelectionOffset(w, d) \in {v, AdjustPageIndexForSelection(v)}
    BY <1>2 DEF SetSelectionOffset
  <2> HIDE DEF v, i, special, sticky
  <2>4. Sized(v) /\ v.sel = i /\ v.count = w.count
    BY SMTT(40), <1>1, <2>1, <2>2, SizedChosen, Selected DEF Follows
  <2>5. Sized(AdjustPageIndexForSelection(v))
    BY <2>1, <2>4, SizedAdjusted
  <2> QED BY <2>3, <2>4, <2>5
<1>3. CASE ~InList(w, i)
  BY <1>3 DEF SetSelectionOffset
<1> QED BY <1>2, <1>3

LEMMA SizedPage == ASSUME NEW w, Sized(w), NEW d \in Int PROVE Sized(MovePageQuietly(w, d))
<1> DEFINE p == GetCurrentPage(w)
           target == w.pages[p + d] + (w.sel - First(w))
           i == Smaller(target, w.count - 1)
           special == w.sel % PageSize = 0 /\ w.sel = First(w)
           v == [w EXCEPT !.sel = i, !.sticky = @ \/ special]
           sticky == w.sticky \/ special
<1>1. w \in ListWindows /\ w.count \in Nat /\ w.sel \in Nat /\ w.sticky \in BOOLEAN /\ WellPaged(w)
  BY PagesAre DEF Sized
<1>2. CASE MovablePage(w, d)
  <2>1. w.pages # <<>> /\ p + d \in DOMAIN w.pages
    BY <1>2 DEF MovablePage, GetCurrentPage
  <2>2. w.count > 0 /\ w.pages[p + d] \in Nat
    BY <1>1, <2>1 DEF WellPaged, ListWindows
  <2>3. First(w) \in Nat /\ First(w) <= w.sel
    BY <1>1, <2>2, OnPage
  <2>4. i \in Nat /\ i < w.count
    BY <1>1, <2>2, <2>3 DEF Smaller
  <2>5. v = Chosen(w, i, sticky) /\ sticky \in BOOLEAN
    BY <1>1 DEF ListWindows, Chosen
  <2>6. MovePageQuietly(w, d) = v
    BY <1>2 DEF MovePageQuietly
  <2> HIDE DEF v, i, special, sticky
  <2> QED BY <2>4, <2>5, <2>6, SizedChosen
<1>3. CASE ~MovablePage(w, d)
  BY <1>3 DEF MovePageQuietly
<1> QED BY <1>2, <1>3

LEMMA SizedScroll ==
  ASSUME NEW w, Sized(w), NEW code, NEW pos \in Int PROVE Sized(OnVScroll(w, code, pos))
<1>1. ASSUME NEW u, Sized(u) PROVE Sized(InvalidateRect(u))
  <2> DEFINE v == InvalidateRect(u)
  <2>1. WellPaged(u) /\ u \in ListWindows
    BY <1>1, PagesAre DEF Sized
  <2>2. WellPaged(v) /\ v.count = u.count /\ v.seen = u.seen
    BY <2>1, InvalidateFollows DEF Follows
  <2>3. v.sel = u.sel /\ v.pages = u.pages /\ v.pos = u.pos
    BY <2>1 DEF InvalidateRect, ListWindows
  <2>4. v.pos \in 0..MaxCount /\ v.seen \in Looks
    BY <1>1, <2>2, <2>3 DEF Sized
  <2> HIDE DEF v
  <2>5. Sized(v)
    BY <1>1, <2>2, <2>3, <2>4, SizedAlike
  <2> QED BY <2>5 DEF v
<1>2. Direction(code) \in Int
  BY DEF Direction
<1>3. /\ Sized(SetSelectionOffset(w, Direction(code)))
      /\ Sized(MovePageQuietly(w, Direction(code)))
      /\ Sized(SelectQuietly(w, pos))
  BY <1>2, SizedOffset, SizedPage, SizedSelect
<1> QED BY <1>1, <1>3 DEF OnVScroll

LEMMA SizedCurPos ==
  ASSUME NEW w, Sized(w), NEW pos \in Int, NEW code PROVE Sized(SetCurPos(w, pos, code))
<1> DEFINE most == Larger(w.count - PageSize, 0)
           at == Larger(Smaller(pos, most), 0)
           moved == [w EXCEPT !.pos = at]
<1>1. /\ w \in ListWindows /\ w.count \in 0..MaxCount /\ PageSize \in Nat /\ MaxCount \in Nat
      /\ WellPaged(w) /\ w.seen \in Looks
  BY CandidateListAssumption, PagesAre DEF Sized
<1>2. at \in 0..MaxCount /\ at \in Int
  BY <1>1 DEF Larger, Smaller
<1> HIDE DEF at
<1>3. /\ moved \in ListWindows /\ moved.pos = at /\ moved.pages = w.pages /\ moved.count = w.count
      /\ moved.sel = w.sel /\ moved.seen = w.seen /\ moved.show = w.show
  BY <1>1, <1>2 DEF ListWindows
<1>4. SetCurPos(w, pos, code) \in {w, OnVScroll(moved, code, moved.pos), moved}
  BY DEF SetCurPos, at
<1> HIDE DEF moved
<1>5. WellPaged(moved)
  BY <1>1, <1>3 DEF WellPaged
<1>6. Sized(moved)
  BY <1>1, <1>2, <1>3, <1>5, SizedAlike
<1>7. Sized(OnVScroll(moved, code, moved.pos))
  <2>1. moved.pos \in Int
    BY <1>2, <1>3
  <2> QED BY <1>6, <2>1, SizedScroll
<1> QED BY <1>4, <1>6, <1>7

LEMMA SizedLine == ASSUME NEW w, Sized(w), NEW button PROVE Sized(ScrollLine(w, button))
<1> DEFINE d == IF button = "up" THEN -1 ELSE 1  v == OnVScroll(w, LineCode(d), 0)
<1>1. Sized(v)
  BY SizedScroll
<1>2. w.pos + d \in Int
  BY PagesAre DEF Sized
<1>3. ScrollLine(w, button) = SetCurPos(v, w.pos + d, "none")
  BY DEF ScrollLine
<1> HIDE DEF v, d
<1> QED BY <1>1, <1>2, <1>3, SizedCurPos

LEMMA SizedMoves ==
  ASSUME NEW w, Sized(w), NEW d \in {-1, 1}, NEW i \in {0, -1}
  PROVE  Sized(MoveSelection(w, d)) /\ Sized(MovePage(w, d)) /\ Sized(SetSelection(w, i))
<1>1. /\ w \in ListWindows /\ w.count \in Nat /\ w.sel \in Nat /\ w.pos \in Int /\ WellPaged(w)
      /\ PageSize \in Nat /\ d \in Int /\ i \in Int
  BY PagesAre DEF Sized
<1>2. Sized(MoveSelection(w, d))
  <2> DEFINE j == Shifted(w, d)  v == [w EXCEPT !.sel = j, !.sticky = TRUE]
  <2>1. CASE InList(w, j)
    <3>1. j \in Nat /\ j < w.count
      BY <1>1, <2>1 DEF InList
    <3>3. MoveSelection(w, d) = SetCurPos(v, w.pos + d, LineCode(d))
      BY <2>1 DEF MoveSelection
    <3> HIDE DEF j
    <3>4. v = Chosen(w, j, TRUE)
      BY DEF Chosen
    <3> HIDE DEF v
    <3>5. Sized(v)
      BY <3>1, <3>4, SizedChosen
    <3> QED BY <1>1, <3>3, <3>5, SizedCurPos
  <2>2. CASE ~InList(w, j)
    BY <2>2 DEF MoveSelection
  <2> QED BY <2>1, <2>2
<1>3. Sized(MovePage(w, d))
  <2> DEFINE v == MovePageQuietly(w, d)
  <2>1. Sized(v)
    BY <1>1, SizedPage
  <2>2. MovePage(w, d) = IF ~MovablePage(w, d) THEN w
                         ELSE SetCurPos(v, w.pos + PageSize * d, PageCode(d))
    BY DEF MovePage
  <2> HIDE DEF v
  <2>3. w.pos + PageSize * d \in Int
    BY <1>1
  <2>4. Sized(SetCurPos(v, w.pos + PageSize * d, PageCode(d)))
    BY <2>1, <2>3, SizedCurPos
  <2> QED BY <2>2, <2>4
<1>4. Sized(SetSelection(w, i))
  <2> DEFINE j == IF i = -1 THEN w.count - 1 ELSE i
  <2>1. j \in Int
    BY <1>1
  <2>2. SetSelection(w, i) = IF InList(w, j) THEN SetCurPos(SelectQuietly(w, j), j, "thumb") ELSE w
    BY DEF SetSelection
  <2> HIDE DEF j
  <2>3. Sized(SelectQuietly(w, j))
    BY <2>1, SizedSelect
  <2>4. Sized(SetCurPos(SelectQuietly(w, j), j, "thumb"))
    BY <2>1, <2>3, SizedCurPos
  <2> QED BY <2>2, <2>4
<1> QED BY <1>2, <1>3, <1>4

\* What is shown of a list is numbered within it.
LEMMA SizedShown ==
  ASSUME NEW w, Sized(w), w.count > 0
  PROVE  First(w) \in 0..(MaxCount + PageSize) /\ w.sel \in Indices
BY FirstIsNear DEF Sized

LEMMA SizedAnnounce ==
  ASSUME NEW v, Sized(v), NEW moved \in BOOLEAN, NEW flags, moved => v.count > 0
  PROVE  Sized(Announce(v, moved, flags))
<1>1. v \in ListWindows /\ WellPaged(v) /\ v.pos \in 0..MaxCount /\ v.seen \in Looks
  BY PagesAre DEF Sized
<1>2. CASE ~moved
  BY <1>2 DEF Announce
<1>3. CASE moved /\ v.show
  <2> DEFINE u == InvalidateRect(v)
  <2>1. WellPaged(u) /\ u.count = v.count /\ u.seen = v.seen
    BY <1>1, InvalidateFollows DEF Follows
  <2>2. u.sel = v.sel /\ u.pages = v.pages /\ u.pos = v.pos
    BY <1>1 DEF InvalidateRect, ListWindows
  <2> HIDE DEF u
  <2>3. Sized(u)
    BY <1>1, <2>1, <2>2, SizedAlike
  <2> QED BY <1>3, <2>3 DEF Announce, u
<1>4. CASE moved /\ ~v.show
  <2> DEFINE first == IF "page" \in flags THEN First(v) ELSE v.seen.first
             s == [first |-> first, sel |-> v.sel]
             u == [v EXCEPT !.seen = s]
  <2>1. first \in 0..(MaxCount + PageSize) /\ v.sel \in Indices
    BY <1>1, <1>4, SizedShown DEF Looks
  <2>2. Announce(v, moved, flags) = u
    BY <1>1, <1>4 DEF Announce, ListWindows
  <2> HIDE DEF first
  <2>3. s \in Looks /\ s \in [first : Int, sel : Int]
    <3>1. s \in Looks
      BY <2>1 DEF Looks
    <3> QED BY <3>1, LooksAre
  <2> HIDE DEF s
  <2>4. /\ u \in ListWindows /\ u.pages = v.pages /\ u.count = v.count /\ u.show = v.show
        /\ u.sel = v.sel /\ u.pos = v.pos /\ u.seen = s
    BY <1>1, <2>3 DEF ListWindows
  <2> HIDE DEF u
  <2>5. WellPaged(u)
    BY <1>1, <2>4 DEF WellPaged
  <2>6. Sized(u)
    BY <1>1, <2>3, <2>4, <2>5, SizedAlike
  <2> QED BY <2>2, <2>6
<1> QED BY <1>2, <1>3, <1>4

LEMMA SizedArrow ==
  ASSUME NEW w, Sized(w), NEW arrow \in Arrows PROVE Sized(AdviseUIChangedByArrowKey(w, arrow))
<1> DEFINE d == IF arrow \in {"up", "pageUp"} THEN -1 ELSE 1
           i == IF arrow = "top" THEN 0 ELSE -1
<1>1. w \in ListWindows /\ w.count \in Nat /\ w.sel \in Nat /\ WellPaged(w)
  BY PagesAre DEF Sized
<1>2. d \in {-1, 1} /\ i \in {0, -1}
  OBVIOUS
<1> DEFINE a == InList(w, Shifted(w, d))  b == MovablePage(w, d)  c == w.count > 0
<1>3. \/ AdviseUIChangedByArrowKey(w, arrow) = Announce(MoveSelection(w, d), a, {"sel"})
      \/ AdviseUIChangedByArrowKey(w, arrow) = Announce(MovePage(w, d), b, {"sel", "page"})
      \/ AdviseUIChangedByArrowKey(w, arrow) = Announce(SetSelection(w, i), c, {"sel", "page"})
  BY DEF AdviseUIChangedByArrowKey
<1> HIDE DEF d, i
<1>4. /\ Sized(MoveSelection(w, d)) /\ MoveSelection(w, d).count = w.count
      /\ Sized(MovePage(w, d)) /\ MovePage(w, d).count = w.count
      /\ Sized(SetSelection(w, i)) /\ SetSelection(w, i).count = w.count
  BY <1>1, <1>2, MovesFollow, SizedMoves DEF Follows
<1>5. /\ a \in BOOLEAN /\ b \in BOOLEAN /\ c \in BOOLEAN
      /\ (a => w.count > 0) /\ (b => w.count > 0) /\ (c => w.count > 0)
  BY <1>1 DEF InList, MovablePage, GetCurrentPage, WellPaged
<1> HIDE DEF a, b, c
<1>6. Sized(Announce(MoveSelection(w, d), a, {"sel"}))
  BY <1>4, <1>5, SizedAnnounce
<1>7. Sized(Announce(MovePage(w, d), b, {"sel", "page"}))
  BY <1>4, <1>5, SizedAnnounce
<1>8. Sized(Announce(SetSelection(w, i), c, {"sel", "page"}))
  BY <1>4, <1>5, SizedAnnounce
<1> QED BY <1>3, <1>6, <1>7, <1>8

LEMMA SizedRefilled ==
  ASSUME NEW w, Sized(w), w.count >= PageSize, NEW i, i = 0 \/ i = w.count - PageSize, NEW u,
         u = [AdjustPageIndexForSelection([w EXCEPT !.sel = i]) EXCEPT !.sel = w.sel, !.sticky = FALSE]
  PROVE  Sized(u)
<1> DEFINE v == Chosen(w, i, w.sticky)  a == AdjustPageIndexForSelection(v)
<1>1. /\ w \in ListWindows /\ w.sel \in Nat /\ w.sticky \in BOOLEAN /\ w.count \in Nat /\ WellPaged(w)
      /\ PageSize \in Nat \ {0}
  BY PagesAre DEF Sized
<1>2. i \in Nat /\ i < w.count /\ w.count > 0
  BY <1>1
<1>3. [w EXCEPT !.sel = i] = v
  BY <1>1 DEF ListWindows, Chosen
<1>4. u = Chosen(a, w.sel, FALSE)
  BY <1>3 DEF Chosen
<1>5. Sized(v) /\ v.sel = i /\ v.count = w.count
  BY <1>1, <1>2, SizedChosen, Selected DEF Follows
<1> HIDE DEF v
<1>6. Sized(a) /\ a.count = w.count
  BY <1>2, <1>5, SizedAdjusted, AdjustFollows DEF Sized, Follows
<1> HIDE DEF a
<1>7. a \in ListWindows /\ WellPaged(a)
  BY <1>6, PagesAre DEF Sized
<1>8. u.pages = a.pages /\ u.sel = w.sel /\ u.count = a.count /\ u.pos = a.pos /\ u.seen = a.seen
  BY <1>4, <1>7 DEF Chosen, ListWindows
<1>9. WellPaged(u)
  <2>1. Follows(Chosen(a, w.sel, FALSE), a)
    BY <1>1, <1>7, Selected
  <2> QED BY <1>4, <2>1 DEF Follows
<1> QED BY <1>6, <1>8, <1>9 DEF Sized

LEMMA SizedIndex == ASSUME NEW w, Sized(w), w.pages # <<>> PROVE Sized(AdjustPageIndex(w))
<1> DEFINE refilled(i) == [AdjustPageIndexForSelection([w EXCEPT !.sel = i])
                             EXCEPT !.sel = w.sel, !.sticky = FALSE]
<1>1. /\ w \in ListWindows /\ w.sel \in Nat /\ w.count \in Nat /\ WellPaged(w)
      /\ w.pos \in 0..MaxCount /\ w.seen \in Looks
  BY PagesAre DEF Sized
<1>2. CASE ~CurrentPageHasEmptyItems(w) \/ w.sticky
  BY <1>2 DEF AdjustPageIndex
<1>3. CASE ~(~CurrentPageHasEmptyItems(w) \/ w.sticky)
  <2>1. w.count >= PageSize
    BY <1>3 DEF CurrentPageHasEmptyItems
  <2> DEFINE v == [w EXCEPT !.sticky = FALSE]
  <2>2. AdjustPageIndex(w) \in {refilled(w.count - PageSize), refilled(0), v}
    BY <1>3 DEF AdjustPageIndex
  <2>3. Sized(refilled(w.count - PageSize)) /\ Sized(refilled(0))
    BY <2>1, SizedRefilled
  <2>4. Sized(v)
    <3>1. v = Chosen(w, w.sel, FALSE)
      BY <1>1 DEF ListWindows, Chosen
    <3>2. WellPaged(v) /\ v.count = w.count /\ v.seen = w.seen /\ v.sel = w.sel
      <4>1. Follows(Chosen(w, w.sel, FALSE), w) /\ Chosen(w, w.sel, FALSE).sel = w.sel
        BY <1>1, Selected
      <4> QED BY <3>1, <4>1 DEF Follows
    <3>3. v.pages = w.pages /\ v.pos = w.pos
      BY <1>1 DEF ListWindows
    <3> HIDE DEF v
    <3> QED BY <1>1, <3>2, <3>3, SizedAlike
  <2> HIDE DEF v, refilled
  <2> QED BY <2>2, <2>3, <2>4
<1> QED BY <1>2, <1>3

LEMMA SizedPaint == ASSUME NEW w, Sized(w), NEW v, v = OnPaint(w) PROVE Sized(v)
<1>1. /\ w \in ListWindows /\ WellPaged(w) /\ w.sel \in Nat
      /\ w.pos \in 0..MaxCount /\ w.seen \in Looks
  BY PagesAre DEF Sized
<1>2. WellPaged(v)
  BY <1>1, PaintIs
<1>3. CASE w.pages = <<>>
  <2>1. v = [w EXCEPT !.dirty = FALSE]
    BY <1>3 DEF OnPaint
  <2>2. v.pages = w.pages /\ v.count = w.count /\ v.sel = w.sel /\ v.pos = w.pos /\ v.seen = w.seen
    BY <1>1, <2>1 DEF ListWindows
  <2> QED BY <1>1, <1>2, <2>2, SizedAlike
<1>4. CASE w.pages # <<>>
  <2> DEFINE a == AdjustPageIndex(w)  s == [first |-> First(a), sel |-> w.sel]
  <2>1. Sized(a) /\ a.sel = w.sel /\ a.count = w.count
    BY <1>1, <1>4, SizedIndex, AdjustIndexFollows DEF Follows
  <2>2. v = [a EXCEPT !.dirty = FALSE, !.seen = s]
    BY <1>4 DEF OnPaint
  <2> HIDE DEF a
  <2>3. a \in ListWindows /\ a.pos \in 0..MaxCount /\ a.count > 0
    BY <1>1, <1>4, <2>1, PagesAre DEF Sized, WellPaged, ListWindows
  <2>4. s \in Looks
    BY <2>1, <2>3, SizedShown DEF Looks
  <2> HIDE DEF s
  <2>5. v.pages = a.pages /\ v.count = a.count /\ v.sel = a.sel /\ v.pos = a.pos /\ v.seen = s
    BY <2>2, <2>3 DEF ListWindows
  <2> QED BY <1>2, <2>1, <2>3, <2>4, <2>5, SizedAlike
<1> QED BY <1>3, <1>4

-----------------------------------------------------------------------------
(* And so do the actions.                                                  *)

SizedInv == Sized(list) /\ pick \in Picks

LEMMA SizedEnds ==
  ASSUME NEW store \in BOOLEAN, NEW show \in BOOLEAN
  PROVE  Sized(Empty(store, show)) /\ NoPick \in Picks
<1>1. 0 \in Indices /\ 0 \in 0..MaxCount /\ 0 \in 0..(MaxCount + PageSize)
  BY IndicesAre
<1>2. WellPaged(Empty(store, show))
  BY EmptyIsPaged
<1>3. /\ Empty(store, show).count = 0 /\ Empty(store, show).sel = 0 /\ Empty(store, show).pos = 0
      /\ Empty(store, show).seen = [first |-> 0, sel |-> 0]
  BY DEF Empty
<1> QED BY <1>1, <1>2, <1>3 DEF Sized, Looks, NoPick, Picks

\* The list ends.
LEMMA SizedEnd ==
  ASSUME NEW store \in BOOLEAN, NEW show \in BOOLEAN, list' = Empty(store, show), pick' \in Picks
  PROVE  SizedInv'
BY SizedEnds DEF SizedInv

LEMMA PicksAre ==
  ASSUME pick \in Picks, NEW seen \in Indices, NEW index \in Indices
  PROVE  Stirred \in Picks /\ Picked(seen, index) \in Picks /\ Waiting(seen) \in Picks
<1>1. 0 \in Indices
  BY IndicesAre
<1> HIDE DEF Indices
<1> QED BY <1>1 DEF Picks, Stirred, Picked, Waiting

\* A pick that is stirred, or left alone.
LEMMA SizedRest ==
  ASSUME SizedInv, Sized(list'), pick' = Stirred \/ pick' = pick PROVE SizedInv'
<1>1. 0 \in Indices
  BY IndicesAre
<1> QED BY <1>1, PicksAre DEF SizedInv

\* The row that is picked.
LEMMA SizedRow ==
  ASSUME ListInv, SizedInv, list.count > 0, NEW row \in 0..(PageSize - 1)
  PROVE  /\ First(list) + row \in Indices
         /\ SeenAt(row, First(list) + row) \in Indices
<1> DEFINE index == First(list) + row  first == list.seen.first
<1>1. MaxCount \in Nat /\ PageSize \in Nat \ {0} /\ row \in Nat
  BY IndicesAre
<1>2. First(list) \in 0..(MaxCount + PageSize)
  BY FirstIsNear DEF SizedInv
<1>3. first \in 0..(MaxCount + PageSize)
  BY DEF SizedInv, Sized, Looks
<1>4. SeenAt(row, index) = first + row \/ SeenAt(row, index) = index
  BY DEF SeenAt
<1> HIDE DEF first
<1>5. index \in Indices /\ first + row \in Indices
  BY <1>1, <1>2, <1>3, IndicesAre
<1> QED BY <1>4, <1>5

LEMMA DigitSizes ==
  ASSUME ListInv, SizedInv, NEW row \in 0..(PageSize - 1), Digit(row) PROVE SizedInv'
<1> DEFINE index == First(list) + row  c == list.count
<1>1. /\ list \in ListWindows /\ WellPaged(list) /\ c \in Nat /\ row \in Nat /\ PageSize \in Nat
      /\ row < c /\ list.store \in BOOLEAN /\ list.show \in BOOLEAN
  BY CandidateListAssumption DEF Digit, ListInv, WellPaged, ListWindows
<1>2. c > 0
  BY <1>1
<1>3. index \in Indices /\ SeenAt(row, index) \in Indices
  BY <1>2, SizedRow
<1>4. CASE index < c
  <2>1. pick' = Picked(SeenAt(row, index), index) /\ list' = Empty(list.store, list.show)
    BY <1>4 DEF Digit
  <2> HIDE DEF index
  <2>2. pick' \in Picks
    BY <1>3, <2>1, PicksAre DEF SizedInv
  <2> QED BY <1>1, <2>1, <2>2, SizedEnd
<1>5. CASE ~(index < c)
  <2>1. list' = [list EXCEPT !.sel = index] /\ pick' = Stirred
    BY <1>5 DEF Digit
  <2>2. index \in Nat
    BY <1>3, IndicesAre
  <2> HIDE DEF index
  <2>3. /\ list' \in ListWindows /\ list'.pages = list.pages /\ list'.count = c
        /\ list'.sel = index /\ list'.show = list.show /\ list'.pos = list.pos
        /\ list'.seen = list.seen
    BY <1>1, <2>1, <2>2 DEF ListWindows
  <2>4. WellPaged(list')
    BY <1>1, <2>3 DEF WellPaged
  <2>5. Sized(list')
    BY <1>3, <2>3, <2>4 DEF SizedInv, Sized
  <2> QED BY <2>1, <2>5, SizedRest
<1> QED BY <1>4, <1>5

LEMMA ClickSizes ==
  ASSUME ListInv, SizedInv, NEW row \in 0..(PageSize - 1), ClickRow(row) PROVE SizedInv'
<1> DEFINE index == First(list) + row  seen == SeenAt(row, index)
<1>1. /\ list \in ListWindows /\ WellPaged(list) /\ list.count \in Nat
      /\ list.store \in BOOLEAN /\ list.show \in BOOLEAN /\ index < list.count
      /\ list.pages # <<>> /\ list.sticky \in BOOLEAN
  BY DEF ClickRow, ListInv, WellPaged, ListWindows
<1>2. list.count > 0
  BY <1>1 DEF WellPaged
<1>3. index \in Indices /\ seen \in Indices
  BY <1>2, SizedRow
<1>4. \/ pick' = Picked(seen, index) /\ list' = Empty(list.store, list.show)
      \/ pick' = Waiting(seen) /\ list' = [list EXCEPT !.sel = index]
  BY DEF ClickRow
<1> HIDE DEF index, seen
<1>5. pick' \in Picks
  BY <1>3, <1>4, PicksAre DEF SizedInv
<1>6. CASE list' = Empty(list.store, list.show)
  BY <1>1, <1>5, <1>6, SizedEnd
<1>7. CASE list' = [list EXCEPT !.sel = index]
  <2>1. list' = Chosen(list, index, list.sticky)
    BY <1>1, <1>7 DEF Chosen, ListWindows
  <2>2. index \in Nat
    BY <1>3, IndicesAre
  <2> QED BY <1>1, <1>5, <2>1, <2>2, SizedChosen DEF SizedInv
<1> QED BY <1>4, <1>6, <1>7

\* What is selected.
LEMMA FinalizeSizes == ASSUME ListInv, SizedInv, Finalize PROVE SizedInv'
<1>1. list.store \in BOOLEAN /\ list.show \in BOOLEAN
  BY DEF ListInv, WellPaged, ListWindows
<1>2. list.sel \in Indices /\ SeenSelected \in Indices
  BY DEF SizedInv, Sized, Looks, SeenSelected
<1>3. pick' \in Picks
  BY <1>2, PicksAre DEF Finalize, SizedInv
<1> QED BY <1>1, <1>3, SizedEnd DEF Finalize

LEMMA FinishSizes == ASSUME ListInv, SizedInv, FinishClick PROVE SizedInv'
<1>1. list.store \in BOOLEAN /\ list.show \in BOOLEAN
  BY DEF ListInv, WellPaged, ListWindows
<1>2. NoPick \in Picks
  BY <1>1, SizedEnds
<1>3. [pick EXCEPT !.taken = list.sel, !.waits = FALSE] \in Picks
  <2>1. pick \in Picks /\ list.sel \in Indices
    BY DEF SizedInv, Sized
  <2> HIDE DEF Indices
  <2> QED BY <2>1 DEF Picks
<1>4. pick' \in Picks
  BY <1>2, <1>3 DEF FinishClick
<1> QED BY <1>1, <1>4, SizedEnd DEF FinishClick

LEMMA SetTextSizes ==
  ASSUME ListInv, SizedInv, NEW n \in 1..MaxCount, SetText(n) PROVE SizedInv'
<1> DEFINE m == n \div PageSize + 1  e == n % PageSize  starts == [i \in 1..m |-> (i - 1) * PageSize]
           v == [list EXCEPT !.count = n, !.pages = starts, !.pos = 0]
<1>1. /\ list \in ListWindows /\ n \in Nat \ {0} /\ n \in 0..MaxCount /\ PageSize \in Nat \ {0}
      /\ list.seen \in Looks /\ MaxCount \in Nat
  BY CandidateListAssumption DEF ListInv, WellPaged, SizedInv, Sized
<1>2. list' = Announce(v, TRUE, {"sel", "page"}) /\ pick' = Stirred
  BY DEF SetText
<1>3. n \div PageSize \in Nat /\ e \in 0..(PageSize - 1) /\ n = PageSize * (n \div PageSize) + e
  BY <1>1, DivIs
<1>4. starts = EvenPages(m, PageSize)
  BY DEF EvenPages
<1> HIDE DEF m, e, starts
<1>5. m \in Nat \ {0} /\ (m - 1) * PageSize = PageSize * (n \div PageSize) /\ PageSize \in 1..PageSize
  BY <1>1, <1>3 DEF m
<1>6. /\ starts \in Seq(Nat) /\ Len(starts) = m /\ Reached(starts) /\ Full(starts)
      /\ starts[m] = (m - 1) * PageSize
  BY <1>4, <1>5, EvenPagesAre
<1>7. n <= starts[Len(starts)] + PageSize /\ starts[Len(starts)] <= n
  <2> DEFINE k == PageSize * (n \div PageSize)
  <2>1. k \in Nat
    BY <1>1, <1>3
  <2>2. n = k + e /\ starts[Len(starts)] = k
    BY <1>3, <1>5, <1>6
  <2> HIDE DEF k
  <2> QED BY <1>1, <1>3, <2>1, <2>2
<1>8. /\ v \in ListWindows /\ v.pages = starts /\ v.count = n
  <2>1. n \in Nat /\ starts \in Seq(Nat)
    BY <1>1, <1>6
  <2> HIDE DEF starts
  <2>2. v = Filled(list, n, starts)
    BY DEF Filled
  <2> QED BY <1>1, <2>1, <2>2, FilledIs
<1>9. v.pos = 0 /\ v.sel = list.sel /\ v.seen = list.seen
  BY <1>1 DEF ListWindows
<1> HIDE DEF v
<1>10. WellPaged(v)
  BY <1>1, <1>6, <1>7, <1>8 DEF WellPaged, Reached
<1>11. InReach(v.pages, v.count)
  <2>1. \A i \in DOMAIN starts : starts[i] <= starts[Len(starts)] /\ starts[i] \in Nat
    BY <1>6, LastIsMost
  <2>2. starts[Len(starts)] \in Nat
    BY <1>5, <1>6
  <2>3. \A i \in DOMAIN starts : starts[i] <= n + PageSize
    BY <1>1, <1>7, <2>1, <2>2
  <2> QED BY <1>8, <2>3 DEF InReach
<1>12. Sized(v)
  <2>1. 0 \in 0..MaxCount /\ v.sel \in Indices
    BY <1>1, <1>9 DEF SizedInv, Sized
  <2> QED BY <1>1, <1>8, <1>9, <1>10, <1>11, <2>1 DEF Sized
<1>13. Sized(Announce(v, TRUE, {"sel", "page"}))
  <2>1. v.count > 0
    BY <1>1, <1>8
  <2> QED BY <1>12, <2>1, SizedAnnounce
<1> QED BY <1>2, <1>13, SizedRest

LEMMA PressButtonSizes ==
  ASSUME ListInv, SizedInv, NEW button \in {"up", "down"}, PressButton(button) PROVE SizedInv'
<1> DEFINE u == [list EXCEPT !.capture = button]  v == ScrollLine(u, button)
<1>1. /\ list \in ListWindows /\ WellPaged(list) /\ Sized(list)
      /\ list' = [v EXCEPT !.timer = button] /\ pick' = Stirred
  BY DEF PressButton, ListInv, SizedInv, WellPaged
<1>2. /\ u \in ListWindows /\ u.pages = list.pages /\ u.count = list.count /\ u.show = list.show
      /\ u.sel = list.sel /\ u.pos = list.pos /\ u.seen = list.seen
  BY <1>1 DEF ListWindows
<1> HIDE DEF u
<1>3. WellPaged(u)
  BY <1>1, <1>2 DEF WellPaged
<1>4. list.pos \in 0..MaxCount /\ list.seen \in Looks
  BY <1>1 DEF Sized
<1>5. Sized(u)
  BY <1>1, <1>2, <1>3, <1>4, SizedAlike
<1>6. Sized(v)
  BY <1>5, SizedLine
<1> HIDE DEF v
<1>7. WellPaged(v) /\ v \in ListWindows /\ v.pos \in 0..MaxCount /\ v.seen \in Looks
  BY <1>6 DEF Sized, WellPaged
<1>8. /\ list' \in ListWindows /\ list'.pages = v.pages /\ list'.count = v.count
      /\ list'.show = v.show /\ list'.sel = v.sel /\ list'.pos = v.pos /\ list'.seen = v.seen
  BY <1>1, <1>7 DEF ListWindows
<1>9. WellPaged(list')
  BY <1>7, <1>8 DEF WellPaged
<1>10. Sized(list')
  BY <1>6, <1>7, <1>8, <1>9, SizedAlike
<1> QED BY <1>1, <1>10, SizedRest

\* The mouse, which changes nothing of it.
LEMMA MouseSizes ==
  ASSUME SizedInv, ListInv', pick' = pick, list'.pages = list.pages, list'.count = list.count,
         list'.sel = list.sel, list'.pos = list.pos, list'.seen = list.seen
  PROVE  SizedInv'
<1>1. /\ list.pos \in 0..MaxCount /\ list.seen \in Looks
      /\ Sized(list) /\ WellPaged(list')
  BY DEF SizedInv, Sized, ListInv
<1>2. Sized(list')
  BY <1>1, SizedAlike
<1> QED BY <1>2, SizedRest

LEMMA SetPageIndexSizes ==
  ASSUME ListInv, SizedInv, NEW rows \in 1..PageSize, SetPageIndex(rows) PROVE SizedInv'
<1> DEFINE c == list.count  q == (c - 1) \div rows  e == (c - 1) % rows  m == q + 1
           starts == EvenPages(m, rows)
<1>1. /\ list \in ListWindows /\ c \in Nat \ {0} /\ pick' = pick
      /\ list' = [list EXCEPT !.pages = starts]
      /\ rows \in Nat \ {0} /\ PageSize \in Nat /\ Sized(list)
  BY SMTT(40), CandidateListAssumption DEF SetPageIndex, ListInv, SizedInv, WellPaged, EvenPages, ListWindows
<1>2. q \in Nat /\ e \in 0..(rows - 1) /\ c - 1 = rows * q + e
  <2>1. c - 1 \in Nat
    BY <1>1
  <2> QED BY <1>1, <2>1, DivIs
<1> HIDE DEF q, e, c
<1>3. m \in Nat \ {0} /\ (m - 1) * rows = rows * q /\ rows * q \in Nat
  BY <1>1, <1>2
<1> HIDE DEF m
<1>4. /\ starts \in Seq(Nat) /\ Len(starts) = m /\ Reached(starts)
      /\ starts[m] = (m - 1) * rows
  BY <1>3, EvenPagesAre
<1> HIDE DEF starts
<1>5. starts[Len(starts)] < c /\ starts[Len(starts)] \in Nat
  BY <1>1, <1>2, <1>3, <1>4
<1>6. \A i \in DOMAIN starts : starts[i] <= c + PageSize
  <2>1. \A i \in DOMAIN starts : starts[i] <= starts[Len(starts)]
    BY Zenon, <1>4, LastIsMost
  <2>2. \A i \in DOMAIN starts : starts[i] \in Nat
    BY <1>4
  <2> QED BY <1>1, <1>5, <2>1, <2>2
<1>7. /\ list'.pages = starts /\ list'.count = c
      /\ list'.sel = list.sel /\ list'.pos = list.pos /\ list'.seen = list.seen
  BY <1>1, <1>4 DEF ListWindows, c
<1>8. WellPaged(list')
  BY SetPageIndexKeeps DEF ListInv
<1>9. InReach(list'.pages, list'.count)
  BY <1>6, <1>7 DEF InReach
<1>10. list.count = c
  BY DEF c
<1>11. Sized(list')
  BY <1>1, <1>7, <1>8, <1>9, <1>10 DEF Sized
<1> QED BY <1>1, <1>11, SizedRest

LEMMA AppSetSelectionSizes ==
  ASSUME ListInv, SizedInv, NEW i \in Indices, AppSetSelection(i) PROVE SizedInv'
<1> DEFINE s == [list.seen EXCEPT !.sel = i]
<1>1. /\ list \in ListWindows /\ Sized(list) /\ pick' = Stirred
      /\ list' = [list EXCEPT !.sel = i, !.seen.sel = i]
  BY DEF AppSetSelection, ListInv, SizedInv, WellPaged
<1>2. list.seen \in Looks /\ list.pos \in 0..MaxCount
  BY <1>1 DEF Sized
<1>3. s \in Looks
  BY <1>2 DEF Looks
<1>4. list' = [list EXCEPT !.sel = i, !.seen = s]
  BY <1>1 DEF ListWindows
<1> HIDE DEF s
<1>5. /\ list'.pages = list.pages /\ list'.count = list.count /\ list'.sel = i
      /\ list'.pos = list.pos /\ list'.seen = s
  BY <1>1, <1>4 DEF ListWindows
<1>6. WellPaged(list')
  BY AppSetSelectionKeeps DEF ListInv
<1>7. Sized(list')
  BY <1>1, <1>3, <1>5, <1>6 DEF Sized
<1> QED BY <1>1, <1>7, SizedRest

LEMMA ClearSizes == ASSUME ListInv, SizedInv, ClearList PROVE SizedInv'
<1>1. /\ list \in ListWindows /\ pick' = Stirred /\ Sized(list)
      /\ list' = [list EXCEPT !.count = 0, !.sel = 0, !.pages = <<>>, !.dirty = TRUE]
  BY DEF ClearList, ListInv, SizedInv, WellPaged
<1>2. /\ list'.count = 0 /\ list'.sel = 0 /\ list'.pos = list.pos /\ list'.seen = list.seen
  BY <1>1 DEF ListWindows
<1>3. WellPaged(list')
  BY ClearKeeps DEF ListInv
<1>4. 0 \in 0..MaxCount /\ 0 \in Indices
  BY IndicesAre
<1>5. Sized(list')
  BY <1>1, <1>2, <1>3, <1>4 DEF Sized
<1> QED BY <1>1, <1>5, SizedRest

LEMMA ListPickSizes == ASSUME ListInv, SizedInv, ListPick PROVE SizedInv'
<1>1. CASE \E row \in 0..(PageSize - 1) : Digit(row) \/ ClickRow(row)
  BY <1>1, DigitSizes, ClickSizes
<1>2. CASE Finalize \/ FinishClick
  BY <1>2, FinalizeSizes, FinishSizes
<1> QED BY <1>1, <1>2 DEF ListPick

LEMMA ListMoveSizes == ASSUME ListInv, SizedInv, ListMove PROVE SizedInv'
<1>0. Sized(list) /\ list \in ListWindows
  BY DEF SizedInv, ListInv, WellPaged
<1>1. CASE \E n \in 1..MaxCount : SetText(n)
  BY <1>1, SetTextSizes
<1>2. CASE ClearList
  BY <1>2, ClearSizes
<1>3. CASE \E arrow \in Arrows : Arrow(arrow)
  <2>1. PICK arrow \in Arrows : list' = AdviseUIChangedByArrowKey(list, arrow) /\ pick' = Stirred
    BY <1>3 DEF Arrow
  <2>2. Sized(list')
    BY <1>0, <2>1, SizedArrow
  <2> QED BY <2>1, <2>2, SizedRest
<1>4. CASE PressBar
  <2>1. list' = [list EXCEPT !.capture = "bar"] /\ pick' = pick
    BY <1>4 DEF PressBar
  <2>2. /\ list'.pages = list.pages /\ list'.count = list.count
        /\ list'.sel = list.sel /\ list'.pos = list.pos /\ list'.seen = list.seen
    BY <1>0, <2>1 DEF ListWindows
  <2>3. ListInv'
    BY <1>4, PressBarKeeps
  <2> QED BY <2>1, <2>2, <2>3, MouseSizes
<1>5. CASE \E button \in {"up", "down"} : PressButton(button)
  BY <1>5, PressButtonSizes
<1>6. CASE OnTimer
  <2>1. list' = ScrollLine(list, list.timer) /\ pick' = Stirred
    BY <1>6 DEF OnTimer
  <2>2. Sized(list')
    BY <1>0, <2>1, SizedLine
  <2> QED BY <2>1, <2>2, SizedRest
<1>7. CASE OnLButtonUp
  <2>1. list' = [list EXCEPT !.capture = "none", !.timer = "none"] /\ pick' = pick
    BY <1>7 DEF OnLButtonUp
  <2>2. /\ list'.pages = list.pages /\ list'.count = list.count
        /\ list'.sel = list.sel /\ list'.pos = list.pos /\ list'.seen = list.seen
    BY <1>0, <2>1 DEF ListWindows
  <2>3. ListInv'
    BY <1>7, ButtonUpKeeps
  <2> QED BY <2>1, <2>2, <2>3, MouseSizes
<1>8. CASE Paint
  <2>1. list' = OnPaint(list) /\ pick' = pick
    BY <1>8 DEF Paint
  <2>2. Sized(list')
    BY <1>0, <2>1, SizedPaint
  <2> QED BY <2>1, <2>2, SizedRest
<1>9. CASE \E rows \in 1..PageSize : SetPageIndex(rows)
  BY <1>9, SetPageIndexSizes
<1>10. CASE \E i \in Indices : AppSetSelection(i)
  BY <1>10, AppSetSelectionSizes
<1> QED BY <1>1, <1>2, <1>3, <1>4, <1>5, <1>6, <1>7, <1>8, <1>9, <1>10 DEF ListMove

LEMMA SizedRests == ASSUME SizedInv, UNCHANGED listVars PROVE SizedInv'
BY DEF SizedInv, listVars

LEMMA SizedInvIsTyped == ASSUME SizedInv PROVE ListTypeOK
BY SizedIsTyped DEF SizedInv, ListTypeOK

LEMMA SizedStarts ==
  ASSUME NEW store \in BOOLEAN, NEW show \in BOOLEAN, list = Empty(store, show), pick = NoPick
  PROVE  SizedInv
BY SizedEnds DEF SizedInv

(* However pages are cut and moved through, where pages begin and what is  *)
(* selected - by a digit past the end of the list, by a click that waits or*)
(* by an index the application names - stay within two pages of the longest*)
(* list, what is painted with them, and the scroll position within it      *)
(* (CandidateWindow.cpp, _SetSelectionInPage,                              *)
(* _AdjustPageIndexForSelection).                                          *)
THEOREM ListIsTyped == ListSpec => []ListTypeOK
<1>1. ListInit => ListInv /\ SizedInv
  <2> SUFFICES ASSUME ListInit PROVE ListInv /\ SizedInv
    OBVIOUS
  <2>1. PICK store \in BOOLEAN, show \in BOOLEAN : list = Empty(store, show) /\ pick = NoPick
    BY DEF ListInit
  <2>2. WellPaged(list) /\ list.count = 0 /\ list.timer = "none"
    BY <2>1, EmptyIsPaged
  <2>3. ListInv
    BY <2>1, <2>2, NoPickIs DEF ListInv, PaintedIsCurrent, HostSeesSelection
  <2> QED BY <2>1, <2>3, SizedStarts
<1>2. ListInv /\ SizedInv /\ [ListNext]_listVars => ListInv' /\ SizedInv'
  BY ListPickKeeps, ListMoveKeeps, ListRests, ListPickSizes, ListMoveSizes, SizedRests DEF ListNext
<1> QED BY <1>1, <1>2, SizedInvIsTyped, PTL DEF ListSpec
=============================================================================
