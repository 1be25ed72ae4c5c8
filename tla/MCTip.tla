------------------------------- MODULE MCTip ---------------------------------
(* The applications TLC runs the processor in.                             *)
EXTENDS Tip

CONSTANT Other    \* another application

Willing(show) == {e \in Answers : e.advised /\ e.element /\ e.show = show /\ e.wnd = "real"}

Calls(self, other) == [c \in Clients |-> IF c = Self THEN self ELSE other]

NoEngines == [engines |-> {}, calls |-> Calls(0, 0)]

\* Documents and threads come and go, and whatever may fail does.
Restless ==
  [matters |-> {"failure", "activation", "focus", "thread"}, limit |-> NoEngines,
   answers |-> Answers, count |-> 0, store |-> FALSE, added |-> {}]

\* One thread with two documents.
Documents == [Restless EXCEPT !.matters = {"failure", "activation", "focus"}]

\* Long lists, drawn by the service, in a window with and without a scroll
\* bar, or by the application.
Lists ==
  {[matters |-> {"list"}, limit |-> NoEngines, answers |-> Willing(how.show),
    count |-> MaxCount, store |-> how.store, added |-> {}] :
     how \in [show : BOOLEAN, store : BOOLEAN] \ {[show |-> FALSE, store |-> TRUE]}}

\* The modes are written to from everywhere, and the processor comes and goes.
Modes ==
  [matters |-> {"activation", "modes"}, limit |-> NoEngines, answers |-> {},
   count |-> 0, store |-> FALSE, added |-> {"width", "punct"}]

\* The language bar asks, listens and forgets to, while modes are written or
\* documents come and go; and documents while modes are written.
Bars ==
  {[Modes EXCEPT !.matters = m, !.added = {"open"}] :
     m \in {{"modes", "bar"}, {"focus", "bar"}, {"focus", "modes"}}}

\* One engine for an application in which the processor comes and goes; two
\* for one application; one for two applications.
Served == [Modes EXCEPT !.matters = {"engines"}, !.added = {}]
OneEngine == {CHOOSE e \in Engines : TRUE}
Calling ==
  {[Served EXCEPT !.matters = @ \union {"activation"},
                  !.limit = [engines |-> OneEngine, calls |-> Calls(3, 0)]],
   [Served EXCEPT !.limit = [engines |-> Engines, calls |-> Calls(2, 0)]],
   [Served EXCEPT !.limit = [engines |-> OneEngine, calls |-> Calls(1, 1)]]}

\* Two documents, and all that may go wrong in a window.
Drawing ==
  [Documents EXCEPT !.matters = {"focus", "drawing"}, !.answers = Willing(TRUE)]

\* The module is loaded and released, and its enumerators are used.
Serves == {[Modes EXCEPT !.matters = {m}, !.added = {}] : m \in {"module", "enumeration"}}

\* Nothing but what goes on beside the rest.
Beside == {[Modes EXCEPT !.matters = {m}, !.added = {}] : m \in Aside}

MCHosts == {Restless, Documents, Modes, Drawing} \union Bars \union Lists \union Calling \union Serves
           \union Beside

\* Two monitors side by side, the second further down; text on and off them.
MCWorkAreas == {Rect(0, 0, 4, 3), Rect(4, 1, 8, 5)}
MCCoordinates == -2..9

\* A file with a line that cannot be read and one that is there twice.
MCHandWritten == LET w == CHOOSE w \in Words : TRUE
                 IN {<<w, Broken, w>> \o <<v>> : v \in {CHOOSE v \in Words : v # w}}

MCSettings == <<"LearningEnabled", "PersonalizationEnabled">>

\* Few texts, all integers; one and two candidates.
MCTexts    == {<<>>, <<1, Base>>}
MCSegments == [text : MCTexts, reading : MCTexts]
MCNamed    ==
  [text : MCTexts, reading : MCTexts, score : {0, 1}, segments : {<<s>> : s \in MCSegments}]
MCScored   ==
  [text : {<<2>>}, reading : {<<>>}, score : Scores,
   segments : {<<>>, <<[text |-> <<3>>, reading |-> <<>>], [text |-> <<>>, reading |-> <<>>]>>}]
MCResults  ==
  [candidates : {<<>>} \union {<<c>> : c \in MCNamed \union MCScored}, zenzaiUsed : BOOLEAN]
    \union [candidates : {<<c, d>> : c \in {x \in MCNamed : x.score = 1},
                                   d \in {x \in MCScored : x.score = 1}},
            zenzaiUsed : {TRUE}]
MCNewerResults ==
  [candidates : {<<c>> : c \in {x \in MCNamed : x.score = 1 /\ x.text # <<>>}}, zenzaiUsed : {TRUE}]

MCCategories == <<"keyboard", "displayAttributes">>

\* Any two calls; the managers in any combination; all calls.
ManagerCalls == {"add", "remove"} \X {"profiles", "categories"}
MCRefusals   == {{c, d} : c, d \in SystemCalls} \union SUBSET ManagerCalls \union {SystemCalls}

MCLimits == {h.limit : h \in MCHosts}
=============================================================================
