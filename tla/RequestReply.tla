---------------------------- MODULE RequestReply -----------------------------
(***************************************************************************)
(* What an application may rely on when it calls the conversion engine,    *)
(* without pipes, threads, processes or request ids: what is asked is done *)
(* at most once, a reply is to what was asked, and a connection that       *)
(* breaks costs the call that was under way and no other.  EngineServer    *)
(* implements it from the engine's side, EngineClient from the client's.   *)
(***************************************************************************)
CONSTANT Callers    \* applications

VARIABLE call       \* where each is with its call

Stages ==
  {"absent",    \* there is no client, or it holds nothing of the engine's
   "none",      \* no call is under way
   "begun",     \* nothing has gone out yet
   "sent",      \* the engine has the request, or will have it
   "served",    \* it has done what was asked; the reply is on its way
   "lost"}      \* the connection broke: nobody will say whether it was done

Init == call \in [Callers -> {"absent", "none"}]

Move(c, from, to) == call[c] \in from /\ call' = [call EXCEPT ![c] = to]

Ask(c)    == Move(c, {"absent", "none"}, "begun")
Send(c)   == Move(c, {"begun"}, "sent")
Serve(c)  == Move(c, {"sent"}, "served")
Return(c) == Move(c, {"served"}, "none")
GiveUp(c) == Move(c, {"begun", "lost"}, "none")
Leave(c)  == Move(c, Stages, "absent")

\* An engine that ends takes the connections of many with it.
Break ==
  \E broken \in SUBSET {c \in Callers : call[c] \in {"sent", "served"}} :
    call' = [c \in Callers |-> IF c \in broken THEN "lost" ELSE call[c]]

Next == \/ Break
        \/ \E c \in Callers : Ask(c) \/ Send(c) \/ Serve(c) \/ Return(c) \/ GiveUp(c) \/ Leave(c)

Spec == Init /\ [][Next]_call
=============================================================================
