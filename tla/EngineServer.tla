---------------------------- MODULE EngineServer ----------------------------
(***************************************************************************)
(* One engine process from the moment it listens until it exits: the       *)
(* accept loop (PipeServer.swift), a thread per connection                 *)
(* (PipeConnection.swift), the main actor that serves the requests, the    *)
(* idle watchdog (IdleWatchdog.swift), and the clients on the other end of *)
(* the pipe (EngineClient in OhageyEngineClient.cpp).                      *)
(*                                                                         *)
(* A pipe instance and the thread that serves it are one member of         *)
(* Instances; a member is used again once its thread has ended.  A client  *)
(* has one call outstanding, as every method of EngineClient blocks.  What *)
(* a request asks for, and what a reply says, is left out.                 *)
(***************************************************************************)
EXTENDS Integers, FiniteSets

CONSTANTS
  Clients, NoClient,   \* applications with the text service loaded
  Instances,           \* pipe instances that may exist at once
  NoPipe, Broken,      \* a client's handle: none, or one the engine has closed
  Timeouts,            \* whether idleTimeoutSeconds > 0, as read at startup
  MaxConnects          \* bound: how many connections are made in all

ASSUME ServerAssumption ==
  /\ NoClient \notin Clients
  /\ IsFiniteSet(Instances)
  /\ NoPipe \notin Instances /\ Broken \notin Instances /\ NoPipe # Broken
  /\ Timeouts \subseteq BOOLEAN
  /\ MaxConnects \in Nat

VARIABLES
  process,          \* "up", or "gone" after exit
  timed,            \* timeout > 0
  connectionCount, generation, hasExpired,   \* IdleWatchdog
  pending,          \* generations of the deadlines Dispatch still holds
  expiring,         \* deadlineReached has decided; onExpiry has not run yet
  accept,           \* where the accept loop is
  thread,           \* stage of each instance and of the thread serving it
  peer,             \* client that connected to an instance
  inbox, outbox,    \* a request or a reply lies in the instance's buffers
  app,              \* what each client is doing
  pipe,             \* each client's handle
  connects,         \* connections made, for the bound
  idleSince         \* history: generation when the engine last became idle

watchdogVars == <<connectionCount, generation, hasExpired, pending, expiring,
                  idleSince>>
serverVars   == <<accept, thread, peer, inbox, outbox>>
clientVars   == <<app, pipe, connects>>
vars == <<process, timed, watchdogVars, serverVars, clientVars>>

(* Stages in which connectionOpened has counted the connection and         *)
(* connectionClosed has not yet taken it back.                             *)
Counted == {"counted", "reading", "routing", "writing", "closing", "closed"}

Connections == {i \in Instances : thread[i] \in Counted}

ClientEndOpen(i) == peer[i] \in Clients /\ pipe[peer[i]] = i

-----------------------------------------------------------------------------
(* IdleWatchdog.  The lock makes each method one step.                     *)

(* Mutant: no new countdown while one is still on its way.                 *)
ScheduleOnlyOne ==
  IF timed /\ pending = {}
  THEN generation' = generation + 1 /\ pending' = pending \union {generation + 1}
  ELSE UNCHANGED <<generation, pending>>

(* scheduleCountdownLocked.                                                *)
ScheduleCountdown ==
  IF timed
  THEN generation' = generation + 1 /\ pending' = pending \union {generation + 1}
  ELSE UNCHANGED <<generation, pending>>

(* Mutant: a deadline does not recognise itself as obsolete.               *)
DeadlineTrusted(d) ==
  LET shouldExpire == connectionCount = 0 /\ ~hasExpired IN
  /\ process = "up" /\ d \in pending
  /\ pending' = pending \ {d}
  /\ hasExpired' = (hasExpired \/ shouldExpire)
  /\ expiring' = (expiring \/ shouldExpire)
  /\ UNCHANGED <<process, timed, connectionCount, generation, idleSince,
                 serverVars, clientVars>>

(* deadlineReached, up to the unlock.                                      *)
DeadlineReached(d) ==
  LET shouldExpire == d = generation /\ connectionCount = 0 /\ ~hasExpired IN
  /\ process = "up" /\ d \in pending
  /\ pending' = pending \ {d}
  /\ hasExpired' = (hasExpired \/ shouldExpire)
  /\ expiring' = (expiring \/ shouldExpire)
  /\ UNCHANGED <<process, timed, connectionCount, generation, idleSince,
                 serverVars, clientVars>>

-----------------------------------------------------------------------------
(* The end of the process: every handle of a client is broken.             *)
Exit ==
  /\ process' = "gone"
  /\ pipe' = [c \in Clients |-> IF pipe[c] \in Instances THEN Broken ELSE pipe[c]]
  /\ thread' = [i \in Instances |-> "free"]
  /\ peer' = [i \in Instances |-> NoClient]
  /\ inbox' = [i \in Instances |-> FALSE]
  /\ outbox' = [i \in Instances |-> FALSE]
  /\ accept' = "create"
  /\ UNCHANGED <<timed, watchdogVars, app, connects>>

(* onExpiry, after the lock has been released.                             *)
OnExpiry == process = "up" /\ expiring /\ Exit

-----------------------------------------------------------------------------
(* PipeServer.runAcceptLoop.                                               *)

CreateInstance ==
  /\ process = "up" /\ accept = "create"
  /\ \E i \in Instances :
       /\ thread[i] = "free"
       /\ thread' = [thread EXCEPT ![i] = "listening"]
  /\ accept' = "waiting"
  /\ UNCHANGED <<process, timed, watchdogVars, peer, inbox, outbox, clientVars>>

(* createPipeInstance throws: the name belongs to another process, or      *)
(* Windows refuses.  The accept thread logs and calls exit(1).             *)
CreateFails == process = "up" /\ accept = "create" /\ Exit

(* waitForClient.  A client that has connected and gone again before       *)
(* ConnectNamedPipe was reached makes it fail, and the loop goes on.       *)
WaitForClient(i) ==
  /\ process = "up" /\ accept = "waiting"
  /\ thread[i] = "listening" /\ peer[i] # NoClient
  /\ \/ /\ thread' = [thread EXCEPT ![i] = "accepted"]
        /\ accept' = "accepted"
        /\ UNCHANGED <<peer, inbox>>
     \/ /\ ~ClientEndOpen(i)
        /\ thread' = [thread EXCEPT ![i] = "free"]
        /\ peer' = [peer EXCEPT ![i] = NoClient]
        /\ inbox' = [inbox EXCEPT ![i] = FALSE]
        /\ accept' = "create"
  /\ UNCHANGED <<process, timed, watchdogVars, outbox, clientVars>>

(* connectionOpened, called before the thread exists.                      *)
ConnectionOpened(i) ==
  /\ process = "up" /\ accept = "accepted" /\ thread[i] = "accepted"
  /\ connectionCount' = connectionCount + 1
  /\ generation' = generation + 1
  /\ thread' = [thread EXCEPT ![i] = "counted"]
  /\ accept' = "counted"
  /\ UNCHANGED <<process, timed, hasExpired, pending, expiring, idleSince, peer,
                 inbox, outbox, clientVars>>

StartThread(i) ==
  /\ process = "up" /\ accept = "counted" /\ thread[i] = "counted"
  /\ thread' = [thread EXCEPT ![i] = "reading"]
  /\ accept' = "create"
  /\ UNCHANGED <<process, timed, watchdogVars, peer, inbox, outbox, clientVars>>

-----------------------------------------------------------------------------
(* PipeConnection.serve, and the main actor.                               *)

(* Mutant: a read that fails is tried again.                               *)
ReadRetries(i) ==
  /\ thread[i] = "reading" /\ inbox[i]
  /\ inbox' = [inbox EXCEPT ![i] = FALSE]
  /\ thread' = [thread EXCEPT ![i] = "routing"]
  /\ UNCHANGED <<process, timed, watchdogVars, accept, peer, outbox, clientVars>>

(* ReadFile and the decoder hand over a request, or the client is gone.    *)
Read(i) ==
  /\ thread[i] = "reading"
  /\ \/ /\ inbox[i]
        /\ inbox' = [inbox EXCEPT ![i] = FALSE]
        /\ thread' = [thread EXCEPT ![i] = "routing"]
     \/ /\ ~inbox[i] /\ ~ClientEndOpen(i)
        /\ thread' = [thread EXCEPT ![i] = "closing"]
        /\ UNCHANGED inbox
  /\ UNCHANGED <<process, timed, watchdogVars, accept, peer, outbox, clientVars>>

(* router.route on the main actor, which runs one request at a time.  A    *)
(* handler that throws becomes a reply like any other.                     *)
Route(i) ==
  /\ thread[i] = "routing"
  /\ thread' = [thread EXCEPT ![i] = "writing"]
  /\ UNCHANGED <<process, timed, watchdogVars, accept, peer, inbox, outbox,
                 clientVars>>

(* Mutant: an error of the handler is swallowed instead of answered.       *)
WriteSwallows(i) ==
  /\ thread[i] = "writing"
  /\ \E replied \in BOOLEAN :
       outbox' = [outbox EXCEPT ![i] = replied /\ ClientEndOpen(i)]
  /\ thread' = [thread EXCEPT ![i] = "reading"]
  /\ UNCHANGED <<process, timed, watchdogVars, accept, peer, inbox, clientVars>>

(* write: the connection is dropped when the client has gone, and when the *)
(* response does not fit a frame.                                          *)
Write(i) ==
  /\ thread[i] = "writing"
  /\ \/ /\ ClientEndOpen(i)
        /\ outbox' = [outbox EXCEPT ![i] = TRUE]
        /\ thread' = [thread EXCEPT ![i] = "reading"]
     \/ /\ thread' = [thread EXCEPT ![i] = "closing"]
        /\ UNCHANGED outbox
  /\ UNCHANGED <<process, timed, watchdogVars, accept, peer, inbox, clientVars>>

(* Mutants of disconnect: the thread ends without connectionClosed; the    *)
(* client is not told.                                                     *)
DisconnectUncounted(i) ==
  /\ thread[i] = "closing"
  /\ ~outbox[i] \/ ~ClientEndOpen(i)
  /\ pipe' = [c \in Clients |-> IF pipe[c] = i THEN Broken ELSE pipe[c]]
  /\ inbox' = [inbox EXCEPT ![i] = FALSE]
  /\ outbox' = [outbox EXCEPT ![i] = FALSE]
  /\ peer' = [peer EXCEPT ![i] = NoClient]
  /\ thread' = [thread EXCEPT ![i] = "free"]
  /\ UNCHANGED <<process, timed, watchdogVars, accept, app, connects>>

DisconnectSilently(i) ==
  /\ thread[i] = "closing"
  /\ inbox' = [inbox EXCEPT ![i] = FALSE]
  /\ outbox' = [outbox EXCEPT ![i] = FALSE]
  /\ peer' = [peer EXCEPT ![i] = NoClient]
  /\ thread' = [thread EXCEPT ![i] = "closed"]
  /\ UNCHANGED <<process, timed, watchdogVars, accept, app, pipe, connects>>

(* disconnect: FlushFileBuffers waits until the client has read its reply  *)
(* or has closed its end.                                                  *)
Disconnect(i) ==
  /\ thread[i] = "closing"
  /\ ~outbox[i] \/ ~ClientEndOpen(i)
  /\ pipe' = [c \in Clients |-> IF pipe[c] = i THEN Broken ELSE pipe[c]]
  /\ inbox' = [inbox EXCEPT ![i] = FALSE]
  /\ outbox' = [outbox EXCEPT ![i] = FALSE]
  /\ peer' = [peer EXCEPT ![i] = NoClient]
  /\ thread' = [thread EXCEPT ![i] = "closed"]
  /\ UNCHANGED <<process, timed, watchdogVars, accept, app, connects>>

(* Mutant: the count goes down twice for a connection, and is not clamped. *)
ConnectionClosedTwice(i) ==
  /\ thread[i] = "closed"
  /\ thread' = [thread EXCEPT ![i] = "free"]
  /\ connectionCount' = connectionCount - 2
  /\ UNCHANGED <<generation, pending, idleSince>>
  /\ UNCHANGED <<process, timed, hasExpired, expiring, accept, peer, inbox,
                 outbox, clientVars>>

(* connectionClosed, the last thing the thread does.                       *)
ConnectionClosed(i) ==
  LET left == IF connectionCount = 0 THEN 0 ELSE connectionCount - 1 IN
  /\ thread[i] = "closed"
  /\ thread' = [thread EXCEPT ![i] = "free"]
  /\ connectionCount' = left
  /\ IF left = 0
     THEN ScheduleCountdown /\ idleSince' = generation
     ELSE UNCHANGED <<generation, pending, idleSince>>
  /\ UNCHANGED <<process, timed, hasExpired, expiring, accept, peer, inbox,
                 outbox, clientVars>>

-----------------------------------------------------------------------------
(* The clients: EngineClient.Exchange.                                     *)

Call(c) ==
  /\ app[c] = "idle"
  /\ app' = [app EXCEPT ![c] =
               IF pipe[c] = NoPipe THEN "connecting" ELSE "sending"]
  /\ UNCHANGED <<process, timed, watchdogVars, serverVars, pipe, connects>>

(* CreateFileW succeeds on an instance that waits for a client.            *)
Connect(c) ==
  /\ app[c] = "connecting" /\ connects < MaxConnects
  /\ \E i \in Instances :
       /\ thread[i] = "listening" /\ peer[i] = NoClient
       /\ peer' = [peer EXCEPT ![i] = c]
       /\ pipe' = [pipe EXCEPT ![c] = i]
  /\ app' = [app EXCEPT ![c] = "sending"]
  /\ connects' = connects + 1
  /\ UNCHANGED <<process, timed, watchdogVars, accept, thread, inbox, outbox>>

(* No instance was free twice running, or there is no engine: the call     *)
(* reports NotConnected.                                                   *)
ConnectFails(c) ==
  /\ app[c] = "connecting"
  /\ ~\E i \in Instances : thread[i] = "listening" /\ peer[i] = NoClient
  /\ app' = [app EXCEPT ![c] = "idle"]
  /\ UNCHANGED <<process, timed, watchdogVars, serverVars, pipe, connects>>

Send(c) ==
  /\ app[c] = "sending" /\ pipe[c] \in Instances
  /\ inbox' = [inbox EXCEPT ![pipe[c]] = TRUE]
  /\ app' = [app EXCEPT ![c] = "waiting"]
  /\ UNCHANGED <<process, timed, watchdogVars, accept, thread, peer, outbox,
                 pipe, connects>>

Receive(c) ==
  /\ app[c] = "waiting" /\ pipe[c] \in Instances /\ outbox[pipe[c]]
  /\ outbox' = [outbox EXCEPT ![pipe[c]] = FALSE]
  /\ app' = [app EXCEPT ![c] = "idle"]
  /\ UNCHANGED <<process, timed, watchdogVars, accept, thread, peer, inbox,
                 pipe, connects>>

(* WriteFile or ReadFile fails: drop the handle, so that the next call     *)
(* connects again.                                                         *)
CallFails(c) ==
  /\ app[c] \in {"sending", "waiting"} /\ pipe[c] = Broken
  /\ pipe' = [pipe EXCEPT ![c] = NoPipe]
  /\ app' = [app EXCEPT ![c] = "idle"]
  /\ UNCHANGED <<process, timed, watchdogVars, serverVars, connects>>

(* The application ends, whatever it was doing.                            *)
Leave(c) ==
  /\ app[c] # "gone"
  /\ app' = [app EXCEPT ![c] = "gone"]
  /\ pipe' = [pipe EXCEPT ![c] = NoPipe]
  /\ UNCHANGED <<process, timed, watchdogVars, serverVars, connects>>

-----------------------------------------------------------------------------
(* main has called watchdog.start() and started the accept thread.         *)
Init ==
  /\ process = "up" /\ timed \in Timeouts
  /\ connectionCount = 0 /\ hasExpired = FALSE /\ expiring = FALSE
  /\ generation = IF timed THEN 1 ELSE 0
  /\ pending = IF timed THEN {1} ELSE {}
  /\ accept = "create"
  /\ thread = [i \in Instances |-> "free"]
  /\ peer = [i \in Instances |-> NoClient]
  /\ inbox = [i \in Instances |-> FALSE] /\ outbox = [i \in Instances |-> FALSE]
  /\ app = [c \in Clients |-> "idle"] /\ pipe = [c \in Clients |-> NoPipe]
  /\ connects = 0 /\ idleSince = 0

AcceptStep ==
  CreateInstance \/ \E i \in Instances :
    WaitForClient(i) \/ ConnectionOpened(i) \/ StartThread(i)

ConnectionStep(i) ==
  Read(i) \/ Route(i) \/ Write(i) \/ Disconnect(i) \/ ConnectionClosed(i)

ClientStep(c) ==
  Connect(c) \/ ConnectFails(c) \/ Send(c) \/ Receive(c) \/ CallFails(c)

Next ==
  \/ AcceptStep
  \/ CreateFails
  \/ \E i \in Instances : ConnectionStep(i)
  \/ \E d \in pending : DeadlineReached(d)
  \/ OnExpiry
  \/ \E c \in Clients : Call(c) \/ ClientStep(c) \/ Leave(c)

Spec == Init /\ [][Next]_vars

(* Fairness: every thread of the engine is scheduled, Dispatch delivers    *)
(* every deadline, and a call a client is in goes on.  Nothing makes a     *)
(* client call or leave, and nothing makes the creation of a pipe fail.    *)
Fairness ==
  /\ WF_vars(AcceptStep)
  /\ \A i \in Instances : WF_vars(ConnectionStep(i))
  /\ WF_vars(\E d \in pending : DeadlineReached(d))
  /\ WF_vars(OnExpiry)
  /\ \A c \in Clients : WF_vars(ClientStep(c))

FairSpec == Spec /\ Fairness

-----------------------------------------------------------------------------
(* Properties.                                                             *)

ThreadStages == {"free", "listening", "accepted"} \union Counted

TypeOK ==
  /\ process \in {"up", "gone"} /\ timed \in BOOLEAN
  /\ connectionCount \in Nat /\ generation \in Nat
  /\ hasExpired \in BOOLEAN /\ expiring \in BOOLEAN
  /\ pending \subseteq Nat /\ idleSince \in Nat
  /\ accept \in {"create", "waiting", "accepted", "counted"}
  /\ thread \in [Instances -> ThreadStages]
  /\ peer \in [Instances -> Clients \union {NoClient}]
  /\ inbox \in [Instances -> BOOLEAN] /\ outbox \in [Instances -> BOOLEAN]
  /\ app \in [Clients -> {"idle", "connecting", "sending", "waiting", "gone"}]
  /\ pipe \in [Clients -> Instances \union {NoPipe, Broken}]
  /\ connects \in Nat

(* The watchdog's count is the number of connections whose thread exists   *)
(* or is about to: the clamp in connectionClosed never hides a mismatch.   *)
CountIsConnections ==
  process = "up" => connectionCount = Cardinality(Connections)

(* An engine with nobody connected has a countdown running that will be    *)
(* recognised when it fires, so it cannot stay resident by accident.       *)
IdleIsTimed ==
  process = "up" /\ timed /\ connectionCount = 0 /\ ~hasExpired
    => generation \in pending

(* The watchdog knows what is there: who is connected, and what will end   *)
(* an engine that nobody uses.                                             *)
WatchdogIsTrue == CountIsConnections /\ IdleIsTimed

(* The watchdog decides to expire only when no connection is counted, and  *)
(* by a countdown that was armed after the last one ended.                 *)
ExpiresOnlyIdle ==
  [][~hasExpired /\ hasExpired' =>
       Connections = {} /\ \E d \in pending \ pending' : d > idleSince]_vars

(* Each end of a pipe belongs to one connection: no two clients hold the   *)
(* same instance, and the engine knows the client that holds it.           *)
PipesPair ==
  \A c \in Clients : pipe[c] \in Instances => peer[pipe[c]] = c

(* A call always comes back: with a reply, or with an error because the    *)
(* connection was dropped or the engine exited.                            *)
CallsReturn ==
  \A c \in Clients : app[c] = "waiting" ~> app[c] \in {"idle", "gone"}

(* Once every application has gone, a timed engine goes too.               *)
AbandonedEngineExits ==
  (timed /\ \A c \in Clients : app[c] = "gone") ~> process = "gone"

-----------------------------------------------------------------------------
(* The calls as an application sees them (RequestReply).                   *)

\* Whether the engine has done what it was asked through an instance, and
\* has not given it up.
Served(i)  == outbox[i] \/ thread[i] = "writing"
GivenUp(i) == thread[i] = "closing" /\ ~outbox[i]

CallOf(c) ==
  CASE app[c] = "gone"                       -> "absent"
    [] app[c] = "idle"                       -> "none"
    [] app[c] \in {"connecting", "sending"}  -> "begun"
    [] app[c] = "waiting" /\ pipe[c] \in Instances ->
         IF Served(pipe[c]) THEN "served" ELSE IF GivenUp(pipe[c]) THEN "lost" ELSE "sent"
    [] OTHER                                 -> "lost"

RequestReply == INSTANCE RequestReply
                WITH Callers <- Clients, call <- [c \in Clients |-> CallOf(c)]

(* What an application asks the engine does at most once, and a reply is   *)
(* to what was asked, however threads, the watchdog, clients that leave    *)
(* and a failing pipe fall together: each step of the engine and of its    *)
(* clients is one that RequestReply allows, or none.                       *)
RequestReplySpec == RequestReply!Spec

-----------------------------------------------------------------------------
(* PipeServer.swift:241-243 and IdleWatchdogTests.swift:93-104: the        *)
(* watchdog does not expire while a client is connected.                   *)
NoExpiryUnderClient ==
  [][~hasExpired /\ hasExpired' =>
       \A c \in Clients : pipe[c] \notin Instances]_vars
=============================================================================
