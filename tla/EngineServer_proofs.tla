------------------------- MODULE EngineServer_proofs -------------------------
(***************************************************************************)
(* Theorems about EngineServer, for every number of clients, instances and *)
(* connections.                                                            *)
(***************************************************************************)
EXTENDS EngineServer, FiniteSetTheorems, TLAPS

-----------------------------------------------------------------------------
(* Type correctness.                                                       *)

LEMMA ExitTyped ==
  ASSUME TypeOK, Exit
  PROVE  TypeOK'
<1>1. pipe' \in [Clients -> Instances \union {NoPipe, Broken}]
  BY DEF Exit, TypeOK
<1>2. /\ thread' \in [Instances -> ThreadStages]
      /\ peer' \in [Instances -> Clients \union {NoClient}]
      /\ inbox' \in [Instances -> BOOLEAN]
      /\ outbox' \in [Instances -> BOOLEAN]
  BY DEF Exit, ThreadStages
<1>3. /\ process' \in {"up", "gone"}
      /\ accept' \in {"create", "waiting", "accepted", "counted"}
      /\ UNCHANGED <<timed, watchdogVars, app, connects>>
  BY DEF Exit
<1>4. QED
  BY <1>1, <1>2, <1>3 DEF TypeOK, watchdogVars

LEMMA CountdownTyped ==
  ASSUME TypeOK, ScheduleCountdown
  PROVE  generation' \in Nat /\ pending' \subseteq Nat
<1>1. CASE timed
  <2>1. generation + 1 \in Nat
    BY DEF TypeOK
  <2>2. QED
    BY <1>1, <2>1 DEF ScheduleCountdown, TypeOK
<1>2. CASE ~timed
  BY <1>2 DEF ScheduleCountdown, TypeOK
<1>3. QED
  BY <1>1, <1>2

LEMMA TypeInit == Init => TypeOK
<1> SUFFICES ASSUME Init PROVE TypeOK
  OBVIOUS
<1>1. /\ thread \in [Instances -> ThreadStages]
      /\ peer \in [Instances -> Clients \union {NoClient}]
      /\ inbox \in [Instances -> BOOLEAN]
      /\ outbox \in [Instances -> BOOLEAN]
  BY DEF Init, ThreadStages
<1>2. /\ app \in [Clients -> {"idle", "connecting", "sending", "waiting", "gone"}]
      /\ pipe \in [Clients -> Instances \union {NoPipe, Broken}]
  BY DEF Init
<1>3. timed \in BOOLEAN
  BY ServerAssumption DEF Init
<1>4. generation \in Nat /\ pending \subseteq Nat
  BY DEF Init
<1>5. QED
  BY <1>1, <1>2, <1>3, <1>4 DEF Init, TypeOK

LEMMA TypeNext == TypeOK /\ [Next]_vars => TypeOK'
<1> SUFFICES ASSUME TypeOK, [Next]_vars PROVE TypeOK'
  OBVIOUS
<1> USE DEF watchdogVars, serverVars, clientVars
<1>1. CASE CreateInstance
  BY <1>1 DEF CreateInstance, TypeOK, ThreadStages, Counted
<1>2. ASSUME NEW i \in Instances, WaitForClient(i)
      PROVE  TypeOK'
  BY <1>2 DEF WaitForClient, TypeOK, ThreadStages, Counted
<1>3. ASSUME NEW i \in Instances, ConnectionOpened(i)
      PROVE  TypeOK'
  BY <1>3 DEF ConnectionOpened, TypeOK, ThreadStages, Counted
<1>4. ASSUME NEW i \in Instances, StartThread(i)
      PROVE  TypeOK'
  BY <1>4 DEF StartThread, TypeOK, ThreadStages, Counted
<1>5. CASE CreateFails
  BY <1>5, ExitTyped DEF CreateFails
<1>6. ASSUME NEW i \in Instances, Read(i)
      PROVE  TypeOK'
  BY <1>6 DEF Read, TypeOK, ThreadStages, Counted
<1>7. ASSUME NEW i \in Instances, Route(i)
      PROVE  TypeOK'
  BY <1>7 DEF Route, TypeOK, ThreadStages, Counted
<1>8. ASSUME NEW i \in Instances, Write(i)
      PROVE  TypeOK'
  BY <1>8 DEF Write, TypeOK, ThreadStages, Counted
<1>9. ASSUME NEW i \in Instances, Disconnect(i)
      PROVE  TypeOK'
  <2>1. pipe' \in [Clients -> Instances \union {NoPipe, Broken}]
    BY <1>9 DEF Disconnect, TypeOK
  <2>2. /\ thread' \in [Instances -> ThreadStages]
        /\ peer' \in [Instances -> Clients \union {NoClient}]
        /\ inbox' \in [Instances -> BOOLEAN]
        /\ outbox' \in [Instances -> BOOLEAN]
    BY <1>9 DEF Disconnect, TypeOK, ThreadStages, Counted
  <2>3. UNCHANGED <<process, timed, watchdogVars, accept, app, connects>>
    BY <1>9 DEF Disconnect
  <2>4. QED
    BY <2>1, <2>2, <2>3 DEF TypeOK
<1>10. ASSUME NEW i \in Instances, ConnectionClosed(i)
       PROVE  TypeOK'
  <2>1. connectionCount' \in Nat
    BY <1>10 DEF ConnectionClosed, TypeOK
  <2>2. generation' \in Nat /\ pending' \subseteq Nat /\ idleSince' \in Nat
    <3>1. CASE ScheduleCountdown /\ idleSince' = generation
      BY <3>1, CountdownTyped DEF TypeOK
    <3>2. CASE UNCHANGED <<generation, pending, idleSince>>
      BY <3>2 DEF TypeOK
    <3>3. QED
      BY <1>10, <3>1, <3>2 DEF ConnectionClosed
  <2>3. thread' \in [Instances -> ThreadStages]
    BY <1>10 DEF ConnectionClosed, TypeOK, ThreadStages
  <2>4. UNCHANGED <<process, timed, hasExpired, expiring, accept, peer, inbox,
                    outbox, app, pipe, connects>>
    BY <1>10 DEF ConnectionClosed
  <2>5. QED
    BY <2>1, <2>2, <2>3, <2>4 DEF TypeOK
<1>11. ASSUME NEW d \in pending, DeadlineReached(d)
       PROVE  TypeOK'
  BY <1>11 DEF DeadlineReached, TypeOK
<1>12. CASE OnExpiry
  BY <1>12, ExitTyped DEF OnExpiry
<1>13. ASSUME NEW c \in Clients, Call(c)
       PROVE  TypeOK'
  BY <1>13 DEF Call, TypeOK
<1>14. ASSUME NEW c \in Clients, Connect(c)
       PROVE  TypeOK'
  BY <1>14 DEF Connect, TypeOK
<1>15. ASSUME NEW c \in Clients,
              ConnectFails(c) \/ Send(c) \/ Receive(c) \/ CallFails(c) \/ Leave(c)
       PROVE  TypeOK'
  BY <1>15 DEF ConnectFails, Send, Receive, CallFails, Leave, TypeOK
<1>16. CASE UNCHANGED vars
  BY <1>16 DEF vars, TypeOK
<1>17. QED
  BY <1>1, <1>2, <1>3, <1>4, <1>5, <1>6, <1>7, <1>8, <1>9, <1>10, <1>11,
     <1>12, <1>13, <1>14, <1>15, <1>16
  DEF Next, AcceptStep, ConnectionStep, ClientStep

(* Every variable keeps its type.                                          *)
THEOREM ServerTypes == Spec => []TypeOK
<1>1. QED
  BY TypeInit, TypeNext, PTL DEF Spec

-----------------------------------------------------------------------------
(* The count of the watchdog.                                              *)

LEMMA ConnectionsFinite ==
  IsFiniteSet(Connections) /\ Cardinality(Connections) \in Nat
<1>1. Connections \subseteq Instances
  BY DEF Connections
<1>2. QED
  BY <1>1, ServerAssumption, FS_Subset, FS_CardinalityType

CountInv == TypeOK /\ CountIsConnections

(* A step that moves no thread into or out of the counted stages.          *)
LEMMA CountStays ==
  ASSUME CountInv, TypeOK', Connections' = Connections,
         UNCHANGED <<process, connectionCount>>
  PROVE  CountInv'
  BY DEF CountInv, CountIsConnections

LEMMA CountNext == CountInv /\ [Next]_vars => CountInv'
<1> SUFFICES ASSUME CountInv, [Next]_vars PROVE CountInv'
  OBVIOUS
<1> USE DEF watchdogVars, serverVars, clientVars
<1>a. TypeOK /\ TypeOK'
  BY TypeNext DEF CountInv
<1>1. CASE CreateInstance
  <2>1. Connections' = Connections
    BY <1>1, <1>a DEF CreateInstance, Connections, Counted, TypeOK
  <2>2. QED
    BY <1>1, <1>a, <2>1, CountStays DEF CreateInstance
<1>2. ASSUME NEW i \in Instances, WaitForClient(i) \/ StartThread(i)
      PROVE  CountInv'
  <2>1. Connections' = Connections
    BY <1>2, <1>a DEF WaitForClient, StartThread, Connections, Counted, TypeOK
  <2>2. QED
    BY <1>2, <1>a, <2>1, CountStays DEF WaitForClient, StartThread
<1>3. ASSUME NEW i \in Instances, ConnectionOpened(i)
      PROVE  CountInv'
  <2>1. i \notin Connections /\ Connections' = Connections \union {i}
    BY <1>3, <1>a DEF ConnectionOpened, Connections, Counted, TypeOK
  <2>2. Cardinality(Connections') = Cardinality(Connections) + 1
    BY <2>1, ConnectionsFinite, FS_AddElement
  <2>3. QED
    BY <1>3, <1>a, <2>2, ConnectionsFinite
    DEF CountInv, CountIsConnections, ConnectionOpened
<1>4. ASSUME Exit
      PROVE  CountInv'
  BY <1>4, <1>a DEF Exit, CountInv, CountIsConnections
<1>5. ASSUME NEW i \in Instances,
             Read(i) \/ Route(i) \/ Write(i) \/ Disconnect(i)
      PROVE  CountInv'
  <2>1. Connections' = Connections
    BY <1>5, <1>a DEF Read, Route, Write, Disconnect, Connections, Counted,
                      TypeOK
  <2>2. QED
    BY <1>5, <1>a, <2>1, CountStays DEF Read, Route, Write, Disconnect
<1>6. ASSUME NEW i \in Instances, ConnectionClosed(i)
      PROVE  CountInv'
  <2>1. i \in Connections /\ Connections' = Connections \ {i}
    BY <1>6, <1>a DEF ConnectionClosed, Connections, Counted, TypeOK
  <2>2. Cardinality(Connections') = Cardinality(Connections) - 1
    BY <2>1, ConnectionsFinite, FS_RemoveElement
  <2>3. Cardinality(Connections) # 0
    BY <2>1, ConnectionsFinite, FS_EmptySet
  <2>4. CASE process = "up"
    BY <1>6, <1>a, <2>2, <2>3, <2>4, ConnectionsFinite
    DEF CountInv, CountIsConnections, ConnectionClosed
  <2>5. CASE process # "up"
    BY <1>6, <1>a, <2>5 DEF CountInv, CountIsConnections, ConnectionClosed
  <2>6. QED
    BY <2>4, <2>5
<1>7. ASSUME NEW d \in pending, DeadlineReached(d)
      PROVE  CountInv'
  BY <1>7, <1>a, CountStays DEF DeadlineReached, Connections
<1>8. ASSUME NEW c \in Clients,
             Call(c) \/ Connect(c) \/ ConnectFails(c) \/ Send(c) \/ Receive(c)
               \/ CallFails(c) \/ Leave(c)
      PROVE  CountInv'
  BY <1>8, <1>a, CountStays
  DEF Call, Connect, ConnectFails, Send, Receive, CallFails, Leave, Connections
<1>9. CASE UNCHANGED vars
  BY <1>9, <1>a, CountStays DEF vars, Connections
<1>10. QED
  BY <1>1, <1>2, <1>3, <1>4, <1>5, <1>6, <1>7, <1>8, <1>9
  DEF Next, AcceptStep, ConnectionStep, ClientStep, CreateFails, OnExpiry

LEMMA CountInit == Init => CountInv
<1> SUFFICES ASSUME Init PROVE CountInv
  OBVIOUS
<1>1. Connections = {}
  BY DEF Init, Connections, Counted
<1>2. QED
  BY <1>1, TypeInit, FS_EmptySet DEF Init, CountInv, CountIsConnections

LEMMA CountInvariant == Spec => []CountInv
<1>1. QED
  BY CountInit, CountNext, PTL DEF Spec

(* connectionCount is the number of connections whose thread is alive or   *)
(* about to be, however connections open and close.                        *)
THEOREM CountIsRight == Spec => []CountIsConnections
<1>1. CountInv => CountIsConnections
  BY DEF CountInv
<1>2. QED
  BY <1>1, CountInvariant, PTL

-----------------------------------------------------------------------------
(* The countdown.                                                          *)

ClockInv ==
  /\ CountInv
  /\ IdleIsTimed
  /\ timed => generation > idleSince
  /\ ~timed => pending = {}

(* A step that leaves the watchdog alone.                                  *)
LEMMA ClockStays ==
  ASSUME ClockInv, CountInv', UNCHANGED <<timed, watchdogVars>>,
         process' = "up" => process = "up"
  PROVE  ClockInv'
  BY DEF ClockInv, IdleIsTimed, watchdogVars

LEMMA ClockInit == Init => ClockInv
  BY CountInit DEF Init, ClockInv, IdleIsTimed

LEMMA ClockNext == ClockInv /\ [Next]_vars => ClockInv'
<1> SUFFICES ASSUME ClockInv, [Next]_vars PROVE ClockInv'
  OBVIOUS
<1> USE DEF serverVars, clientVars
<1>a. CountInv /\ CountInv' /\ TypeOK
  BY CountNext DEF ClockInv, CountInv
<1>1. CASE CreateInstance
  BY <1>1, <1>a, ClockStays DEF CreateInstance
<1>2. ASSUME NEW i \in Instances, WaitForClient(i) \/ StartThread(i)
      PROVE  ClockInv'
  BY <1>2, <1>a, ClockStays DEF WaitForClient, StartThread
<1>3. ASSUME NEW i \in Instances, ConnectionOpened(i)
      PROVE  ClockInv'
  <2>1. /\ connectionCount' = connectionCount + 1
        /\ generation' = generation + 1
        /\ UNCHANGED <<process, timed, hasExpired, pending, idleSince>>
    BY <1>3 DEF ConnectionOpened
  <2>2. connectionCount' # 0
    BY <1>a, <2>1 DEF TypeOK
  <2>3. timed' => generation' > idleSince'
    BY <1>a, <2>1 DEF ClockInv, TypeOK
  <2>4. QED
    BY <1>a, <2>1, <2>2, <2>3 DEF ClockInv, IdleIsTimed
<1>4. ASSUME Exit
      PROVE  ClockInv'
  BY <1>4, <1>a, ClockStays DEF Exit
<1>5. ASSUME NEW i \in Instances,
             Read(i) \/ Route(i) \/ Write(i) \/ Disconnect(i)
      PROVE  ClockInv'
  BY <1>5, <1>a, ClockStays DEF Read, Route, Write, Disconnect
<1>6. ASSUME NEW i \in Instances, ConnectionClosed(i)
      PROVE  ClockInv'
  <2>1. UNCHANGED <<process, timed, hasExpired>>
    BY <1>6 DEF ConnectionClosed
  <2>2. CASE connectionCount' = 0
    <3>1. ScheduleCountdown /\ idleSince' = generation
      BY <1>6, <2>2 DEF ConnectionClosed
    <3>2. timed' => generation' > idleSince' /\ generation' \in pending'
      BY <1>a, <2>1, <3>1 DEF ScheduleCountdown, TypeOK
    <3>3. ~timed' => pending' = {}
      BY <2>1, <3>1 DEF ScheduleCountdown, ClockInv
    <3>4. QED
      BY <1>a, <3>2, <3>3 DEF ClockInv, IdleIsTimed
  <2>3. CASE connectionCount' # 0
    <3>1. UNCHANGED <<generation, pending, idleSince>>
      BY <1>6, <2>3 DEF ConnectionClosed
    <3>2. QED
      BY <1>a, <2>1, <2>3, <3>1 DEF ClockInv, IdleIsTimed
  <2>4. QED
    BY <2>2, <2>3
<1>7. ASSUME NEW d \in pending, DeadlineReached(d)
      PROVE  ClockInv'
  BY <1>7, <1>a DEF DeadlineReached, ClockInv, IdleIsTimed
<1>8. ASSUME NEW c \in Clients,
             Call(c) \/ Connect(c) \/ ConnectFails(c) \/ Send(c) \/ Receive(c)
               \/ CallFails(c) \/ Leave(c)
      PROVE  ClockInv'
  BY <1>8, <1>a, ClockStays
  DEF Call, Connect, ConnectFails, Send, Receive, CallFails, Leave
<1>9. CASE UNCHANGED vars
  BY <1>9, <1>a, ClockStays DEF vars
<1>10. QED
  BY <1>1, <1>2, <1>3, <1>4, <1>5, <1>6, <1>7, <1>8, <1>9
  DEF Next, AcceptStep, ConnectionStep, ClientStep, CreateFails, OnExpiry

LEMMA ClockInvariant == Spec => []ClockInv
<1>1. QED
  BY ClockInit, ClockNext, PTL DEF Spec

(* An idle engine always has a countdown on its way that will count.       *)
THEOREM IdleEngineIsTimed == Spec => []IdleIsTimed
<1>1. ClockInv => IdleIsTimed
  BY DEF ClockInv
<1>2. QED
  BY <1>1, ClockInvariant, PTL

(* So the watchdog's picture is true, however clients connect and leave    *)
(* and whichever of its countdowns fire.                                   *)
THEOREM WatchdogIsRight == Spec => []WatchdogIsTrue
<1>1. CountIsConnections /\ IdleIsTimed => WatchdogIsTrue
  BY DEF WatchdogIsTrue
<1>2. QED
  BY <1>1, CountIsRight, IdleEngineIsTimed, PTL

(* Only DeadlineReached sets hasExpired, and only when nothing is counted. *)
LEMMA ExpiryStep ==
  ASSUME ClockInv, [Next]_vars, ~hasExpired, hasExpired'
  PROVE  Connections = {} /\ \E d \in pending \ pending' : d > idleSince
<1> USE DEF watchdogVars, serverVars, clientVars
<1>1. PICK d \in pending : DeadlineReached(d)
  BY DEF Next, vars, AcceptStep, ConnectionStep, ClientStep, CreateFails,
         OnExpiry, Exit, CreateInstance, WaitForClient, ConnectionOpened,
         StartThread, Read, Route, Write, Disconnect, ConnectionClosed, Call,
         Connect, ConnectFails, Send, Receive, CallFails, Leave
<1>2. /\ process = "up" /\ d = generation /\ connectionCount = 0
      /\ pending' = pending \ {d}
  BY <1>1 DEF DeadlineReached
<1>3. Connections = {}
  BY <1>2, ConnectionsFinite, FS_EmptySet DEF ClockInv, CountInv, CountIsConnections
<1>4. d > idleSince
  BY <1>1, <1>2 DEF ClockInv
<1>5. QED
  BY <1>1, <1>2, <1>3, <1>4

(* The watchdog never decides to end the process while a connection is     *)
(* counted, nor by a countdown that began before the last one closed.      *)
THEOREM ExpiryNeedsIdleness == Spec => ExpiresOnlyIdle
<1>1. ClockInv /\ [Next]_vars =>
        [~hasExpired /\ hasExpired' =>
           Connections = {} /\ \E d \in pending \ pending' : d > idleSince]_vars
  BY ExpiryStep
<1>2. QED
  BY <1>1, ClockInvariant, PTL DEF Spec, ExpiresOnlyIdle

-----------------------------------------------------------------------------
(* The two ends of a pipe.                                                 *)

PairInv == TypeOK /\ PipesPair

LEMMA PairNext == PairInv /\ [Next]_vars => PairInv'
<1> SUFFICES ASSUME PairInv, [Next]_vars PROVE PairInv'
  OBVIOUS
<1> USE DEF watchdogVars, serverVars, clientVars
<1>a. TypeOK /\ TypeOK'
  BY TypeNext DEF PairInv
<1>1. ASSUME UNCHANGED <<pipe, peer>>
      PROVE  PairInv'
  BY <1>1, <1>a DEF PairInv, PipesPair
<1>2. ASSUME NEW i \in Instances, WaitForClient(i)
      PROVE  PairInv'
  <2>1. CASE UNCHANGED peer
    BY <1>1, <1>2, <2>1 DEF WaitForClient
  <2>2. CASE ~ClientEndOpen(i) /\ peer' = [peer EXCEPT ![i] = NoClient]
    <3>1. \A c \in Clients : pipe[c] # i
      BY <2>2 DEF PairInv, PipesPair, ClientEndOpen
    <3>2. QED
      BY <1>2, <1>a, <2>2, <3>1 DEF WaitForClient, PairInv, PipesPair, TypeOK
  <2>3. QED
    BY <1>2, <2>1, <2>2 DEF WaitForClient
<1>3. ASSUME Exit
      PROVE  PairInv'
  BY <1>3, <1>a, ServerAssumption DEF Exit, PairInv, PipesPair, TypeOK
<1>4. ASSUME NEW i \in Instances, Disconnect(i)
      PROVE  PairInv'
  BY <1>4, <1>a, ServerAssumption DEF Disconnect, PairInv, PipesPair, TypeOK
<1>5. ASSUME NEW c \in Clients, Connect(c)
      PROVE  PairInv'
  <2>1. PICK i \in Instances : /\ peer[i] = NoClient
                               /\ peer' = [peer EXCEPT ![i] = c]
                               /\ pipe' = [pipe EXCEPT ![c] = i]
    BY <1>5 DEF Connect
  <2>2. \A b \in Clients : pipe[b] # i
    BY <2>1, ServerAssumption DEF PairInv, PipesPair
  <2>3. QED
    BY <1>a, <2>1, <2>2 DEF PairInv, PipesPair, TypeOK
<1>6. ASSUME NEW c \in Clients, CallFails(c) \/ Leave(c)
      PROVE  PairInv'
  BY <1>6, <1>a, ServerAssumption DEF CallFails, Leave, PairInv, PipesPair, TypeOK
<1>7. QED
  BY <1>1, <1>2, <1>3, <1>4, <1>5, <1>6
  DEF Next, vars, AcceptStep, ConnectionStep, ClientStep, CreateFails, OnExpiry,
      CreateInstance, ConnectionOpened, StartThread, Read, Route, Write,
      ConnectionClosed, DeadlineReached, Call, ConnectFails, Send, Receive

(* No two clients ever hold the same pipe instance, and the engine's end   *)
(* of an instance belongs to the client at the other end.                  *)
THEOREM PipesArePaired == Spec => []PipesPair
<1>1. Init => PairInv
  BY TypeInit, ServerAssumption DEF Init, PairInv, PipesPair
<1>2. PairInv => PipesPair
  BY DEF PairInv
<1>3. QED
  BY <1>1, <1>2, PairNext, PTL DEF Spec
-----------------------------------------------------------------------------
(* RequestReply.                                                           *)

(* Where a thread is that has not taken a request yet.                     *)
Waiting == {"listening", "accepted", "counted", "reading"}

(* What lies in a client's pipe is told by where its call is.              *)
Matched(c) ==
  /\ app[c] \in {"gone", "connecting"} => pipe[c] = NoPipe
  /\ pipe[c] \in Instances =>
       \/ /\ app[c] \in {"idle", "sending"}
          /\ ~inbox[pipe[c]] /\ ~outbox[pipe[c]] /\ thread[pipe[c]] \in Waiting
       \/ /\ app[c] = "waiting"
          /\ inbox[pipe[c]] /\ ~outbox[pipe[c]] /\ thread[pipe[c]] \in Waiting
       \/ /\ app[c] = "waiting"
          /\ ~inbox[pipe[c]] /\ ~outbox[pipe[c]]
          /\ thread[pipe[c]] \in {"routing", "writing", "closing"}
       \/ /\ app[c] = "waiting"
          /\ ~inbox[pipe[c]] /\ outbox[pipe[c]] /\ thread[pipe[c]] = "reading"

(* An instance that nobody has, or that waits for a client, holds nothing. *)
Silent(i) ==
  /\ thread[i] = "listening" => ~outbox[i]
  /\ peer[i] = NoClient => ~inbox[i]
  /\ thread[i] \in {"free", "closed"} => peer[i] = NoClient /\ ~outbox[i]

ReplyInv == PairInv /\ (\A c \in Clients : Matched(c)) /\ (\A i \in Instances : Silent(i))

LEMMA ReplyInit == Init => ReplyInv
<1> SUFFICES ASSUME Init PROVE ReplyInv
  OBVIOUS
<1>1. PairInv
  BY TypeInit, ServerAssumption DEF Init, PairInv, PipesPair
<1>2. QED
  BY <1>1, ServerAssumption DEF Init, ReplyInv, Matched, Silent

(* What the watchdog does, and what a client does before it has a pipe,    *)
(* leaves all this as it is.                                               *)
LEMMA SameReplies ==
  ASSUME ReplyInv, PairInv', UNCHANGED <<thread, peer, inbox, outbox, app, pipe>>
  PROVE  ReplyInv'
BY DEF ReplyInv, Matched, Silent

(* One step of the thread of an instance, or of its client, concerns no    *)
(* other instance and no other client.                                     *)
LEMMA OthersMatched ==
  ASSUME ReplyInv, PairInv', NEW i \in Instances,
         \A j \in Instances \ {i} : /\ thread'[j] = thread[j] /\ peer'[j] = peer[j]
                                    /\ inbox'[j] = inbox[j] /\ outbox'[j] = outbox[j],
         \A c \in Clients : pipe[c] # i /\ pipe'[c] # i =>
                              app'[c] = app[c] /\ pipe'[c] = pipe[c],
         \A c \in Clients : pipe[c] = i \/ pipe'[c] = i => Matched(c)',
         Silent(i)'
  PROVE  ReplyInv'
<1>1. ASSUME NEW c \in Clients PROVE Matched(c)'
  BY <1>1 DEF ReplyInv, Matched
<1>2. ASSUME NEW j \in Instances PROVE Silent(j)'
  BY <1>2 DEF ReplyInv, Silent
<1> QED BY <1>1, <1>2 DEF ReplyInv

LEMMA ReplyNext == ReplyInv /\ [Next]_vars => ReplyInv'
<1> SUFFICES ASSUME ReplyInv, [Next]_vars PROVE ReplyInv'
  OBVIOUS
<1> USE DEF watchdogVars, serverVars, clientVars
<1>a. PairInv' /\ TypeOK /\ TypeOK' /\ PipesPair
  BY PairNext, TypeNext DEF ReplyInv, PairInv
<1>1. CASE CreateInstance
  <2>1. PICK i \in Instances : thread[i] = "free" /\ thread' = [thread EXCEPT ![i] = "listening"]
    BY <1>1 DEF CreateInstance
  <2>2. \A c \in Clients : pipe[c] # i
    BY <2>1 DEF ReplyInv, Matched, Waiting
  <2> QED BY <1>1, <1>a, <2>1, <2>2, OthersMatched DEF CreateInstance, ReplyInv, Silent, TypeOK
<1>2. ASSUME NEW i \in Instances, WaitForClient(i) PROVE ReplyInv'
  <2>1. CASE thread' = [thread EXCEPT ![i] = "accepted"] /\ UNCHANGED <<peer, inbox>>
    BY <1>2, <1>a, <2>1, OthersMatched
    DEF WaitForClient, ReplyInv, Matched, Silent, TypeOK, Waiting
  <2>2. CASE /\ ~ClientEndOpen(i) /\ thread' = [thread EXCEPT ![i] = "free"]
             /\ peer' = [peer EXCEPT ![i] = NoClient] /\ inbox' = [inbox EXCEPT ![i] = FALSE]
    <3>1. \A c \in Clients : pipe[c] # i
      BY <1>a, <2>2 DEF PipesPair, ClientEndOpen
    <3> QED BY ZenonT(40), <1>2, <1>a, <2>2, <3>1, OthersMatched DEF WaitForClient, ReplyInv, Silent, TypeOK
  <2> QED BY <1>2, <2>1, <2>2 DEF WaitForClient
<1>3. ASSUME NEW i \in Instances, ConnectionOpened(i) \/ StartThread(i) \/ Route(i)
      PROVE  ReplyInv'
  BY <1>3, <1>a, OthersMatched
  DEF ConnectionOpened, StartThread, Route, ReplyInv, Matched, Silent, TypeOK, Waiting
<1>4. ASSUME NEW i \in Instances, Read(i) PROVE ReplyInv'
  <2>1. CASE /\ inbox[i] /\ inbox' = [inbox EXCEPT ![i] = FALSE]
             /\ thread' = [thread EXCEPT ![i] = "routing"]
    BY <1>4, <1>a, <2>1, OthersMatched
    DEF Read, ReplyInv, Matched, Silent, TypeOK, Waiting
  <2>2. CASE ~inbox[i] /\ ~ClientEndOpen(i) /\ thread' = [thread EXCEPT ![i] = "closing"] /\ UNCHANGED inbox
    <3>1. \A c \in Clients : pipe[c] # i
      BY <1>a, <2>2 DEF PipesPair, ClientEndOpen
    <3> QED BY <1>4, <1>a, <2>2, <3>1, OthersMatched DEF Read, ReplyInv, Silent, TypeOK
  <2> QED BY <1>4, <2>1, <2>2 DEF Read
<1>5. ASSUME NEW i \in Instances, Write(i) PROVE ReplyInv'
  BY <1>5, <1>a, OthersMatched
  DEF Write, ReplyInv, Matched, Silent, TypeOK, Waiting
<1>6. ASSUME NEW i \in Instances, Disconnect(i) PROVE ReplyInv'
  <2>1. \A c \in Clients : pipe'[c] # i /\ (pipe[c] # i => pipe'[c] = pipe[c])
    BY <1>6, <1>a, ServerAssumption DEF Disconnect, TypeOK
  <2>2. \A c \in Clients : pipe[c] = i => app[c] = "waiting" /\ pipe'[c] = Broken
    BY <1>6 DEF Disconnect, ReplyInv, Matched, Waiting
  <2> QED BY <1>6, <1>a, <2>1, <2>2, ServerAssumption, OthersMatched
          DEF Disconnect, ReplyInv, Matched, Silent, TypeOK
<1>7. ASSUME NEW i \in Instances, ConnectionClosed(i) PROVE ReplyInv'
  <2>1. \A c \in Clients : pipe[c] # i
    BY <1>7 DEF ConnectionClosed, ReplyInv, Matched, Waiting
  <2> QED BY <1>7, <1>a, <2>1, OthersMatched DEF ConnectionClosed, ReplyInv, Silent, TypeOK
<1>8. CASE CreateFails \/ OnExpiry
  <2>1. Exit
    BY <1>8 DEF CreateFails, OnExpiry
  <2>2. \A c \in Clients : pipe'[c] \notin Instances /\ (pipe[c] = NoPipe => pipe'[c] = NoPipe)
    BY <1>a, <2>1, ServerAssumption DEF Exit, TypeOK
  <2> QED BY <1>a, <2>1, <2>2 DEF Exit, ReplyInv, Matched, Silent
<1>9. ASSUME NEW d \in pending, DeadlineReached(d) PROVE ReplyInv'
  BY <1>9, <1>a, SameReplies DEF DeadlineReached
<1>10. ASSUME NEW c \in Clients, Call(c) \/ ConnectFails(c) \/ CallFails(c) \/ Leave(c)
       PROVE  ReplyInv'
  <2>1. \A b \in Clients : Matched(b)'
    BY <1>10, <1>a, ServerAssumption
    DEF Call, ConnectFails, CallFails, Leave, ReplyInv, Matched, TypeOK
  <2> QED BY <1>10, <1>a, <2>1 DEF Call, ConnectFails, CallFails, Leave, ReplyInv, Silent
<1>11. ASSUME NEW c \in Clients, Connect(c) PROVE ReplyInv'
  <2>1. PICK i \in Instances : /\ thread[i] = "listening" /\ peer[i] = NoClient
                               /\ peer' = [peer EXCEPT ![i] = c]
                               /\ pipe' = [pipe EXCEPT ![c] = i]
    BY <1>11 DEF Connect
  <2>2. \A b \in Clients : pipe[b] # i
    BY <1>a, <2>1, ServerAssumption DEF PipesPair
  <2>3. ~inbox[i] /\ ~outbox[i]
    BY <2>1 DEF ReplyInv, Silent
  <2>4. /\ app[c] = "connecting" /\ pipe[c] = NoPipe /\ app' = [app EXCEPT ![c] = "sending"]
        /\ UNCHANGED <<thread, inbox, outbox>>
    BY <1>11 DEF Connect, ReplyInv, Matched
  <2>5. Matched(c)'
    BY <1>a, <2>1, <2>3, <2>4 DEF Matched, TypeOK, Waiting
  <2> QED BY <1>a, <2>1, <2>2, <2>3, <2>4, <2>5, ServerAssumption, OthersMatched
          DEF ReplyInv, Silent, TypeOK
<1>12. ASSUME NEW c \in Clients, Send(c) \/ Receive(c) PROVE ReplyInv'
  <2> DEFINE i == pipe[c]
  <2>1. i \in Instances /\ peer[i] = c /\ \A b \in Clients \ {c} : pipe[b] # i
    BY <1>12, <1>a DEF Send, Receive, PipesPair
  <2>2. Matched(c)'
    BY <1>12, <1>a, <2>1 DEF Send, Receive, ReplyInv, Matched, TypeOK, Waiting
  <2>3. Silent(i)'
    BY <1>12, <1>a, <2>1, ServerAssumption DEF Send, Receive, ReplyInv, Silent, TypeOK
  <2> QED BY <1>12, <1>a, <2>1, <2>2, <2>3, OthersMatched DEF Send, Receive, TypeOK
<1>13. CASE UNCHANGED vars
  BY <1>13, <1>a, SameReplies DEF vars
<1> QED
  BY <1>1, <1>2, <1>3, <1>4, <1>5, <1>6, <1>7, <1>8, <1>9, <1>10, <1>11, <1>12, <1>13
  DEF Next, AcceptStep, ConnectionStep, ClientStep

(* The call of a client whose pipe holds what it held is where it was.     *)
LEMMA SameCall ==
  ASSUME NEW c \in Clients, app'[c] = app[c], pipe'[c] = pipe[c],
         pipe[c] \in Instances => /\ Served(pipe[c])' <=> Served(pipe[c])
                                  /\ GivenUp(pipe[c])' <=> GivenUp(pipe[c])
  PROVE  CallOf(c)' = CallOf(c)
<1>1. CASE pipe[c] \in Instances
  <2>1. (Served(pipe[c])' <=> Served(pipe[c])) /\ (GivenUp(pipe[c])' <=> GivenUp(pipe[c]))
    BY <1>1
  <2> QED BY <1>1, <2>1 DEF CallOf
<1>2. CASE pipe[c] \notin Instances
  BY <1>2 DEF CallOf
<1> QED BY <1>1, <1>2

(* A step that moves the call of one client is a Move of RequestReply.     *)
LEMMA OneMoves ==
  ASSUME NEW c \in Clients, NEW from, NEW to,
         \A b \in Clients \ {c} : CallOf(b)' = CallOf(b),
         CallOf(c) \in from, CallOf(c)' = to
  PROVE  RequestReply!Move(c, from, to)
BY DEF RequestReply!Move

(* A step that breaks some connections is a Break.                         *)
LEMMA SomeBreak ==
  ASSUME \A c \in Clients : \/ CallOf(c)' = CallOf(c)
                            \/ CallOf(c) \in {"sent", "served"} /\ CallOf(c)' = "lost"
  PROVE  RequestReply!Break
<1> DEFINE broken == {c \in Clients : CallOf(c)' # CallOf(c)}
           calls  == [c \in Clients |-> CallOf(c)]
<1>1. broken \in SUBSET {c \in Clients : calls[c] \in {"sent", "served"}}
  OBVIOUS
<1>2. calls' = [c \in Clients |-> IF c \in broken THEN "lost" ELSE calls[c]]
  OBVIOUS
<1> QED BY <1>1, <1>2 DEF RequestReply!Break

(* What becomes of the calls in a step of the thread of an instance: the   *)
(* instance is that of one client at most.                                 *)
LEMMA OthersCalls ==
  ASSUME NEW i \in Instances, UNCHANGED <<app, pipe>>,
         \A j \in Instances \ {i} : thread'[j] = thread[j] /\ outbox'[j] = outbox[j]
  PROVE  \A c \in Clients : pipe[c] # i => CallOf(c)' = CallOf(c)
BY SameCall DEF Served, GivenUp

LEMMA ReplyInitial ==
  ASSUME Init PROVE RequestReply!Init
<1>1. \A c \in Clients : CallOf(c) = "none"
  BY DEF Init, CallOf
<1> QED BY <1>1 DEF RequestReply!Init

(* Every step of the engine, and of a client, is one of RequestReply: the  *)
(* request is done where the main actor routes it, and whatever takes a    *)
(* pipe away from a client that waits is a Break.                          *)
LEMMA ReplyStep ==
  ASSUME ReplyInv, [Next]_vars
  PROVE  [RequestReply!Next]_([c \in Clients |-> CallOf(c)])
<1> USE DEF watchdogVars, serverVars, clientVars
<1> DEFINE calls == [c \in Clients |-> CallOf(c)]
<1>a. TypeOK /\ TypeOK' /\ PipesPair /\ (\A c \in Clients : Matched(c))
  BY TypeNext DEF ReplyInv, PairInv
<1>b. ASSUME \A c \in Clients : CallOf(c)' = CallOf(c) PROVE UNCHANGED calls
  BY <1>b
<1>c. ASSUME NEW i \in Instances, UNCHANGED <<app, pipe>>,
             \A j \in Instances \ {i} : thread'[j] = thread[j] /\ outbox'[j] = outbox[j],
             \A c \in Clients : pipe[c] # i
      PROVE  UNCHANGED calls
  BY <1>b, <1>c, OthersCalls
<1>d. ASSUME NEW c \in Clients, NEW i \in Instances, UNCHANGED <<app, pipe>>, pipe[c] = i,
             \A j \in Instances \ {i} : thread'[j] = thread[j] /\ outbox'[j] = outbox[j]
      PROVE  \A b \in Clients \ {c} : CallOf(b)' = CallOf(b)
  <2>1. \A b \in Clients \ {c} : pipe[b] # i
    BY <1>a, <1>d DEF PipesPair
  <2> QED BY <1>d, <2>1, OthersCalls
<1>1. CASE CreateInstance
  <2>1. PICK i \in Instances : thread[i] = "free" /\ thread' = [thread EXCEPT ![i] = "listening"]
    BY <1>1 DEF CreateInstance
  <2>2. \A c \in Clients : pipe[c] # i
    BY <1>a, <2>1 DEF Matched, Waiting
  <2> QED BY <1>1, <1>a, <1>c, <2>1, <2>2 DEF CreateInstance, TypeOK
<1>2. ASSUME NEW i \in Instances,
             WaitForClient(i) \/ ConnectionOpened(i) \/ StartThread(i) \/ Read(i)
      PROVE  UNCHANGED calls
  <2>1. /\ UNCHANGED <<app, pipe, outbox>>
        /\ thread' \in {[thread EXCEPT ![i] = s] :
                          s \in {"accepted", "free", "counted", "reading", "routing", "closing"}}
        /\ thread[i] # "writing"
    BY <1>2 DEF WaitForClient, ConnectionOpened, StartThread, Read
  <2>2. \A c \in Clients : pipe[c] = i =>
          ~(thread[i] = "closing") /\ ~(thread'[i] = "closing")
    BY <1>2, <1>a
    DEF WaitForClient, ConnectionOpened, StartThread, Read, ClientEndOpen, PipesPair, TypeOK
  <2>3. ASSUME NEW c \in Clients PROVE CallOf(c)' = CallOf(c)
    BY <1>a, <2>1, <2>2, <2>3, SameCall DEF Served, GivenUp, TypeOK
  <2> QED BY <1>b, <2>3
<1>3. ASSUME NEW i \in Instances, Route(i)
      PROVE  [RequestReply!Next]_calls
  <2>1. /\ UNCHANGED <<app, pipe, outbox>> /\ thread[i] = "routing"
        /\ thread' = [thread EXCEPT ![i] = "writing"]
    BY <1>3 DEF Route
  <2>2. CASE \E c \in Clients : pipe[c] = i
    <3>1. PICK c \in Clients : pipe[c] = i
      BY <2>2
    <3>2. CallOf(c) = "sent"
      BY <1>a, <2>1, <3>1 DEF Matched, Waiting, CallOf, Served, GivenUp
    <3>3. CallOf(c)' = "served"
      BY <1>a, <2>1, <3>1 DEF Matched, Waiting, CallOf, Served, TypeOK
    <3>4. RequestReply!Serve(c)
      BY <1>a, <1>d, <2>1, <3>1, <3>2, <3>3, OneMoves DEF RequestReply!Serve, TypeOK
    <3> QED BY <3>4 DEF RequestReply!Next
  <2>3. CASE \A c \in Clients : pipe[c] # i
    BY <1>a, <1>c, <2>1, <2>3 DEF TypeOK
  <2> QED BY <2>2, <2>3
<1>4. ASSUME NEW i \in Instances, Write(i)
      PROVE  [RequestReply!Next]_calls
  <2>1. CASE outbox' = [outbox EXCEPT ![i] = TRUE] /\ thread' = [thread EXCEPT ![i] = "reading"]
    <3>1. ASSUME NEW c \in Clients PROVE CallOf(c)' = CallOf(c)
      BY <1>4, <1>a, <2>1, SameCall DEF Write, Served, GivenUp, TypeOK
    <3> QED BY <1>b, <3>1
  <2>2. CASE thread' = [thread EXCEPT ![i] = "closing"] /\ UNCHANGED outbox
    <3>1. ASSUME NEW c \in Clients, pipe[c] = i
          PROVE  CallOf(c) = "served" /\ CallOf(c)' = "lost"
      BY <1>4, <1>a, <2>2, <3>1 DEF Write, Matched, Waiting, CallOf, Served, GivenUp, TypeOK
    <3>2. ASSUME NEW c \in Clients, pipe[c] # i PROVE CallOf(c)' = CallOf(c)
      BY <1>4, <1>a, <2>2, <3>2, OthersCalls DEF Write, TypeOK
    <3>3. RequestReply!Break
      BY <3>1, <3>2, SomeBreak
    <3> QED BY <3>3 DEF RequestReply!Next
  <2> QED BY <1>4, <2>1, <2>2 DEF Write
<1>5. ASSUME NEW i \in Instances, Disconnect(i)
      PROVE  UNCHANGED calls
  <2>1. /\ thread[i] = "closing" /\ UNCHANGED app
        /\ thread' = [thread EXCEPT ![i] = "closed"] /\ outbox' = [outbox EXCEPT ![i] = FALSE]
        /\ pipe' = [c \in Clients |-> IF pipe[c] = i THEN Broken ELSE pipe[c]]
    BY <1>5 DEF Disconnect
  <2>2. ASSUME NEW c \in Clients, pipe[c] = i PROVE CallOf(c)' = CallOf(c)
    <3>1. app[c] = "waiting" /\ ~outbox[i]
      BY <1>a, <2>1, <2>2 DEF Matched, Waiting
    <3>2. CallOf(c) = "lost"
      BY <2>1, <2>2, <3>1 DEF CallOf, Served, GivenUp
    <3>3. app'[c] = "waiting" /\ pipe'[c] \notin Instances
      BY <2>1, <2>2, <3>1, ServerAssumption
    <3>4. CallOf(c)' = "lost"
      BY <3>3 DEF CallOf
    <3> QED BY <3>2, <3>4
  <2>3. ASSUME NEW c \in Clients, pipe[c] # i PROVE CallOf(c)' = CallOf(c)
    BY <1>a, <2>1, <2>3, SameCall DEF Served, GivenUp, TypeOK
  <2> QED BY <1>b, <2>2, <2>3
<1>6. ASSUME NEW i \in Instances, ConnectionClosed(i)
      PROVE  UNCHANGED calls
  <2>1. \A c \in Clients : pipe[c] # i
    BY <1>6, <1>a DEF ConnectionClosed, Matched, Waiting
  <2> QED BY <1>6, <1>a, <1>c, <2>1 DEF ConnectionClosed, TypeOK
<1>7. CASE Exit
  <2>1. /\ UNCHANGED app
        /\ pipe' = [c \in Clients |-> IF pipe[c] \in Instances THEN Broken ELSE pipe[c]]
    BY <1>7 DEF Exit
  <2>2. ASSUME NEW c \in Clients
        PROVE  \/ CallOf(c)' = CallOf(c)
               \/ CallOf(c) \in {"sent", "served"} /\ CallOf(c)' = "lost"
    <3>1. pipe'[c] \notin Instances /\ app'[c] = app[c]
      BY <2>1, ServerAssumption
    <3>2. CASE app[c] = "waiting"
      <4>1. CallOf(c)' = "lost"
        BY <3>1, <3>2 DEF CallOf
      <4>2. CallOf(c) \in {"sent", "served", "lost"}
        BY <3>2 DEF CallOf
      <4> QED BY <4>1, <4>2
    <3>3. CASE app[c] # "waiting"
      BY <1>a, <3>1, <3>3 DEF CallOf, TypeOK
    <3> QED BY <3>2, <3>3
  <2> QED BY <2>2, SomeBreak DEF RequestReply!Next
<1>8. ASSUME NEW c \in Clients,
             Call(c) \/ Connect(c) \/ ConnectFails(c) \/ Send(c) \/ Receive(c)
               \/ CallFails(c) \/ Leave(c)
      PROVE  [RequestReply!Next]_calls
  <2>1. ASSUME NEW b \in Clients \ {c} PROVE CallOf(b)' = CallOf(b)
    <3>1. app'[b] = app[b] /\ pipe'[b] = pipe[b] /\ thread' = thread
      BY <1>8, <1>a, <2>1
      DEF Call, Connect, ConnectFails, Send, Receive, CallFails, Leave, TypeOK
    <3>2. pipe[b] \in Instances => outbox'[pipe[b]] = outbox[pipe[b]]
      BY <1>8, <1>a, <2>1
      DEF Call, Connect, ConnectFails, Send, Receive, CallFails, Leave, TypeOK, PipesPair
    <3> QED BY <3>1, <3>2, SameCall DEF Served, GivenUp
  <2>2. CASE Call(c)
    <3>1. app[c] = "idle" /\ app'[c] \in {"connecting", "sending"}
      BY <1>a, <2>2 DEF Call, TypeOK
    <3>2. CallOf(c) = "none" /\ CallOf(c)' = "begun"
      BY <3>1 DEF CallOf
    <3>3. RequestReply!Ask(c)
      BY <2>1, <3>2, OneMoves DEF RequestReply!Ask
    <3> QED BY <3>3 DEF RequestReply!Next
  <2>3. CASE Connect(c)
    <3>1. app[c] = "connecting" /\ app'[c] = "sending"
      BY <1>a, <2>3 DEF Connect, TypeOK
    <3>2. CallOf(c)' = CallOf(c)
      BY <3>1 DEF CallOf
    <3> QED BY <1>b, <2>1, <3>2
  <2>4. CASE ConnectFails(c) \/ CallFails(c)
    <3>1. /\ app'[c] = "idle"
          /\ \/ app[c] \in {"connecting", "sending"}
             \/ app[c] = "waiting" /\ pipe[c] = Broken
      BY <1>a, <2>4 DEF ConnectFails, CallFails, TypeOK
    <3>2. CallOf(c) \in {"begun", "lost"} /\ CallOf(c)' = "none"
      BY <3>1, ServerAssumption DEF CallOf
    <3>3. RequestReply!GiveUp(c)
      BY <2>1, <3>2, OneMoves DEF RequestReply!GiveUp
    <3> QED BY <3>3 DEF RequestReply!Next
  <2>5. CASE Send(c)
    <3>1. /\ app[c] = "sending" /\ app'[c] = "waiting" /\ pipe[c] \in Instances
          /\ UNCHANGED <<pipe, thread, outbox>>
      BY <1>a, <2>5 DEF Send, TypeOK
    <3>2. CallOf(c) = "begun"
      BY <3>1 DEF CallOf
    <3>3. CallOf(c)' = "sent"
      BY <1>a, <3>1 DEF Matched, Waiting, CallOf, Served, GivenUp
    <3>4. RequestReply!Send(c)
      BY <2>1, <3>2, <3>3, OneMoves DEF RequestReply!Send
    <3> QED BY <3>4 DEF RequestReply!Next
  <2>6. CASE Receive(c)
    <3>1. /\ app[c] = "waiting" /\ app'[c] = "idle" /\ pipe[c] \in Instances /\ outbox[pipe[c]]
      BY <1>a, <2>6 DEF Receive, TypeOK
    <3>2. CallOf(c) = "served" /\ CallOf(c)' = "none"
      BY <3>1 DEF CallOf, Served
    <3>3. RequestReply!Return(c)
      BY <2>1, <3>2, OneMoves DEF RequestReply!Return
    <3> QED BY <3>3 DEF RequestReply!Next
  <2>7. CASE Leave(c)
    <3>1. app'[c] = "gone"
      BY <1>a, <2>7 DEF Leave, TypeOK
    <3>2. CallOf(c) \in RequestReply!Stages /\ CallOf(c)' = "absent"
      BY <3>1 DEF CallOf, RequestReply!Stages
    <3>3. RequestReply!Leave(c)
      BY <2>1, <3>2, OneMoves DEF RequestReply!Leave
    <3> QED BY <3>3 DEF RequestReply!Next
  <2> QED BY <1>8, <2>2, <2>3, <2>4, <2>5, <2>6, <2>7
<1>9. ASSUME UNCHANGED <<thread, outbox, app, pipe>> PROVE UNCHANGED calls
  <2>1. ASSUME NEW c \in Clients PROVE CallOf(c)' = CallOf(c)
    BY <1>9, SameCall DEF Served, GivenUp
  <2> QED BY <1>b, <2>1
<1>10. ASSUME NEW d \in pending, DeadlineReached(d) PROVE UNCHANGED calls
  BY <1>9, <1>10 DEF DeadlineReached
<1>11. CASE UNCHANGED vars
  BY <1>9, <1>11 DEF vars
<1> QED
  BY <1>1, <1>2, <1>3, <1>4, <1>5, <1>6, <1>7, <1>8, <1>10, <1>11
  DEF Next, AcceptStep, ConnectionStep, ClientStep, CreateFails, OnExpiry

(* What an application asks the engine does at most once, and the reply    *)
(* that comes is to what was asked, however the accept loop, the threads   *)
(* of the connections, the watchdog and the applications interleave.       *)
THEOREM ImplementsRequestReply == Spec => RequestReplySpec
<1>1. ReplyInv /\ [Next]_vars => [RequestReply!Next]_([c \in Clients |-> CallOf(c)])
  BY ReplyStep
<1>2. Init => RequestReply!Init
  BY ReplyInitial
<1> QED BY <1>1, <1>2, ReplyInit, ReplyNext, PTL DEF Spec, RequestReplySpec, RequestReply!Spec
=============================================================================
