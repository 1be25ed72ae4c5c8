---------------------------- MODULE EngineClient -----------------------------
(***************************************************************************)
(* The clients of the conversion engine (OhageyEngineClient.cpp), one in   *)
(* each application, and the engine processes they launch: how a client    *)
(* finds the pipe or starts an engine, how one call goes out and its       *)
(* answer comes back over a pipe that may break at any moment, and how     *)
(* engines settle who owns the name of the pipe (PipeServer.swift,         *)
(* main.swift).                                                            *)
(*                                                                         *)
(* A call blocks its application's thread, so that a client has one call   *)
(* outstanding.  A frame is a record; what it says beyond its request id   *)
(* and its status is in Wire.  The idle watchdog is in EngineServer: here  *)
(* an engine may exit when nobody is connected, and may fail at any time.  *)
(***************************************************************************)
EXTENDS Integers, Sequences, FiniteSets

CONSTANTS
  Clients,        \* applications with a text service loaded
  Engines,        \* engine processes that may run at a time
  NoEngine,       \* INVALID_HANDLE_VALUE
  IdLimit,        \* 2^32 in the code: request ids wrap to 0
  Limits          \* bounds, one per scenario: see LimitType

ASSUME EngineClientAssumption ==
  NoEngine \notin Engines /\ IdLimit \in Nat /\ IdLimit > 1

\* The engines there may be at a time, and the calls each application makes.
LimitType == [engines : SUBSET Engines, calls : [Clients -> Nat]]

ASSUME LimitsAssumption == Limits \subseteq LimitType

VARIABLES
  limit,          \* the bounds of this scenario, never changed
  client,         \* see EngineClients
  engine,         \* see EngineProcesses
  gap             \* history: the name was free while an engine was serving

engineVars == <<limit, client, engine, gap>>

CallKinds   == {"convert", "commit"}
CallResults == {"Ok", "NotConnected", "WriteFailed", "ReadFailed", "BadResponse", "Status"}
StatusCodes == {"ok", "refused"}

EngineClients ==
  [at       : {"idle", "open", "busy", "appear", "write", "read", "done"},
   kind     : CallKinds,
   attempt  : 0..1,                       \* of Connect
   pipe     : Engines \union {NoEngine},  \* _pipe
   live     : BOOLEAN,                    \* the engine's end is still there
   nextId   : 0..(IdLimit - 1),           \* _nextRequestId
   id       : 0..(IdLimit - 1),           \* of the call under way
   sent     : Seq(0..(IdLimit - 1)),      \* requests in the pipe
   replies  : Seq([id : 0..(IdLimit - 1), status : StatusCodes]),
   status   : StatusCodes,                \* _lastStatus
   throttle : BOOLEAN,                    \* less than kLaunchThrottleMs ago
   calls    : Nat,
   \* history of the last call and of the connection
   result   : CallResults \union {"none"},
   truth    : StatusCodes,                \* what the engine said of it
   served   : 0..2,                       \* how often an engine served it
   losses   : 0..2]                       \* calls this connection has lost

NewClient ==
  [at |-> "idle", kind |-> "convert", attempt |-> 0, pipe |-> NoEngine, live |-> FALSE,
   nextId |-> 1, id |-> 0, sent |-> <<>>, replies |-> <<>>, status |-> "ok",
   throttle |-> FALSE, calls |-> 0, result |-> "none", truth |-> "ok",
   served |-> 0, losses |-> 0]

\* bound: connections of one engine that still have to notice.
MaxClosing == 1

EngineProcesses ==
  [stage   : {"absent", "loading", "serving"},
   free    : BOOLEAN,      \* an instance of the pipe waits for a client
   closing : 0..MaxClosing]           \* instances whose client has left

Serving  == {e \in Engines : engine[e].stage = "serving"}
Linked(e) == {c \in Clients : client[c].pipe = e /\ client[c].live}

\* The name exists as long as an engine has an instance of the pipe.
NameExists ==
  \E e \in Serving : engine[e].free \/ engine[e].closing > 0 \/ Linked(e) # {}

-----------------------------------------------------------------------------
(* The end of a connection, at either end.                                 *)

\* Disconnect: what is still in the pipe is nobody's.
Disconnect(k) == [k EXCEPT !.pipe = NoEngine, !.live = FALSE, !.sent = <<>>, !.replies = <<>>]

\* The engine's thread has its instance until it reads the end of the pipe.
LeftBy(c) ==
  LET e == client[c].pipe
  IN IF client[c].live THEN [engine EXCEPT ![e].closing = @ + 1] ELSE engine

MayLeave(c) == client[c].live => engine[client[c].pipe].closing < MaxClosing

Finish(k, result) == [k EXCEPT !.at = "done", !.result = result]

\* Mutant: the handle is kept.
LoseKeepingHandle(k, result) ==
  Finish([k EXCEPT !.losses = @ + 1], result)

\* A call that failed on an open connection.
Lose(k, result) == Finish([Disconnect(k) EXCEPT !.losses = @ + 1], result)

-----------------------------------------------------------------------------
(* The engine.                                                             *)

Running(e, stage) == engine[e].stage = stage

\* Mutant: the first instance is created like any other.
ClaimAnyway(e) ==
  /\ Running(e, "loading")
  /\ engine' = [engine EXCEPT ![e].stage = "serving", ![e].free = TRUE]
  /\ UNCHANGED client

(* The engine has loaded and creates the first instance of the pipe: where *)
(* there is one already, the process ends.                                 *)
Claim(e) ==
  /\ Running(e, "loading")
  /\ engine' = IF NameExists THEN [engine EXCEPT ![e].stage = "absent"]
               ELSE [engine EXCEPT ![e].stage = "serving", ![e].free = TRUE]
  /\ UNCHANGED client

\* The accept loop creates the next instance, whoever has the name by now.
CreatePipeInstance(e) ==
  /\ Running(e, "serving") /\ ~engine[e].free
  /\ engine' = [engine EXCEPT ![e].free = TRUE]
  /\ UNCHANGED client

\* A connection thread reads the end of the pipe and closes its instance.
CloseInstance(e) ==
  /\ Running(e, "serving") /\ engine[e].closing > 0
  /\ engine' = [engine EXCEPT ![e].closing = @ - 1]
  /\ UNCHANGED client

\* The router answers every request under its own id.
Respond(c, status) ==
  LET k == client[c]
  IN /\ k.live /\ k.sent # <<>>
     /\ client' = [client EXCEPT ![c] =
          [k EXCEPT !.sent = Tail(@),
                    !.replies = Append(@, [id |-> Head(k.sent), status |-> status]),
                    !.truth = status, !.served = IF @ < 2 THEN @ + 1 ELSE @]]
     /\ UNCHANGED engine

(* A request that does not decode, or a reply that does not encode: the    *)
(* connection is dropped.  A reply already written may or may not arrive.  *)
DropConnection(c) ==
  /\ client[c].live /\ client[c].at = "read"
  /\ client' = [client EXCEPT ![c].live = FALSE, ![c].sent = <<>>]
  /\ UNCHANGED engine

Cut(k, e, kept) ==
  IF k.pipe = e
  THEN [k EXCEPT !.live = FALSE, !.sent = <<>>, !.replies = IF kept THEN @ ELSE <<>>]
  ELSE k

Exit(e, kept) ==
  /\ engine' = [engine EXCEPT ![e].stage = "absent", ![e].free = FALSE, ![e].closing = 0]
  /\ client' = [c \in Clients |-> Cut(client[c], e, kept)]

\* The process ends: idle for its timeout, in Claim's place, or by a failure.
Crash(e) ==
  /\ engine[e].stage \in {"loading", "serving"}
  /\ \E kept \in BOOLEAN : Exit(e, kept)

-----------------------------------------------------------------------------
(* A client looks for the pipe.                                            *)

\* Without a process left to start, CreateProcessW fails.
Launchable == {e \in limit.engines : Running(e, "absent")}

(* LaunchEngine: at most one attempt in kLaunchThrottleMs, counted from    *)
(* the attempt.  The process starts, or it does not.                       *)
LaunchEngine(c, then, otherwise) ==
  IF client[c].throttle
  THEN client' = [client EXCEPT ![c] = otherwise] /\ UNCHANGED engine
  ELSE \/ /\ client' = [client EXCEPT ![c] = [otherwise EXCEPT !.throttle = TRUE]]
          /\ UNCHANGED engine
       \/ \E e \in Launchable :
            /\ engine' = [engine EXCEPT ![e].stage = "loading"]
            /\ client' = [client EXCEPT ![c] = [then EXCEPT !.throttle = TRUE]]

\* GetTickCount64 is kLaunchThrottleMs past the last launch.
ThrottleEnds(c) ==
  /\ client[c].throttle
  /\ client' = [client EXCEPT ![c].throttle = FALSE]
  /\ UNCHANGED engine

\* Warmup, at activation: nothing is waited for.
Warmup(c) ==
  /\ client[c].at = "idle"
  /\ client[c].pipe = NoEngine /\ ~NameExists
  /\ LaunchEngine(c, client[c], client[c])

\* A commit has its id before it has a connection, a conversion after.
Numbered(k) == [k EXCEPT !.id = k.nextId, !.nextId = (@ + 1) % IdLimit]

BeginCall(c, kind) ==
  LET k == [client[c] EXCEPT !.kind = kind, !.calls = @ + 1,
                             !.at = IF client[c].pipe = NoEngine THEN "open" ELSE "write"]
  IN /\ client[c].at = "idle" /\ client[c].calls < limit.calls[c]
     /\ client' = [client EXCEPT ![c] = IF kind = "commit" THEN Numbered(k) ELSE k]
     /\ UNCHANGED engine

Fail(c) == client' = [client EXCEPT ![c] = Finish(@, "NotConnected")]

\* CreateFileW: an instance that waits, of whatever engine.
OpenPipe(c, e) ==
  /\ client[c].at = "open" /\ Running(e, "serving") /\ engine[e].free
  /\ engine' = [engine EXCEPT ![e].free = FALSE]
  /\ client' = [client EXCEPT ![c] = [@ EXCEPT !.pipe = e, !.live = TRUE, !.at = "write",
                                               !.losses = 0]]

\* ERROR_PIPE_BUSY, between an accept and the next instance.
PipeBusy(c) ==
  /\ client[c].at = "open" /\ NameExists /\ \A e \in Serving : ~engine[e].free
  /\ client' = [client EXCEPT ![c].at = "busy"]
  /\ UNCHANGED engine

\* ERROR_FILE_NOT_FOUND: launch an engine, the first time.
PipeNotFound(c) ==
  LET k == client[c]
  IN /\ k.at = "open" /\ ~NameExists
     /\ IF k.attempt = 0
        THEN LaunchEngine(c, [k EXCEPT !.at = "appear"], Finish(k, "NotConnected"))
        ELSE Fail(c) /\ UNCHANGED engine

\* Both kinds of wait are followed by the second attempt, or by none.
Retry(k) ==
  IF k.attempt = 1 THEN Finish(k, "NotConnected")
                   ELSE [k EXCEPT !.at = "open", !.attempt = 1]

(* WaitNamedPipeW, for an instance to come free, or for the name to appear *)
(* at all; the latter's answer is not looked at.                           *)
WaitNamedPipe(c) ==
  LET k == client[c]
      appeared == \E e \in Serving : engine[e].free
  IN /\ k.at \in {"busy", "appear"}
     /\ client' = [client EXCEPT ![c] =
          IF k.at = "busy" /\ ~appeared THEN Finish(k, "NotConnected") ELSE Retry(k)]
     /\ UNCHANGED engine

-----------------------------------------------------------------------------
(* One call: Exchange, then ReadResponse.                                  *)

\* Mutant: a commit, whose result nobody reads, does not wait for it.
WriteAllOfCommit(c) ==
  LET k == IF client[c].kind = "convert" THEN Numbered(client[c]) ELSE client[c]
  IN /\ client[c].at = "write" /\ UNCHANGED engine
     /\ client' = [client EXCEPT ![c] =
          IF ~k.live THEN Lose(k, "WriteFailed")
          ELSE IF k.kind = "commit" THEN Finish([k EXCEPT !.sent = Append(@, k.id)], "Ok")
          ELSE [k EXCEPT !.sent = Append(@, k.id), !.at = "read"]]

\* A pipe whose other end is gone fails the write.
WriteAll(c) ==
  LET k == IF client[c].kind = "convert" THEN Numbered(client[c]) ELSE client[c]
  IN /\ client[c].at = "write" /\ UNCHANGED engine
     /\ client' = [client EXCEPT ![c] =
          IF ~k.live THEN Lose(k, "WriteFailed")
          ELSE [k EXCEPT !.sent = Append(@, k.id), !.at = "read"]]

\* Mutant: a call that got no answer is sent again.
ReadFailedAgain(c) ==
  /\ client[c].at = "read" /\ client[c].replies = <<>> /\ ~client[c].live
  /\ client' = [client EXCEPT ![c] = [Disconnect(@) EXCEPT !.at = "open", !.attempt = 0]]
  /\ UNCHANGED engine

ReadFailed(c) ==
  /\ client[c].at = "read" /\ client[c].replies = <<>> /\ ~client[c].live
  /\ client' = [client EXCEPT ![c] = Lose(@, "ReadFailed")]
  /\ UNCHANGED engine

\* Mutant: a status of success, which is not on the wire, changes nothing.
ParseStatusKeeps(k, reply) == IF reply.status = "ok" THEN k.status ELSE reply.status

\* The status starts as success, which is not on the wire.
ParseStatus(k, reply) == reply.status

(* ReadAll and the correlation: an id of 0 is not on the wire, and a reply *)
(* without one is as bad as a reply to something else.                     *)
ReadReply(c) ==
  LET k     == client[c]
      reply == Head(k.replies)
      read  == [k EXCEPT !.replies = Tail(@)]
      code  == ParseStatus(k, reply)
  IN /\ k.at = "read" /\ k.replies # <<>>
     /\ IF reply.id # 0 /\ reply.id = k.id
        THEN /\ client' = [client EXCEPT ![c] =
                  Finish([read EXCEPT !.status = code], IF code = "ok" THEN "Ok" ELSE "Status")]
             /\ UNCHANGED engine
        ELSE /\ MayLeave(c)
             /\ client' = [client EXCEPT ![c] = Lose(k, "BadResponse")]
             /\ engine' = LeftBy(c)

(* The call has returned; no more of it is left than _lastStatus.          *)
ReturnCall(c) ==
  /\ client[c].at = "done"
  /\ client' = [client EXCEPT ![c] =
       [@ EXCEPT !.at = "idle", !.kind = "convert", !.attempt = 0, !.id = 0,
                 !.result = "none", !.truth = "ok", !.served = 0]]
  /\ UNCHANGED engine

-----------------------------------------------------------------------------
(* The application.                                                        *)

\* ~EngineClient, or the end of the application, at any point of a call.
CloseClient(c) ==
  /\ client[c] # NewClient /\ MayLeave(c)
  /\ client' = [client EXCEPT ![c] = [NewClient EXCEPT !.calls = client[c].calls]]
  /\ engine' = LeftBy(c)

-----------------------------------------------------------------------------
EngineInit ==
  /\ limit \in Limits
  /\ client = [c \in Clients |-> NewClient]
  /\ engine = [e \in Engines |-> [stage |-> "absent", free |-> FALSE, closing |-> 0]]
  /\ gap = FALSE

EngineStep ==
  \E e \in Engines :
    \/ Claim(e) \/ CreatePipeInstance(e) \/ CloseInstance(e)
    \/ Crash(e)

PipeStep(c) ==
  \/ (\E status \in StatusCodes : Respond(c, status)) \/ DropConnection(c)
  \/ ThrottleEnds(c)
  \/ (\E e \in Engines : OpenPipe(c, e)) \/ PipeBusy(c) \/ PipeNotFound(c)
  \/ WaitNamedPipe(c)
  \/ WriteAll(c) \/ ReadFailed(c) \/ ReadReply(c) \/ ReturnCall(c)

\* What the applications but those in `mine` do, and the engines.
OthersStep(mine) ==
  \/ EngineStep
  \/ \E c \in Clients :
       \/ PipeStep(c)
       \/ c \notin mine /\ (Warmup(c) \/ CloseClient(c))
       \/ c \notin mine /\ \E kind \in CallKinds : BeginCall(c, kind)

\* No instance of the pipe, and an engine that thinks it has the name.
NoteGap == gap' = (gap \/ (Serving # {} /\ ~NameExists)') /\ UNCHANGED limit

EngineNext == OthersStep({}) /\ NoteGap

EngineSpec == EngineInit /\ [][EngineNext]_engineVars

-----------------------------------------------------------------------------
EngineTypeOK ==
  /\ limit \in Limits
  /\ client \in [Clients -> EngineClients]
  /\ engine \in [Engines -> EngineProcesses]
  /\ gap \in BOOLEAN

(* However many are launched, by clients that do not know of each other,   *)
(* one engine serves: unless the name was free while an engine served, as  *)
(* it is when a client has come and gone before the accept loop has made   *)
(* the next instance ("decision 0015 wants exactly one",                   *)
(* PipeServer.swift:174).                                                  *)
OneServer == ~gap => Cardinality(Serving) <= 1

(* A connection that is kept from one call to the next is in step: no      *)
(* answer to an earlier call is left in it.                                *)
KeptPipeIsClean ==
  \A c \in Clients : client[c].at \in {"idle", "done"} => client[c].sent = <<>> /\ client[c].replies = <<>>

(* An answer is only ever taken for another's when the id has wrapped to   *)
(* 0: a call gets its own answer or the connection breaks.                 *)
OwnAnswer == \A c \in Clients : client[c].result = "BadResponse" => client[c].id = 0

(* A call is reported as refused when, and only when, the engine refused   *)
(* this call: the status of an earlier one does not linger.                *)
StatusIsFresh ==
  \A c \in Clients :
    /\ client[c].result = "Ok"     => client[c].truth = "ok"
    /\ client[c].result = "Status" => client[c].truth = "refused"

(* No call is served twice, so that nothing is learned twice; one that     *)
(* returned a status was served, and one that never got out was not.       *)
ServedOnce ==
  \A c \in Clients :
    /\ client[c].served <= 1
    /\ client[c].result \in {"Ok", "Status"} => client[c].served = 1
    /\ client[c].result \in {"NotConnected", "WriteFailed"} => client[c].served = 0

(* A connection that broke costs one call, and the next finds its engine   *)
(* or another.                                                             *)
OneLoss == \A c \in Clients : client[c].losses <= 1

(* A call gets its own answer, once, or fails, once, and leaves nothing to *)
(* the next.                                                               *)
CallsAreAnswered == KeptPipeIsClean /\ OwnAnswer /\ StatusIsFresh /\ ServedOnce /\ OneLoss

-----------------------------------------------------------------------------
(* The calls as an application sees them (RequestReply).                   *)

\* A client that has not connected yet, however often it has tried.
Fresh(k) == k = [NewClient EXCEPT !.calls = k.calls, !.throttle = k.throttle]

CallStage(k) ==
  CASE k.at \in {"idle", "done"}                      -> IF Fresh(k) THEN "absent" ELSE "none"
    [] k.at \in {"open", "busy", "appear", "write"}   -> "begun"
    [] k.at = "read" /\ k.sent # <<>>                 -> "sent"
    [] k.at = "read" /\ k.sent = <<>> /\ k.replies # <<>> -> "served"
    [] OTHER                                          -> "lost"

RequestReply == INSTANCE RequestReply
                WITH Callers <- Clients, call <- [c \in Clients |-> CallStage(client[c])]

(* What an application asks is done at most once, by one engine, and a     *)
(* reply is to what was asked, however engines are launched, end and fail  *)
(* and clients come and go: each step is one that RequestReply allows, or  *)
(* none.                                                                   *)
RequestReplySpec == RequestReply!Spec
=============================================================================
