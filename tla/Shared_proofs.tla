---------------------------- MODULE Shared_proofs ----------------------------
(***************************************************************************)
(* Theorems about what the text service shares: with the engine's other    *)
(* clients, and with whoever else is in its process.                       *)
(*                                                                         *)
(* The engine: EngineClient, for any number of applications, engines and   *)
(* calls, and for request ids of any width: a call gets its own answer or  *)
(* fails, once, and one engine serves.  And Conversion, for files of any   *)
(* length: what an engine answers from is what is in the file.  What a     *)
(* client and its pipe hold is told by where its call is (Sound), and no   *)
(* step of another client or of an engine makes it otherwise; the numbers  *)
(* it keeps are within their bounds (Fielded).                             *)
(*                                                                         *)
(* What the module is to others: ModuleServer, for any number of threads,  *)
(* and of factories built one after the other; Registration, for any       *)
(* categories and whatever calls fail; and Enumeration, for lists and      *)
(* ULONGs of any size.  The reference count is tied to what the threads    *)
(* hold (CountInv), the factory to what was built and freed before it      *)
(* (BuildInv), and whoever frees it to there being nobody who holds        *)
(* anything (AloneInv).  What stays in the registry is stuck there by a    *)
(* removal that failed (Stuck); a list is numbered and each enumerator has *)
(* been through its items in turn (EnumInv).                               *)
(*                                                                         *)
(* And the input modes: Compartments, whatever order the callbacks         *)
(* interrupt each other in, end, agree, and leave the last wish as it was. *)
(* The stack of callbacks has one shape.  At its bottom is the callback of *)
(* the conversion mode, or on the callback of the one mode that was        *)
(* written to from outside; this is its root.  On it can be the callback   *)
(* of a mode the root has set; on this, where TSF lets it write, one more  *)
(* of the conversion mode, and on that only the keyboard's (Stacked).      *)
(* Once the root is there, what it read is what everything settles to      *)
(* (Settling): the modes it has looked at say so already, and so does the  *)
(* conversion mode, but for the punctuation, which a callback of the width *)
(* makes follow a flag the root is about to set.  The root's reading is    *)
(* what was asked for (WishInSight).                                       *)
(***************************************************************************)
EXTENDS EngineClient, Conversion, ModuleServer, Registration, Enumeration,
        Compartments, FiniteSetTheorems, SequenceTheorems, TLAPS

-----------------------------------------------------------------------------
(* The invariant of a client.                                              *)

ClientFields ==
  {"at", "kind", "attempt", "pipe", "live", "nextId", "id", "sent", "replies", "status",
   "throttle", "calls", "result", "truth", "served", "losses"}

IsClient(k) == k = [f \in ClientFields |-> k[f]]

(* A request is in the pipe, or the answer to it, while it is waited for.  *)
PipeHolds(k) ==
  \/ k.sent = <<>> /\ k.replies = <<>>
  \/ /\ k.at = "read" /\ k.served = 0
     /\ k.sent = <<k.id>> /\ k.replies = <<>>
  \/ /\ k.at = "read" /\ k.served = 1
     /\ k.sent = <<>> /\ k.replies = <<[id |-> k.id, status |-> k.truth]>>

PipeClean(k) == k.sent = <<>> /\ k.replies = <<>>

(* What the call has come to so far.                                       *)
Truthful(k) ==
  /\ k.at # "done" => k.result = "none"
  /\ k.at \notin {"read", "done"} => k.served = 0
  /\ k.at # "read" => PipeClean(k)
  /\ k.served \in {0, 1}
  /\ k.truth \in StatusCodes
  /\ k.result = "Ok" => k.served = 1 /\ k.truth = "ok"
  /\ k.result = "Status" => k.served = 1 /\ k.truth = "refused"
  /\ k.result \in {"NotConnected", "WriteFailed"} => k.served = 0
  /\ k.result = "BadResponse" => k.id = 0

(* A connection is dropped with the first call it loses.                   *)
LosesOnce(k) ==
  /\ k.losses \in {0, 1}
  /\ k.pipe # NoEngine => k.losses = 0
  /\ k.at \in {"write", "read"} => k.pipe # NoEngine

Sound(k) == IsClient(k) /\ PipeHolds(k) /\ Truthful(k) /\ LosesOnce(k)

CallInv == /\ client = [c \in Clients |-> client[c]]
           /\ \A c \in Clients : Sound(client[c])

LEMMA NewIsSound ==
  ASSUME NEW k, k = NewClient \/ \E n : k = [NewClient EXCEPT !.calls = n] PROVE Sound(k)
<1>1. IsClient(k)
  BY DEF IsClient, ClientFields, NewClient
<1>2. /\ k.at = "idle" /\ k.sent = <<>> /\ k.replies = <<>> /\ k.served = 0
      /\ k.result = "none" /\ k.truth = "ok" /\ k.losses = 0 /\ k.pipe = NoEngine
  BY DEF NewClient
<1> QED BY <1>1, <1>2 DEF Sound, PipeHolds, Truthful, LosesOnce, PipeClean, StatusCodes

LEMMA OneClient ==
  ASSUME CallInv, NEW c \in Clients, NEW k, Sound(k), client' = [client EXCEPT ![c] = k]
  PROVE  CallInv'
BY DEF CallInv

LEMMA SameClients == ASSUME CallInv, client' = client PROVE CallInv'
BY DEF CallInv

-----------------------------------------------------------------------------
(* Each step of a client keeps it sound.                                   *)

LEMMA NumberedIsSound ==
  ASSUME NEW k, Sound(k), k.at \notin {"read", "done"} PROVE Sound(Numbered(k))
BY DEF Sound, IsClient, ClientFields, PipeHolds, Truthful, LosesOnce, PipeClean, Numbered

LEMMA NotConnectedIsSound ==
  ASSUME NEW k, Sound(k), k.at \in {"open", "busy", "appear"}
  PROVE  Sound(Finish(k, "NotConnected"))
BY DEF Sound, IsClient, ClientFields, PipeHolds, Truthful, LosesOnce, PipeClean, Finish

LEMMA LostIsSound ==
  ASSUME NEW k, Sound(k), NEW result \in {"WriteFailed", "ReadFailed", "BadResponse"},
         k.at \in {"write", "read"},
         result = "WriteFailed" => k.at = "write", result = "BadResponse" => k.id = 0
  PROVE  Sound(Lose(k, result))
<1> DEFINE lost == Lose(k, result)
<1>1. /\ lost.at = "done" /\ lost.result = result /\ lost.losses = 1 /\ lost.pipe = NoEngine
      /\ lost.sent = <<>> /\ lost.replies = <<>>
      /\ lost.served = k.served /\ lost.truth = k.truth /\ lost.id = k.id
  BY DEF Lose, Finish, Disconnect, Sound, IsClient, ClientFields, LosesOnce
<1>2. IsClient(lost)
  BY DEF Lose, Finish, Disconnect, Sound, IsClient, ClientFields
<1>3. Sound(lost)
  <2> HIDE DEF lost
  <2> QED BY <1>1, <1>2 DEF Sound, PipeHolds, Truthful, LosesOnce, PipeClean
<1> QED BY <1>3

(* Looking for the pipe moves a call between these places only.            *)
LEMMA MovedIsSound ==
  ASSUME NEW k, Sound(k), k.at \in {"open", "busy", "appear"}
  PROVE  /\ \A at \in {"open", "busy", "appear"} :
              Sound([k EXCEPT !.at = at]) /\ Sound([k EXCEPT !.at = at, !.attempt = 1])
         /\ \A e \in Engines :
              Sound([k EXCEPT !.pipe = e, !.live = TRUE, !.at = "write", !.losses = 0])
<1>1. ASSUME NEW at \in {"open", "busy", "appear"} PROVE Sound([k EXCEPT !.at = at])
  BY DEF Sound, IsClient, ClientFields, PipeHolds, Truthful, LosesOnce, PipeClean
<1>2. ASSUME NEW at \in {"open", "busy", "appear"}
      PROVE  Sound([k EXCEPT !.at = at, !.attempt = 1])
  BY DEF Sound, IsClient, ClientFields, PipeHolds, Truthful, LosesOnce, PipeClean
<1>3. ASSUME NEW e \in Engines
      PROVE  Sound([k EXCEPT !.pipe = e, !.live = TRUE, !.at = "write", !.losses = 0])
  <2> DEFINE m == [k EXCEPT !.pipe = e, !.live = TRUE, !.at = "write", !.losses = 0]
  <2>1. IsClient(m)
    BY DEF Sound, IsClient, ClientFields
  <2>2. /\ m.at = "write" /\ m.losses = 0 /\ m.pipe = e
        /\ m.sent = k.sent /\ m.replies = k.replies /\ m.result = k.result
        /\ m.served = k.served /\ m.truth = k.truth /\ m.id = k.id
    BY DEF Sound, IsClient, ClientFields
  <2>3. e # NoEngine
    BY EngineClientAssumption
  <2>4. Sound(m)
    <3> HIDE DEF m
    <3> QED BY <2>1, <2>2, <2>3 DEF Sound, PipeHolds, Truthful, LosesOnce, PipeClean
  <2> QED BY <2>4
<1> QED BY <1>1, <1>2, <1>3

LEMMA ThrottleIsSound ==
  ASSUME NEW k, Sound(k), NEW b PROVE Sound([k EXCEPT !.throttle = b])
BY DEF Sound, IsClient, ClientFields, PipeHolds, Truthful, LosesOnce, PipeClean

LEMMA LaunchSound ==
  ASSUME CallInv, NEW c \in Clients, NEW then, NEW otherwise, Sound(then), Sound(otherwise),
         LaunchEngine(c, then, otherwise)
  PROVE  CallInv'
<1>1. CASE client[c].throttle
  BY <1>1, OneClient DEF LaunchEngine
<1>2. CASE client' = [client EXCEPT ![c] = [otherwise EXCEPT !.throttle = TRUE]]
  BY <1>2, OneClient, ThrottleIsSound
<1>3. CASE client' = [client EXCEPT ![c] = [then EXCEPT !.throttle = TRUE]]
  BY <1>3, OneClient, ThrottleIsSound
<1> QED BY <1>1, <1>2, <1>3 DEF LaunchEngine

LEMMA BeginSound ==
  ASSUME CallInv, NEW c \in Clients, NEW kind, BeginCall(c, kind) PROVE CallInv'
<1> DEFINE k == [client[c] EXCEPT !.kind = kind, !.calls = @ + 1,
                    !.at = IF client[c].pipe = NoEngine THEN "open" ELSE "write"]
<1>1. Sound(client[c]) /\ client[c].at = "idle"
  BY DEF CallInv, BeginCall
<1>2. Sound(k) /\ k.at \notin {"read", "done"}
  BY <1>1 DEF Sound, IsClient, ClientFields, PipeHolds, Truthful, LosesOnce, PipeClean
<1>3. Sound(Numbered(k))
  BY <1>2, NumberedIsSound
<1>4. client' = [client EXCEPT ![c] = IF kind = "commit" THEN Numbered(k) ELSE k]
  BY DEF BeginCall
<1> QED BY <1>2, <1>3, <1>4, OneClient

LEMMA WriteSound ==
  ASSUME CallInv, NEW c \in Clients, WriteAll(c) PROVE CallInv'
<1> DEFINE k == IF client[c].kind = "convert" THEN Numbered(client[c]) ELSE client[c]
           asked == [k EXCEPT !.sent = Append(@, k.id), !.at = "read"]
<1>1. Sound(client[c]) /\ client[c].at = "write"
  BY DEF CallInv, WriteAll
<1>2. Sound(k) /\ k.at = "write"
  BY <1>1, NumberedIsSound DEF Numbered, Sound, IsClient, ClientFields
<1>3. Sound(Lose(k, "WriteFailed"))
  BY <1>2, LostIsSound
<1>4. k.sent = <<>> /\ Append(k.sent, k.id) = <<k.id>>
  <2> HIDE DEF k
  <2>1. k.sent = <<>>
    BY <1>2 DEF Sound, Truthful, PipeClean
  <2> QED BY <2>1
<1>5. Sound(asked)
  <2> HIDE DEF k
  <2> QED BY <1>2, <1>4
     DEF Sound, IsClient, ClientFields, PipeHolds, Truthful, LosesOnce, PipeClean
<1>6. client' = [client EXCEPT ![c] = IF ~k.live THEN Lose(k, "WriteFailed") ELSE asked]
  BY DEF WriteAll
<1> QED BY <1>3, <1>5, <1>6, OneClient

LEMMA RespondSound ==
  ASSUME CallInv, NEW c \in Clients, NEW status \in StatusCodes, Respond(c, status)
  PROVE  CallInv'
<1> DEFINE k == client[c]
           answered == [k EXCEPT !.sent = Tail(@),
                      !.replies = Append(@, [id |-> Head(k.sent), status |-> status]),
                      !.truth = status, !.served = IF @ < 2 THEN @ + 1 ELSE @]
<1>1. Sound(k) /\ k.sent # <<>>
  BY DEF CallInv, Respond
<1>2. k.at = "read" /\ k.sent = <<k.id>> /\ k.replies = <<>> /\ k.served = 0
  BY <1>1 DEF Sound, PipeHolds
<1>3. /\ Tail(k.sent) = <<>> /\ Head(k.sent) = k.id
      /\ Append(k.replies, [id |-> k.id, status |-> status]) = <<[id |-> k.id, status |-> status]>>
  BY <1>2
<1>4. answered = [k EXCEPT !.sent = <<>>, !.replies = <<[id |-> k.id, status |-> status]>>,
                           !.truth = status, !.served = 1]
  BY <1>2, <1>3
<1>5. Sound(answered)
  <2> HIDE DEF answered
  <2> QED BY <1>1, <1>2, <1>4
     DEF Sound, IsClient, ClientFields, PipeHolds, Truthful, LosesOnce, PipeClean
<1>6. client' = [client EXCEPT ![c] = answered]
  BY DEF Respond
<1> QED BY <1>5, <1>6, OneClient

LEMMA ReadReplySound ==
  ASSUME CallInv, NEW c \in Clients, ReadReply(c) PROVE CallInv'
<1> DEFINE k     == client[c]
           reply == Head(k.replies)
           code  == ParseStatus(k, reply)
           taken == Finish([[k EXCEPT !.replies = Tail(@)] EXCEPT !.status = code],
                           IF code = "ok" THEN "Ok" ELSE "Status")
<1>1. Sound(k) /\ k.at = "read" /\ k.replies # <<>>
  BY DEF CallInv, ReadReply
<1>2. /\ k.sent = <<>> /\ k.served = 1
      /\ k.replies = <<[id |-> k.id, status |-> k.truth]>>
  BY <1>1 DEF Sound, PipeHolds
<1>3. Tail(k.replies) = <<>> /\ reply = [id |-> k.id, status |-> k.truth] /\ code = k.truth
  BY <1>2 DEF ParseStatus
<1>4. taken = [k EXCEPT !.replies = <<>>, !.status = k.truth, !.at = "done",
                        !.result = IF k.truth = "ok" THEN "Ok" ELSE "Status"]
  BY <1>1, <1>3 DEF Finish, Sound, IsClient, ClientFields
<1>5. Sound(taken)
  <2> HIDE DEF taken
  <2> QED BY <1>1, <1>2, <1>4
     DEF Sound, IsClient, ClientFields, PipeHolds, Truthful, LosesOnce, PipeClean, StatusCodes
<1>6. CASE reply.id # 0 /\ reply.id = k.id
  <2>1. client' = [client EXCEPT ![c] = taken]
    BY <1>6 DEF ReadReply
  <2> QED BY <2>1, <1>5, OneClient
<1>7. CASE ~(reply.id # 0 /\ reply.id = k.id)
  <2>1. client' = [client EXCEPT ![c] = Lose(k, "BadResponse")]
    BY <1>7 DEF ReadReply
  <2>2. k.id = 0
    BY <1>7, <1>3
  <2>3. Sound(Lose(k, "BadResponse"))
    BY <1>1, <2>2, LostIsSound
  <2> QED BY <2>1, <2>3, OneClient
<1> QED BY <1>6, <1>7

(* The call has returned: nothing of it is left.                           *)
LEMMA ReturnSound ==
  ASSUME CallInv, NEW c \in Clients, ReturnCall(c) PROVE CallInv'
<1> DEFINE k == client[c]
           rests == [k EXCEPT !.at = "idle", !.kind = "convert", !.attempt = 0, !.id = 0,
                              !.result = "none", !.truth = "ok", !.served = 0]
<1>1. Sound(k) /\ k.at = "done"
  BY DEF CallInv, ReturnCall
<1>2. IsClient(rests)
  BY <1>1 DEF Sound, IsClient, ClientFields
<1>3. /\ rests.at = "idle" /\ rests.result = "none" /\ rests.truth = "ok"
      /\ rests.served = 0 /\ rests.sent = k.sent /\ rests.replies = k.replies
      /\ rests.losses = k.losses /\ rests.pipe = k.pipe
  BY <1>1 DEF Sound, IsClient, ClientFields
<1>4. Sound(rests)
  <2> HIDE DEF rests
  <2> QED BY <1>1, <1>2, <1>3
     DEF Sound, PipeHolds, Truthful, LosesOnce, PipeClean, StatusCodes
<1>5. client' = [client EXCEPT ![c] = rests]
  BY DEF ReturnCall
<1> QED BY <1>4, <1>5, OneClient

(* The other end goes: what was asked is lost, what was answered may stay. *)
LEMMA CutIsSound ==
  ASSUME NEW k, Sound(k), NEW e, NEW kept \in BOOLEAN PROVE Sound(Cut(k, e, kept))
<1> DEFINE cut == [k EXCEPT !.live = FALSE, !.sent = <<>>,
                            !.replies = IF kept THEN @ ELSE <<>>]
<1>1. IsClient(cut)
  BY DEF Sound, IsClient, ClientFields
<1>2. /\ cut.at = k.at /\ cut.result = k.result /\ cut.truth = k.truth /\ cut.id = k.id
      /\ cut.served = k.served /\ cut.losses = k.losses /\ cut.pipe = k.pipe
      /\ cut.sent = <<>> /\ cut.replies = IF kept THEN k.replies ELSE <<>>
  BY DEF Sound, IsClient, ClientFields
<1>3. Sound(cut)
  <2> HIDE DEF cut
  <2> QED BY <1>1, <1>2 DEF Sound, PipeHolds, Truthful, LosesOnce, PipeClean
<1> QED BY <1>3 DEF Cut

LEMMA CrashSound == ASSUME CallInv, NEW e, Crash(e) PROVE CallInv'
<1>1. PICK kept \in BOOLEAN : client' = [c \in Clients |-> Cut(client[c], e, kept)]
  BY DEF Crash, Exit
<1> QED BY <1>1, CutIsSound DEF CallInv

LEMMA DropSound == ASSUME CallInv, NEW c \in Clients, DropConnection(c) PROVE CallInv'
<1> DEFINE k == client[c]
           cut == [k EXCEPT !.live = FALSE, !.sent = <<>>]
<1>1. Sound(k)
  BY DEF CallInv
<1>2. IsClient(cut)
  BY <1>1 DEF Sound, IsClient, ClientFields
<1>3. /\ cut.at = k.at /\ cut.result = k.result /\ cut.truth = k.truth /\ cut.id = k.id
      /\ cut.served = k.served /\ cut.losses = k.losses /\ cut.pipe = k.pipe
      /\ cut.sent = <<>> /\ cut.replies = k.replies
  BY <1>1 DEF Sound, IsClient, ClientFields
<1>4. Sound(cut)
  <2> HIDE DEF cut
  <2> QED BY <1>1, <1>2, <1>3 DEF Sound, PipeHolds, Truthful, LosesOnce, PipeClean
<1>5. client' = [client EXCEPT ![c] = cut]
  BY DEF DropConnection, CallInv
<1> QED BY <1>4, <1>5, OneClient

(* Looking for the pipe.                                                   *)
LEMMA ConnectSound ==
  ASSUME CallInv, NEW c \in Clients,
         \/ \E e \in Engines : OpenPipe(c, e)
         \/ PipeBusy(c) \/ PipeNotFound(c) \/ WaitNamedPipe(c)
  PROVE  CallInv'
<1> DEFINE k == client[c]
<1>1. Sound(k)
  BY DEF CallInv
<1>2. ASSUME NEW e \in Engines, OpenPipe(c, e) PROVE CallInv'
  <2>1. Sound([k EXCEPT !.pipe = e, !.live = TRUE, !.at = "write", !.losses = 0])
    BY <1>1, <1>2, MovedIsSound DEF OpenPipe
  <2> QED BY <1>2, <2>1, OneClient DEF OpenPipe
<1>3. CASE PipeBusy(c)
  <2>1. Sound([k EXCEPT !.at = "busy"])
    BY <1>1, <1>3, MovedIsSound DEF PipeBusy
  <2> QED BY <1>3, <2>1, OneClient DEF PipeBusy
<1>4. CASE PipeNotFound(c)
  <2>1. k.at = "open"
    BY <1>4 DEF PipeNotFound
  <2>2. Sound(Finish(k, "NotConnected")) /\ Sound([k EXCEPT !.at = "appear"])
    BY <1>1, <2>1, NotConnectedIsSound, MovedIsSound
  <2>3. CASE k.attempt = 0
    BY <1>4, <2>2, <2>3, LaunchSound DEF PipeNotFound
  <2>4. CASE k.attempt # 0
    BY <1>4, <2>2, <2>4, OneClient DEF PipeNotFound, Fail
  <2> QED BY <2>3, <2>4
<1>5. CASE WaitNamedPipe(c)
  <2>1. k.at \in {"busy", "appear"}
    BY <1>5 DEF WaitNamedPipe
  <2>2. Sound(Finish(k, "NotConnected")) /\ Sound(Retry(k))
    BY <1>1, <2>1, NotConnectedIsSound, MovedIsSound DEF Retry
  <2> QED BY <1>5, <2>2, OneClient DEF WaitNamedPipe
<1> QED BY <1>2, <1>3, <1>4, <1>5

LEMMA PipeStepSound ==
  ASSUME CallInv, NEW c \in Clients, PipeStep(c) PROVE CallInv'
<1>1. ASSUME NEW status \in StatusCodes, Respond(c, status) PROVE CallInv'
  BY <1>1, RespondSound
<1>2. CASE DropConnection(c)
  BY <1>2, DropSound
<1>3. CASE ThrottleEnds(c)
  <2>1. Sound([client[c] EXCEPT !.throttle = FALSE])
    BY ThrottleIsSound DEF CallInv
  <2>2. client' = [client EXCEPT ![c] = [client[c] EXCEPT !.throttle = FALSE]]
    BY <1>3 DEF ThrottleEnds
  <2> QED BY <2>1, <2>2, OneClient
<1>4. CASE (\E e \in Engines : OpenPipe(c, e)) \/ PipeBusy(c) \/ PipeNotFound(c)
             \/ WaitNamedPipe(c)
  BY <1>4, ConnectSound
<1>5. CASE WriteAll(c)
  BY <1>5, WriteSound
<1>6. CASE ReadFailed(c)
  <2>1. Sound(client[c]) /\ client[c].at = "read"
    BY <1>6 DEF ReadFailed, CallInv
  <2>2. Sound(Lose(client[c], "ReadFailed"))
    BY <2>1, LostIsSound
  <2>3. client' = [client EXCEPT ![c] = Lose(client[c], "ReadFailed")]
    BY <1>6 DEF ReadFailed
  <2> QED BY <2>2, <2>3, OneClient
<1>7. CASE ReadReply(c)
  BY <1>7, ReadReplySound
<1>8. CASE ReturnCall(c)
  BY <1>8, ReturnSound
<1> QED BY <1>1, <1>2, <1>3, <1>4, <1>5, <1>6, <1>7, <1>8 DEF PipeStep

LEMMA StepSound == ASSUME CallInv, EngineNext PROVE CallInv'
<1>1. CASE EngineStep
  <2>1. ASSUME NEW e \in Engines, Claim(e) \/ CreatePipeInstance(e) \/ CloseInstance(e)
        PROVE  CallInv'
    BY <2>1, SameClients DEF Claim, CreatePipeInstance, CloseInstance
  <2>2. ASSUME NEW e \in Engines, Crash(e) PROVE CallInv'
    BY <2>2, CrashSound
  <2> QED BY <1>1, <2>1, <2>2 DEF EngineStep
<1>2. ASSUME NEW c \in Clients, PipeStep(c) PROVE CallInv'
  BY <1>2, PipeStepSound
<1>3. ASSUME NEW c \in Clients, Warmup(c) PROVE CallInv'
  BY <1>3, LaunchSound DEF Warmup, CallInv
<1>4. ASSUME NEW c \in Clients, CloseClient(c) PROVE CallInv'
  BY <1>4, NewIsSound, OneClient DEF CloseClient
<1>5. ASSUME NEW c \in Clients, NEW kind \in CallKinds, BeginCall(c, kind) PROVE CallInv'
  BY <1>5, BeginSound
<1> QED BY <1>1, <1>2, <1>3, <1>4, <1>5 DEF EngineNext, OthersStep

LEMMA CallInvariant == EngineSpec => []CallInv
<1>1. EngineInit => CallInv
  <2> SUFFICES ASSUME EngineInit PROVE CallInv
    OBVIOUS
  <2> QED BY NewIsSound DEF EngineInit, CallInv
<1>2. CallInv /\ [EngineNext]_engineVars => CallInv'
  BY StepSound, SameClients DEF engineVars
<1> QED BY <1>1, <1>2, PTL DEF EngineSpec

(* However pipes break and engines come and go: a call gets its own answer,*)
(* once, or fails, once, and leaves nothing in the pipe to the next        *)
(* (Exchange and ReadResponse, OhageyEngineClient.cpp).                    *)
THEOREM CallsAreAnsweredHolds == EngineSpec => []CallsAreAnswered
<1>1. CallInv => CallsAreAnswered
  BY DEF CallInv, Sound, Truthful, PipeClean, LosesOnce, CallsAreAnswered, KeptPipeIsClean,
         OwnAnswer, StatusIsFresh, ServedOnce, OneLoss
<1> QED BY <1>1, CallInvariant, PTL

-----------------------------------------------------------------------------
(* RequestReply.                                                           *)

(* What was asked lies in a pipe that has two ends.                        *)
AsksLive(k) == k.sent # <<>> => k.live

ReplyInv == CallInv /\ \A c \in Clients : AsksLive(client[c])

(* What a step may make of a call: nothing, or what RequestReply allows.   *)
Goes(from, to) ==
  \/ to = from
  \/ from \in {"absent", "none"} /\ to = "begun"
  \/ from = "begun" /\ to \in {"sent", "none"}
  \/ from = "sent" /\ to \in {"served", "lost"}
  \/ from = "served" /\ to \in {"none", "lost"}
  \/ from = "lost" /\ to = "none"
  \/ from \in RequestReply!Stages /\ to = "absent"

GoesOnTo(k, m) == AsksLive(m) /\ Goes(CallStage(k), CallStage(m))

LEMMA StageIs ==
  ASSUME NEW k
  PROVE  /\ CallStage(k) \in RequestReply!Stages
         /\ k.at = "idle" => CallStage(k) = IF Fresh(k) THEN "absent" ELSE "none"
         /\ k.at = "done" => CallStage(k) = "none"
         /\ k.at \in {"open", "busy", "appear", "write"} => CallStage(k) = "begun"
         /\ k.at = "read" /\ k.sent # <<>> => CallStage(k) = "sent"
         /\ k.at = "read" /\ k.sent = <<>> /\ k.replies # <<>> => CallStage(k) = "served"
         /\ k.at = "read" /\ k.sent = <<>> /\ k.replies = <<>> => CallStage(k) = "lost"
<1>1. k.at = "done" => ~Fresh(k)
  <2>1. Fresh(k) => k.at = "idle"
    BY DEF Fresh, NewClient
  <2> QED BY <2>1
<1>2. CallStage(k) \in RequestReply!Stages
  BY DEF CallStage, RequestReply!Stages
<1>3. k.at \in {"idle", "done"} => CallStage(k) = IF Fresh(k) THEN "absent" ELSE "none"
  BY DEF CallStage
<1>4. k.at \in {"open", "busy", "appear", "write"} => CallStage(k) = "begun"
  BY DEF CallStage
<1>5. ASSUME k.at = "read", k.sent # <<>> PROVE CallStage(k) = "sent"
  BY <1>5 DEF CallStage
<1>6. ASSUME k.at = "read", k.sent = <<>>, k.replies # <<>> PROVE CallStage(k) = "served"
  BY <1>6 DEF CallStage
<1>7. ASSUME k.at = "read", k.sent = <<>>, k.replies = <<>> PROVE CallStage(k) = "lost"
  BY <1>7 DEF CallStage
<1> QED BY <1>1, <1>2, <1>3, <1>4, <1>5, <1>6, <1>7

(* The stage of a call in the next state is that of what the client holds. *)
LEMMA StageNext == ASSUME NEW c PROVE CallStage(client[c])' = CallStage(client'[c])
BY DEF CallStage, Fresh

LEMMA OneCaller ==
  ASSUME ReplyInv, NEW c \in Clients, NEW m, GoesOnTo(client[c], m),
         client' = [client EXCEPT ![c] = m]
  PROVE  /\ \A b \in Clients : AsksLive(client[b])'
         /\ [RequestReply!Next]_([b \in Clients |-> CallStage(client[b])])
<1> DEFINE shown == [b \in Clients |-> CallStage(client[b])]
           from  == CallStage(client[c])
           to    == CallStage(m)
<1>1. \A b \in Clients : client'[b] = IF b = c THEN m ELSE client[b]
  BY DEF ReplyInv, CallInv
<1>2. \A b \in Clients : AsksLive(client[b])'
  BY <1>1 DEF ReplyInv, GoesOnTo, AsksLive
<1>3. \A b \in Clients : CallStage(client[b])' = IF b = c THEN to ELSE CallStage(client[b])
  BY <1>1, StageNext
<1>4. shown' = [shown EXCEPT ![c] = to] /\ shown[c] = from
  <2> HIDE DEF to
  <2> QED BY <1>3
<1>5. CASE to = from
  <2>1. \A b \in Clients : CallStage(client[b])' = CallStage(client[b])
    BY <1>3, <1>5
  <2>2. shown' = shown
    BY <2>1
  <2> QED BY <1>2, <2>2
<1>6. CASE from \in {"sent", "served"} /\ to = "lost"
  <2> HIDE DEF to, from
  <2>1. {c} \in SUBSET {b \in Clients : shown[b] \in {"sent", "served"}}
    BY <1>4, <1>6
  <2>2. shown' = [b \in Clients |-> IF b \in {c} THEN "lost" ELSE shown[b]]
    BY <1>4, <1>6
  <2>3. RequestReply!Break
    BY <2>1, <2>2 DEF RequestReply!Break
  <2> QED BY <1>2, <2>3 DEF RequestReply!Next
<1>7. CASE ~(to = from) /\ ~(from \in {"sent", "served"} /\ to = "lost")
  <2>1. Goes(from, to)
    BY DEF GoesOnTo
  <2> HIDE DEF to, from, shown
  <2>2. \/ RequestReply!Ask(c) \/ RequestReply!Send(c) \/ RequestReply!Serve(c)
        \/ RequestReply!Return(c) \/ RequestReply!GiveUp(c) \/ RequestReply!Leave(c)
    BY <1>4, <1>7, <2>1
    DEF Goes, shown, RequestReply!Ask, RequestReply!Send, RequestReply!Serve,
        RequestReply!Return, RequestReply!GiveUp, RequestReply!Leave, RequestReply!Move
  <2> QED BY <1>2, <2>2 DEF RequestReply!Next, shown
<1> QED BY <1>5, <1>6, <1>7

LEMMA SameCalls ==
  ASSUME ReplyInv, client' = client
  PROVE  /\ \A b \in Clients : AsksLive(client[b])'
         /\ UNCHANGED [b \in Clients |-> CallStage(client[b])]
<1>1. \A b \in Clients : CallStage(client[b])' = CallStage(client[b])
  BY StageNext
<1>2. \A b \in Clients : AsksLive(client[b])'
  BY DEF ReplyInv, AsksLive
<1> QED BY <1>1, <1>2

(* The throttle of its launches is no part of a call.                      *)
LEMMA ThrottleFollows ==
  ASSUME NEW k, NEW m, IsClient(m), GoesOnTo(k, m), NEW b
  PROVE  GoesOnTo(k, [m EXCEPT !.throttle = b])
<1> DEFINE n == [m EXCEPT !.throttle = b]
<1>1. /\ n.at = m.at /\ n.sent = m.sent /\ n.replies = m.replies /\ n.live = m.live
  BY DEF IsClient, ClientFields
<1>2. Fresh(n) <=> Fresh(m)
  <2>1. ASSUME Fresh(m) PROVE Fresh(n)
    BY <2>1 DEF Fresh, NewClient
  <2>2. ASSUME Fresh(n) PROVE Fresh(m)
    <3>1. n.calls = m.calls /\ n.throttle = b
      BY DEF IsClient, ClientFields
    <3>2. n = [NewClient EXCEPT !.calls = m.calls, !.throttle = b]
      BY <2>2, <3>1 DEF Fresh
    <3>3. m = [n EXCEPT !.throttle = m.throttle]
      BY DEF IsClient, ClientFields
    <3>4. m = [[NewClient EXCEPT !.calls = m.calls, !.throttle = b] EXCEPT !.throttle = m.throttle]
      BY <3>2, <3>3
    <3>5. [[NewClient EXCEPT !.calls = m.calls, !.throttle = b] EXCEPT !.throttle = m.throttle]
          = [NewClient EXCEPT !.calls = m.calls, !.throttle = m.throttle]
      BY DEF NewClient
    <3> QED BY <3>4, <3>5 DEF Fresh
  <2> QED BY <2>1, <2>2
<1>3. CallStage(n) = CallStage(m)
  <2> HIDE DEF n
  <2> QED BY <1>1, <1>2 DEF CallStage
<1> QED BY <1>1, <1>3 DEF GoesOnTo, AsksLive

LEMMA LaunchFollows ==
  ASSUME ReplyInv, NEW c \in Clients, NEW then, NEW otherwise, IsClient(then), IsClient(otherwise),
         GoesOnTo(client[c], then), GoesOnTo(client[c], otherwise),
         LaunchEngine(c, then, otherwise)
  PROVE  /\ \A b \in Clients : AsksLive(client[b])'
         /\ [RequestReply!Next]_([b \in Clients |-> CallStage(client[b])])
<1>1. PICK m : /\ GoesOnTo(client[c], m)
               /\ client' = [client EXCEPT ![c] = m]
  BY ThrottleFollows DEF LaunchEngine
<1> QED BY <1>1, OneCaller

(* Where a call is in the course of an action, before and after.           *)
LEMMA BeginsFollow ==
  ASSUME NEW k, NEW m, k.at = "idle", m.at \in {"open", "write"}, AsksLive(m)
  PROVE  GoesOnTo(k, m)
BY StageIs DEF GoesOnTo, Goes

LEMMA SeeksFollow ==
  ASSUME NEW k, NEW m, AsksLive(m), k.at \in {"open", "busy", "appear", "write"},
         \/ m.at \in {"open", "busy", "appear", "write"}
         \/ m.at = "done"
         \/ m.at = "read" /\ m.sent # <<>>
  PROVE  GoesOnTo(k, m)
BY StageIs DEF GoesOnTo, Goes

LEMMA BeginFollows ==
  ASSUME ReplyInv, NEW c \in Clients, NEW kind, BeginCall(c, kind)
  PROVE  /\ \A b \in Clients : AsksLive(client[b])'
         /\ [RequestReply!Next]_([b \in Clients |-> CallStage(client[b])])
<1> DEFINE k == client[c]
           asked == [k EXCEPT !.kind = kind, !.calls = @ + 1,
                              !.at = IF k.pipe = NoEngine THEN "open" ELSE "write"]
           m == IF kind = "commit" THEN Numbered(asked) ELSE asked
<1>1. Sound(k) /\ k.at = "idle"
  BY DEF ReplyInv, CallInv, BeginCall
<1>2. k.sent = <<>>
  BY <1>1 DEF Sound, Truthful, PipeClean
<1>3. m.at \in {"open", "write"} /\ m.sent = <<>>
  BY <1>1, <1>2 DEF Sound, IsClient, ClientFields, Numbered
<1>4. client' = [client EXCEPT ![c] = m]
  BY DEF BeginCall
<1>5. GoesOnTo(k, m)
  BY <1>1, <1>3, BeginsFollow DEF AsksLive
<1> QED BY <1>4, <1>5, OneCaller

LEMMA WriteFollows ==
  ASSUME ReplyInv, NEW c \in Clients, WriteAll(c)
  PROVE  /\ \A b \in Clients : AsksLive(client[b])'
         /\ [RequestReply!Next]_([b \in Clients |-> CallStage(client[b])])
<1> DEFINE k == IF client[c].kind = "convert" THEN Numbered(client[c]) ELSE client[c]
           asked == [k EXCEPT !.sent = Append(@, k.id), !.at = "read"]
           lost == Lose(k, "WriteFailed")
           m == IF ~k.live THEN lost ELSE asked
<1>1. Sound(client[c]) /\ client[c].at = "write"
  BY DEF ReplyInv, CallInv, WriteAll
<1>2. IsClient(k) /\ k.sent = <<>>
  BY <1>1 DEF Numbered, Sound, Truthful, PipeClean, IsClient, ClientFields
<1>3. lost.at = "done" /\ lost.sent = <<>>
  BY <1>2 DEF Lose, Finish, Disconnect, IsClient, ClientFields
<1>4. asked.at = "read" /\ asked.sent = <<k.id>> /\ asked.live = k.live
  <2> HIDE DEF k
  <2>1. Append(k.sent, k.id) = <<k.id>>
    BY <1>2
  <2> QED BY <1>2, <2>1 DEF IsClient, ClientFields
<1>5. GoesOnTo(client[c], m)
  <2> HIDE DEF k
  <2>1. CASE ~k.live
    <3> HIDE DEF lost, asked
    <3>1. AsksLive(lost)
      BY <1>3 DEF AsksLive
    <3>2. GoesOnTo(client[c], lost)
      BY <1>1, <1>3, <3>1, SeeksFollow
    <3> QED BY <2>1, <3>2
  <2>2. CASE k.live
    <3> HIDE DEF lost, asked
    <3>1. AsksLive(asked) /\ asked.sent # <<>>
      BY <1>4, <2>2 DEF AsksLive
    <3>2. GoesOnTo(client[c], asked)
      BY <1>1, <1>4, <3>1, SeeksFollow
    <3> QED BY <2>2, <3>2
  <2> QED BY <2>1, <2>2
<1>6. client' = [client EXCEPT ![c] = m]
  BY DEF WriteAll
<1> QED
  <2> HIDE DEF m
  <2> QED BY <1>5, <1>6, OneCaller

LEMMA RespondFollows ==
  ASSUME ReplyInv, NEW c \in Clients, NEW status \in StatusCodes, Respond(c, status)
  PROVE  /\ \A b \in Clients : AsksLive(client[b])'
         /\ [RequestReply!Next]_([b \in Clients |-> CallStage(client[b])])
<1> DEFINE k == client[c]
           m == [k EXCEPT !.sent = Tail(@),
                          !.replies = Append(@, [id |-> Head(k.sent), status |-> status]),
                          !.truth = status, !.served = IF @ < 2 THEN @ + 1 ELSE @]
<1>1. Sound(k) /\ k.sent # <<>>
  BY DEF ReplyInv, CallInv, Respond
<1>2. k.at = "read" /\ k.sent = <<k.id>> /\ k.replies = <<>>
  BY <1>1 DEF Sound, PipeHolds
<1>3. Tail(k.sent) = <<>> /\ Append(k.replies, [id |-> Head(k.sent), status |-> status]) # <<>>
  BY <1>2
<1>4. m.at = "read" /\ m.sent = <<>> /\ m.replies # <<>>
  BY <1>1, <1>2, <1>3 DEF Sound, IsClient, ClientFields
<1>5. CallStage(k) = "sent" /\ CallStage(m) = "served"
  <2> HIDE DEF m
  <2> QED BY <1>1, <1>2, <1>4, StageIs
<1>6. GoesOnTo(k, m)
  BY <1>4, <1>5 DEF GoesOnTo, AsksLive, Goes
<1>7. client' = [client EXCEPT ![c] = m]
  BY DEF Respond
<1> QED
  <2> HIDE DEF m
  <2> QED BY <1>6, <1>7, OneCaller

LEMMA ReadFollows ==
  ASSUME ReplyInv, NEW c \in Clients, ReadReply(c) \/ ReadFailed(c)
  PROVE  /\ \A b \in Clients : AsksLive(client[b])'
         /\ [RequestReply!Next]_([b \in Clients |-> CallStage(client[b])])
<1> DEFINE k == client[c]
           taken(code) == Finish([[k EXCEPT !.replies = Tail(@)] EXCEPT !.status = code],
                                 IF code = "ok" THEN "Ok" ELSE "Status")
<1>1. Sound(k) /\ k.at = "read" /\ AsksLive(k)
  BY DEF ReplyInv, CallInv, ReadReply, ReadFailed
<1>2. k.sent = <<>>
  BY <1>1 DEF ReadReply, ReadFailed, Sound, PipeHolds, AsksLive
<1>3. CallStage(k) \in {"served", "lost"}
  BY <1>1, <1>2, StageIs
<1>4. ASSUME NEW m, m.at = "done", m.sent = <<>> PROVE GoesOnTo(k, m)
  BY <1>3, <1>4, StageIs DEF GoesOnTo, AsksLive, Goes
<1>5. ASSUME NEW result PROVE Lose(k, result).at = "done" /\ Lose(k, result).sent = <<>>
  BY <1>1 DEF Lose, Finish, Disconnect, Sound, IsClient, ClientFields
<1>6. ASSUME NEW code PROVE taken(code).at = "done" /\ taken(code).sent = <<>>
  BY <1>1, <1>2 DEF Finish, Sound, IsClient, ClientFields
<1>7. \/ \E code : client' = [client EXCEPT ![c] = taken(code)]
      \/ \E result : client' = [client EXCEPT ![c] = Lose(k, result)]
  <2>1. CASE ReadReply(c)
    <3> DEFINE reply == Head(k.replies)
    <3>1. CASE reply.id # 0 /\ reply.id = k.id
      <4>1. client' = [client EXCEPT ![c] = taken(ParseStatus(k, reply))]
        BY <2>1, <3>1 DEF ReadReply
      <4> QED BY <4>1
    <3>2. CASE ~(reply.id # 0 /\ reply.id = k.id)
      <4>1. client' = [client EXCEPT ![c] = Lose(k, "BadResponse")]
        BY <2>1, <3>2 DEF ReadReply
      <4> QED BY <4>1
    <3> QED BY <3>1, <3>2
  <2>2. CASE ReadFailed(c)
    <3>1. client' = [client EXCEPT ![c] = Lose(k, "ReadFailed")]
      BY <2>2 DEF ReadFailed
    <3> QED BY <3>1
  <2> QED BY <2>1, <2>2
<1>8. CASE \E code : client' = [client EXCEPT ![c] = taken(code)]
  <2>1. PICK code : client' = [client EXCEPT ![c] = taken(code)]
    BY <1>8
  <2>2. GoesOnTo(k, taken(code))
    BY <1>4, <1>6
  <2> HIDE DEF taken
  <2> QED BY <2>1, <2>2, OneCaller
<1>9. CASE \E result : client' = [client EXCEPT ![c] = Lose(k, result)]
  <2>1. PICK result : client' = [client EXCEPT ![c] = Lose(k, result)]
    BY <1>9
  <2>2. GoesOnTo(k, Lose(k, result))
    BY <1>4, <1>5
  <2> QED BY <2>1, <2>2, OneCaller
<1> QED BY <1>7, <1>8, <1>9

(* What has returned leaves a client with nothing, or with a connection.   *)
LEMMA ReturnFollows ==
  ASSUME ReplyInv, NEW c \in Clients, ReturnCall(c)
  PROVE  /\ \A b \in Clients : AsksLive(client[b])'
         /\ [RequestReply!Next]_([b \in Clients |-> CallStage(client[b])])
<1> DEFINE k == client[c]
           m == [k EXCEPT !.at = "idle", !.kind = "convert", !.attempt = 0, !.id = 0,
                          !.result = "none", !.truth = "ok", !.served = 0]
<1>1. Sound(k) /\ k.at = "done"
  BY DEF ReplyInv, CallInv, ReturnCall
<1>2. m.at = "idle" /\ m.sent = <<>>
  BY <1>1 DEF Sound, Truthful, PipeClean, IsClient, ClientFields
<1>3. CallStage(k) = "none" /\ CallStage(m) \in {"absent", "none"}
  <2> HIDE DEF m
  <2> QED BY <1>1, <1>2, StageIs
<1>4. GoesOnTo(k, m)
  <2> HIDE DEF m
  <2> QED BY <1>2, <1>3 DEF GoesOnTo, AsksLive, Goes, RequestReply!Stages
<1>5. client' = [client EXCEPT ![c] = m]
  BY DEF ReturnCall
<1> QED
  <2> HIDE DEF m
  <2> QED BY <1>4, <1>5, OneCaller

LEMMA DropFollows ==
  ASSUME ReplyInv, NEW c \in Clients, DropConnection(c)
  PROVE  /\ \A b \in Clients : AsksLive(client[b])'
         /\ [RequestReply!Next]_([b \in Clients |-> CallStage(client[b])])
<1> DEFINE k == client[c]
           m == [k EXCEPT !.live = FALSE, !.sent = <<>>]
<1>1. Sound(k) /\ k.at = "read"
  BY DEF ReplyInv, CallInv, DropConnection
<1>2. m.at = "read" /\ m.sent = <<>> /\ m.replies = k.replies
  BY <1>1 DEF Sound, IsClient, ClientFields
<1>3. k.sent # <<>> => k.replies = <<>>
  BY <1>1 DEF Sound, PipeHolds
<1>4. GoesOnTo(k, m)
  <2> HIDE DEF m
  <2>1. CASE k.sent # <<>>
    <3>1. CallStage(k) = "sent" /\ CallStage(m) = "lost"
      BY <1>1, <1>2, <1>3, <2>1, StageIs
    <3> QED BY <1>2, <3>1 DEF GoesOnTo, AsksLive, Goes
  <2>2. CASE k.sent = <<>>
    <3>1. CallStage(k) = CallStage(m)
      BY <1>1, <1>2, <2>2, StageIs
    <3> QED BY <1>2, <3>1 DEF GoesOnTo, AsksLive, Goes
  <2> QED BY <2>1, <2>2
<1>5. client' = [client EXCEPT ![c] = m]
  BY DEF DropConnection, ReplyInv, CallInv
<1> QED
  <2> HIDE DEF m
  <2> QED BY <1>4, <1>5, OneCaller

(* Looking for the pipe, a call has not begun to go out.                   *)
LEMMA ConnectFollows ==
  ASSUME ReplyInv, NEW c \in Clients,
         \/ \E e \in Engines : OpenPipe(c, e)
         \/ PipeBusy(c) \/ PipeNotFound(c) \/ WaitNamedPipe(c)
  PROVE  /\ \A b \in Clients : AsksLive(client[b])'
         /\ [RequestReply!Next]_([b \in Clients |-> CallStage(client[b])])
<1> DEFINE k == client[c]
           failed == Finish(k, "NotConnected")
<1>1. Sound(k) /\ k.at \in {"open", "busy", "appear"} /\ k.sent = <<>>
  BY DEF ReplyInv, CallInv, OpenPipe, PipeBusy, PipeNotFound, WaitNamedPipe, Sound,
         Truthful, PipeClean
<1>2. IsClient(failed) /\ failed.at = "done" /\ failed.sent = <<>>
  BY <1>1 DEF Finish, Sound, IsClient, ClientFields
<1>3. GoesOnTo(k, failed)
  <2> HIDE DEF failed
  <2> QED BY <1>1, <1>2, SeeksFollow DEF AsksLive
<1>4. ASSUME NEW m, m.at \in {"open", "busy", "appear", "write"}, m.sent = <<>>
      PROVE  GoesOnTo(k, m)
  BY <1>1, <1>4, SeeksFollow DEF AsksLive
<1>5. ASSUME NEW e \in Engines, OpenPipe(c, e)
      PROVE  /\ \A b \in Clients : AsksLive(client[b])'
             /\ [RequestReply!Next]_([b \in Clients |-> CallStage(client[b])])
  <2> DEFINE m == [k EXCEPT !.pipe = e, !.live = TRUE, !.at = "write", !.losses = 0]
  <2>1. m.at = "write" /\ m.sent = <<>>
    BY <1>1 DEF Sound, IsClient, ClientFields
  <2>2. client' = [client EXCEPT ![c] = m]
    BY <1>5 DEF OpenPipe
  <2> HIDE DEF m
  <2>3. GoesOnTo(k, m)
    BY <1>4, <2>1
  <2> QED BY <2>2, <2>3, OneCaller
<1>6. ASSUME NEW at \in {"open", "busy", "appear"}
      PROVE  /\ GoesOnTo(k, [k EXCEPT !.at = at]) /\ IsClient([k EXCEPT !.at = at])
             /\ GoesOnTo(k, [k EXCEPT !.at = at, !.attempt = 1])
  <2> DEFINE m == [k EXCEPT !.at = at]
             n == [k EXCEPT !.at = at, !.attempt = 1]
  <2>1. IsClient(m) /\ m.at = at /\ m.sent = <<>> /\ n.at = at /\ n.sent = <<>>
    BY <1>1 DEF Sound, IsClient, ClientFields
  <2> HIDE DEF m, n
  <2>2. GoesOnTo(k, m) /\ GoesOnTo(k, n)
    BY <1>4, <2>1
  <2> QED BY <2>1, <2>2 DEF m, n
<1>7. CASE PipeBusy(c)
  <2>1. client' = [client EXCEPT ![c] = [k EXCEPT !.at = "busy"]]
    BY <1>7 DEF PipeBusy
  <2>2. GoesOnTo(k, [k EXCEPT !.at = "busy"])
    BY <1>6
  <2> QED BY <2>1, <2>2, OneCaller
<1>8. CASE PipeNotFound(c)
  <2>1. CASE k.attempt = 0
    <3>1. LaunchEngine(c, [k EXCEPT !.at = "appear"], failed)
      BY <1>8, <2>1 DEF PipeNotFound
    <3> QED BY <1>2, <1>3, <1>6, <3>1, LaunchFollows
  <2>2. CASE k.attempt # 0
    BY <1>3, <1>8, <2>2, OneCaller DEF PipeNotFound, Fail
  <2> QED BY <2>1, <2>2
<1>9. CASE WaitNamedPipe(c)
  <2>1. GoesOnTo(k, Retry(k))
    BY <1>3, <1>6 DEF Retry
  <2>2. PICK m \in {failed, Retry(k)} : client' = [client EXCEPT ![c] = m]
    BY <1>9 DEF WaitNamedPipe
  <2> QED BY <1>3, <2>1, <2>2, OneCaller
<1> QED BY <1>5, <1>7, <1>8, <1>9

(* An engine that ends takes what was asked of it with it, and may take    *)
(* what it has answered.                                                   *)
LEMMA CrashFollows ==
  ASSUME ReplyInv, NEW e \in Engines, Crash(e)
  PROVE  /\ \A b \in Clients : AsksLive(client[b])'
         /\ [RequestReply!Next]_([b \in Clients |-> CallStage(client[b])])
<1> DEFINE shown == [b \in Clients |-> CallStage(client[b])]
<1>1. PICK kept \in BOOLEAN : client' = [c \in Clients |-> Cut(client[c], e, kept)]
  BY DEF Crash, Exit
<1>2. ASSUME NEW c \in Clients
      PROVE  /\ AsksLive(client'[c])
             /\ \/ CallStage(client'[c]) = CallStage(client[c])
                \/ CallStage(client[c]) \in {"sent", "served"} /\ CallStage(client'[c]) = "lost"
  <2> DEFINE k == client[c]
             cut == [k EXCEPT !.live = FALSE, !.sent = <<>>, !.replies = IF kept THEN @ ELSE <<>>]
  <2>1. Sound(k) /\ AsksLive(k)
    BY DEF ReplyInv, CallInv
  <2>2. CASE k.pipe # e
    BY <1>1, <2>1, <2>2 DEF Cut
  <2>3. CASE k.pipe = e
    <3>1. client'[c] = cut
      BY <1>1, <2>3 DEF Cut
    <3>2. /\ cut.at = k.at /\ cut.sent = <<>> /\ cut.pipe = e
          /\ cut.replies = IF kept THEN k.replies ELSE <<>>
      BY <2>1, <2>3 DEF Sound, IsClient, ClientFields
    <3>3. ~Fresh(k) /\ ~Fresh(cut)
      <4>1. ASSUME NEW m, Fresh(m) PROVE m.pipe = NoEngine
        BY <4>1 DEF Fresh, NewClient
      <4> HIDE DEF cut
      <4> QED BY <2>3, <3>2, <4>1, EngineClientAssumption
    <3> HIDE DEF cut
    <3>4. CASE k.at = "read" /\ k.sent # <<>>
      <4>1. k.replies = <<>>
        BY <2>1, <3>4 DEF Sound, PipeHolds
      <4>2. CallStage(k) = "sent" /\ CallStage(cut) = "lost"
        BY <3>2, <3>4, <4>1, StageIs
      <4> QED BY <3>1, <3>2, <4>2 DEF AsksLive
    <3>5. CASE k.at = "read" /\ k.sent = <<>> /\ k.replies # <<>>
      <4>1. CallStage(k) = "served" /\ CallStage(cut) \in {"served", "lost"}
        BY <3>2, <3>5, StageIs
      <4> QED BY <3>1, <3>2, <4>1 DEF AsksLive
    <3>6. CASE k.at = "read" /\ k.sent = <<>> /\ k.replies = <<>>
      <4>1. CallStage(k) = "lost" /\ CallStage(cut) = "lost"
        BY <3>2, <3>6, StageIs
      <4> QED BY <3>1, <3>2, <4>1 DEF AsksLive
    <3>7. CASE k.at # "read"
      <4>1. CallStage(cut) = CallStage(k)
        BY <3>2, <3>3, <3>7 DEF CallStage
      <4> QED BY <3>1, <3>2, <4>1 DEF AsksLive
    <3> QED BY <3>4, <3>5, <3>6, <3>7
  <2> QED BY <2>2, <2>3
<1>3. \A c \in Clients : AsksLive(client[c])'
  BY <1>2 DEF AsksLive
<1> DEFINE broken == {c \in Clients : CallStage(client'[c]) # CallStage(client[c])}
<1>4. broken \in SUBSET {c \in Clients : shown[c] \in {"sent", "served"}}
  BY <1>2
<1>5. shown' = [c \in Clients |-> IF c \in broken THEN "lost" ELSE shown[c]]
  <2>1. \A c \in Clients : CallStage(client[c])' = CallStage(client'[c])
    BY StageNext
  <2> QED BY <1>2, <2>1
<1>6. RequestReply!Break
  BY <1>4, <1>5 DEF RequestReply!Break
<1> QED BY <1>3, <1>6 DEF RequestReply!Next

LEMMA PipeStepFollows ==
  ASSUME ReplyInv, NEW c \in Clients, PipeStep(c)
  PROVE  /\ \A b \in Clients : AsksLive(client[b])'
         /\ [RequestReply!Next]_([b \in Clients |-> CallStage(client[b])])
<1>1. ASSUME NEW status \in StatusCodes, Respond(c, status)
      PROVE  /\ \A b \in Clients : AsksLive(client[b])'
             /\ [RequestReply!Next]_([b \in Clients |-> CallStage(client[b])])
  BY <1>1, RespondFollows
<1>2. CASE DropConnection(c)
  BY <1>2, DropFollows
<1>3. CASE ThrottleEnds(c)
  <2>1. IsClient(client[c]) /\ GoesOnTo(client[c], client[c])
    BY DEF ReplyInv, CallInv, Sound, GoesOnTo, Goes
  <2>2. GoesOnTo(client[c], [client[c] EXCEPT !.throttle = FALSE])
    BY <2>1, ThrottleFollows
  <2>3. client' = [client EXCEPT ![c] = [client[c] EXCEPT !.throttle = FALSE]]
    BY <1>3 DEF ThrottleEnds
  <2> QED BY <2>2, <2>3, OneCaller
<1>4. CASE (\E e \in Engines : OpenPipe(c, e)) \/ PipeBusy(c) \/ PipeNotFound(c)
             \/ WaitNamedPipe(c)
  BY <1>4, ConnectFollows
<1>5. CASE WriteAll(c)
  BY <1>5, WriteFollows
<1>6. CASE ReadReply(c) \/ ReadFailed(c)
  BY <1>6, ReadFollows
<1>7. CASE ReturnCall(c)
  BY <1>7, ReturnFollows
<1> QED BY <1>1, <1>2, <1>3, <1>4, <1>5, <1>6, <1>7 DEF PipeStep

(* Every step of the clients and of the engines is one of RequestReply: a  *)
(* call is sent where it is written, served where the router answers it,   *)
(* and broken off with the end of an engine or of a connection.            *)
LEMMA StepFollows ==
  ASSUME ReplyInv, EngineNext
  PROVE  /\ \A b \in Clients : AsksLive(client[b])'
         /\ [RequestReply!Next]_([b \in Clients |-> CallStage(client[b])])
<1> DEFINE Follow == /\ \A b \in Clients : AsksLive(client[b])'
                     /\ [RequestReply!Next]_([b \in Clients |-> CallStage(client[b])])
<1>1. CASE EngineStep
  <2>1. ASSUME NEW e \in Engines, Claim(e) \/ CreatePipeInstance(e) \/ CloseInstance(e)
        PROVE  Follow
    BY <2>1, SameCalls DEF Claim, CreatePipeInstance, CloseInstance
  <2>2. ASSUME NEW e \in Engines, Crash(e) PROVE Follow
    BY <2>2, CrashFollows
  <2> QED BY <1>1, <2>1, <2>2 DEF EngineStep
<1>2. ASSUME NEW c \in Clients, PipeStep(c) PROVE Follow
  BY <1>2, PipeStepFollows
<1>3. ASSUME NEW c \in Clients, Warmup(c) PROVE Follow
  <2>1. IsClient(client[c]) /\ GoesOnTo(client[c], client[c])
    BY DEF ReplyInv, CallInv, Sound, GoesOnTo, Goes
  <2> QED BY <1>3, <2>1, LaunchFollows DEF Warmup
<1>4. ASSUME NEW c \in Clients, CloseClient(c) PROVE Follow
  <2> DEFINE m == [NewClient EXCEPT !.calls = client[c].calls]
  <2>1. m.at = "idle" /\ m.sent = <<>>
    BY DEF NewClient
  <2>2. Fresh(m)
    BY ZenonT(40) DEF Fresh, NewClient
  <2>3. client' = [client EXCEPT ![c] = m]
    BY <1>4 DEF CloseClient
  <2> HIDE DEF m
  <2>4. CallStage(m) = "absent" /\ CallStage(client[c]) \in RequestReply!Stages
    BY <2>1, <2>2, StageIs
  <2>5. GoesOnTo(client[c], m)
    BY <2>1, <2>4 DEF GoesOnTo, AsksLive, Goes
  <2> QED BY <2>3, <2>5, OneCaller
<1>5. ASSUME NEW c \in Clients, NEW kind \in CallKinds, BeginCall(c, kind) PROVE Follow
  BY <1>5, BeginFollows
<1> QED BY <1>1, <1>2, <1>3, <1>4, <1>5 DEF EngineNext, OthersStep

LEMMA NewIsAbsent ==
  ASSUME EngineInit PROVE ReplyInv /\ RequestReply!Init
<1>1. CallInv
  BY NewIsSound DEF EngineInit, CallInv
<1>2. Fresh(NewClient) /\ NewClient.at = "idle" /\ NewClient.sent = <<>>
  BY DEF Fresh, NewClient
<1>3. CallStage(NewClient) = "absent"
  BY <1>2, StageIs
<1>4. \A c \in Clients : client[c] = NewClient
  BY DEF EngineInit
<1> QED BY <1>1, <1>2, <1>3, <1>4 DEF ReplyInv, AsksLive, RequestReply!Init

(* However engines are launched, end and fail, and clients come and go:    *)
(* what an application asks is done at most once, by one engine, and the   *)
(* reply that comes is to what was asked.                                  *)
THEOREM ImplementsRequestReply == EngineSpec => RequestReplySpec
<1>1. EngineInit => ReplyInv /\ RequestReply!Init
  BY NewIsAbsent
<1>2. ReplyInv /\ [EngineNext]_engineVars =>
        ReplyInv' /\ [RequestReply!Next]_([c \in Clients |-> CallStage(client[c])])
  BY StepSound, SameClients, StepFollows, SameCalls DEF ReplyInv, engineVars
<1> QED BY <1>1, <1>2, PTL DEF EngineSpec, RequestReplySpec, RequestReply!Spec

-----------------------------------------------------------------------------
(* The name of the pipe.                                                   *)

Processes ==
  [stage : {"absent", "loading", "serving"}, free : BOOLEAN, closing : Int]

(* Whoever serves keeps the name taken, or there has been a gap.           *)
NameInv ==
  /\ engine \in [Engines -> Processes]
  /\ gap \in BOOLEAN
  /\ ~gap => (Serving # {} => NameExists)
  /\ ~gap => \A e, f \in Serving : e = f

(* What happens to one engine that is not made to serve by it.             *)
LEMMA OneEngine ==
  ASSUME engine \in [Engines -> Processes], NEW e, NEW p,
         e \in Engines => p \in Processes /\ (p.stage = "serving" => engine[e].stage = "serving"),
         engine' = [engine EXCEPT ![e] = p]
  PROVE  engine' \in [Engines -> Processes] /\ Serving' \subseteq Serving
BY DEF Serving

LEMMA ProcessFields ==
  ASSUME NEW p \in Processes
  PROVE  /\ \A s \in {"absent", "loading", "serving"} :
              /\ [p EXCEPT !.stage = s] \in Processes
              /\ [p EXCEPT !.stage = s].stage = s
         /\ \A free \in BOOLEAN :
              /\ [p EXCEPT !.free = free] \in Processes
              /\ [p EXCEPT !.free = free].stage = p.stage
         /\ \A n \in Int :
              /\ [p EXCEPT !.closing = n] \in Processes
              /\ [p EXCEPT !.closing = n].stage = p.stage
         /\ p.closing + 1 \in Int /\ p.closing - 1 \in Int
BY DEF Processes

(* No step but Claim makes an engine serve, and Claim only where no name   *)
(* exists.                                                                 *)
LEMMA ServingShrinks ==
  ASSUME NameInv, OthersStep({})
  PROVE  /\ engine' \in [Engines -> Processes]
         /\ \/ Serving' \subseteq Serving
            \/ ~NameExists /\ \E e \in Engines : Serving' \subseteq Serving \union {e}
<1>0. engine \in [Engines -> Processes]
  BY DEF NameInv
<1> DEFINE NoneMore == engine' \in [Engines -> Processes] /\ Serving' \subseteq Serving
<1>1. ASSUME NEW e \in Engines, Claim(e)
      PROVE  /\ engine' \in [Engines -> Processes]
             /\ \/ Serving' \subseteq Serving
                \/ ~NameExists /\ Serving' \subseteq Serving \union {e}
  <2>1. CASE engine' = [engine EXCEPT ![e].stage = "absent"]
    BY <1>0, <2>1, OneEngine, ProcessFields
  <2>2. CASE ~NameExists /\ engine' = [engine EXCEPT ![e].stage = "serving", ![e].free = TRUE]
    <3> DEFINE p == [[engine[e] EXCEPT !.stage = "serving"] EXCEPT !.free = TRUE]
    <3>1. engine' = [engine EXCEPT ![e] = p]
      BY <1>0, <2>2
    <3>2. p \in Processes
      BY <1>0, ProcessFields
    <3> HIDE DEF p
    <3> QED BY <1>0, <2>2, <3>1, <3>2 DEF Serving
  <2> QED BY <1>1, <2>1, <2>2 DEF Claim
<1>2. ASSUME NEW e \in Engines, CreatePipeInstance(e) \/ CloseInstance(e) PROVE NoneMore
  <2>1. CASE engine' = [engine EXCEPT ![e].free = TRUE]
    BY <1>0, <2>1, OneEngine, ProcessFields
  <2>2. CASE engine' = [engine EXCEPT ![e].closing = @ - 1]
    <3> DEFINE n == engine[e].closing - 1
               p == [engine[e] EXCEPT !.closing = n]
    <3>1. engine' = [engine EXCEPT ![e] = p]
      BY <2>2
    <3>2. e \in Engines => n \in Int
      BY <1>0, ProcessFields
    <3>3. e \in Engines => p \in Processes /\ p.stage = engine[e].stage
      <4> HIDE DEF n
      <4> QED BY <1>0, <3>2, ProcessFields
    <3> HIDE DEF p
    <3> QED BY <1>0, <3>1, <3>3, OneEngine
  <2> QED BY <1>2, <2>1, <2>2 DEF CreatePipeInstance, CloseInstance
<1>3. ASSUME NEW e \in Engines, Crash(e) PROVE NoneMore
  <2> DEFINE p == [engine[e] EXCEPT !.stage = "absent"]
             q == [p EXCEPT !.free = FALSE]
             r == [q EXCEPT !.closing = 0]
  <2>1. engine' = [engine EXCEPT ![e] = r]
    BY <1>0, <1>3 DEF Crash, Exit
  <2>2. p \in Processes /\ p.stage = "absent"
    BY <1>0, ProcessFields
  <2>3. q \in Processes /\ q.stage = "absent"
    <3> HIDE DEF p
    <3> QED BY <2>2, ProcessFields
  <2>4. r \in Processes /\ r.stage = "absent"
    <3> HIDE DEF q
    <3>1. \A n \in Int : /\ [q EXCEPT !.closing = n] \in Processes
                         /\ [q EXCEPT !.closing = n].stage = q.stage
      BY <2>3, ProcessFields
    <3>2. 0 \in Int
      OBVIOUS
    <3> QED BY <2>3, <3>1, <3>2
  <2> HIDE DEF r
  <2> QED BY <1>0, <2>1, <2>4, OneEngine
<1>4. ASSUME NEW c, NEW then, NEW otherwise, LaunchEngine(c, then, otherwise) PROVE NoneMore
  <2>1. CASE engine' = engine
    BY <1>0, <2>1 DEF Serving
  <2>2. ASSUME NEW e, engine' = [engine EXCEPT ![e].stage = "loading"] PROVE NoneMore
    BY <1>0, <2>2, OneEngine, ProcessFields
  <2> QED BY <1>4, <2>1, <2>2 DEF LaunchEngine
<1>5. ASSUME NEW c \in Clients, engine' = LeftBy(c) PROVE NoneMore
  <2>1. CASE engine' = engine
    BY <1>0, <2>1 DEF Serving
  <2>2. ASSUME NEW e, engine' = [engine EXCEPT ![e].closing = @ + 1] PROVE NoneMore
    <3> DEFINE n == engine[e].closing + 1
               p == [engine[e] EXCEPT !.closing = n]
    <3>1. engine' = [engine EXCEPT ![e] = p]
      BY <2>2
    <3>2. e \in Engines => n \in Int
      BY <1>0, ProcessFields
    <3>3. e \in Engines => p \in Processes /\ p.stage = engine[e].stage
      <4> HIDE DEF n
      <4> QED BY <1>0, <3>2, ProcessFields
    <3> HIDE DEF p
    <3> QED BY <1>0, <3>1, <3>3, OneEngine
  <2> QED BY <1>5, <2>1, <2>2 DEF LeftBy
<1>6. ASSUME engine' = engine PROVE NoneMore
  BY <1>0, <1>6 DEF Serving
<1>7. ASSUME NEW c \in Clients, PipeStep(c) PROVE NoneMore
  <2>1. ASSUME NEW e \in Engines, OpenPipe(c, e) PROVE NoneMore
    BY <1>0, <2>1, OneEngine, ProcessFields DEF OpenPipe
  <2>2. CASE PipeNotFound(c)
    BY <2>2, <1>4, <1>6 DEF PipeNotFound
  <2>3. CASE ReadReply(c)
    BY <2>3, <1>5, <1>6 DEF ReadReply
  <2>4. CASE \/ \E status \in StatusCodes : Respond(c, status)
             \/ DropConnection(c) \/ ThrottleEnds(c) \/ PipeBusy(c) \/ WaitNamedPipe(c)
             \/ WriteAll(c) \/ ReadFailed(c) \/ ReturnCall(c)
    <3>1. engine' = engine
      BY <2>4 DEF Respond, DropConnection, ThrottleEnds, PipeBusy, WaitNamedPipe, WriteAll,
                  ReadFailed, ReturnCall
    <3> QED BY <3>1, <1>6
  <2> QED BY <1>7, <2>1, <2>2, <2>3, <2>4 DEF PipeStep
<1>8. ASSUME NEW c \in Clients,
             Warmup(c) \/ CloseClient(c) \/ \E kind \in CallKinds : BeginCall(c, kind)
      PROVE  NoneMore
  <2>1. CASE Warmup(c)
    BY <2>1, <1>4 DEF Warmup
  <2>2. CASE CloseClient(c)
    BY <2>2, <1>5 DEF CloseClient
  <2>3. CASE \E kind \in CallKinds : BeginCall(c, kind)
    BY <2>3, <1>6 DEF BeginCall
  <2> QED BY <1>8, <2>1, <2>2, <2>3
<1> QED BY <1>1, <1>2, <1>3, <1>7, <1>8 DEF OthersStep, EngineStep

LEMMA NameInvariant == EngineSpec => []NameInv
<1>1. EngineInit => NameInv
  <2> SUFFICES ASSUME EngineInit PROVE NameInv
    OBVIOUS
  <2>1. engine \in [Engines -> Processes] /\ gap = FALSE
    BY DEF EngineInit, Processes
  <2>2. Serving = {}
    BY DEF EngineInit, Serving
  <2> QED BY <2>1, <2>2 DEF NameInv
<1>2. ASSUME NameInv, EngineNext PROVE NameInv'
  <2>1. /\ engine' \in [Engines -> Processes]
        /\ \/ Serving' \subseteq Serving
           \/ ~NameExists /\ \E e \in Engines : Serving' \subseteq Serving \union {e}
    BY <1>2, ServingShrinks DEF EngineNext
  <2>2. gap' = (gap \/ (Serving' # {} /\ ~NameExists'))
    BY <1>2 DEF EngineNext, NoteGap
  <2> HIDE DEF Serving, NameExists
  <2>3. gap' \in BOOLEAN /\ (~gap' => ~gap /\ (Serving' # {} => NameExists'))
    BY <1>2, <2>2 DEF NameInv
  <2>4. ~gap' => \A e, f \in Serving' : e = f
    BY <1>2, <2>1, <2>3 DEF NameInv
  <2> QED BY <2>1, <2>3, <2>4 DEF NameInv
<1>3. ASSUME NameInv, UNCHANGED engineVars PROVE NameInv'
  BY <1>3 DEF NameInv, engineVars, Serving, NameExists, Linked
<1> QED BY <1>1, <1>2, <1>3, PTL DEF EngineSpec

(* Any number of applications may launch any number of engines: as long as *)
(* the name was never free while an engine served, one serves (Claim is    *)
(* FILE_FLAG_FIRST_PIPE_INSTANCE, PipeServer.swift:174).                   *)
THEOREM OneServerHolds == EngineSpec => []OneServer
<1>1. NameInv => OneServer
  <2> SUFFICES ASSUME NameInv, ~gap PROVE Cardinality(Serving) <= 1
    BY DEF OneServer
  <2>1. CASE Serving = {}
    BY <2>1, FS_EmptySet
  <2>2. ASSUME NEW e \in Serving PROVE Cardinality(Serving) <= 1
    <3>1. Serving = {e}
      BY <2>2 DEF NameInv
    <3>2. Cardinality({e}) = 1
      BY FS_Singleton
    <3> QED BY <3>1, <3>2
  <2> QED BY <2>1, <2>2
<1> QED BY <1>1, NameInvariant, PTL

-----------------------------------------------------------------------------
(* What clients and engines hold.                                          *)

\* The fields that Sound says nothing of, or not all.
Fielded(k) ==
  /\ k.at \in {"idle", "open", "busy", "appear", "write", "read", "done"}
  /\ k.kind \in CallKinds /\ k.attempt \in 0..1
  /\ k.pipe \in Engines \union {NoEngine} /\ k.live \in BOOLEAN
  /\ k.nextId \in 0..(IdLimit - 1) /\ k.id \in 0..(IdLimit - 1)
  /\ k.status \in StatusCodes /\ k.throttle \in BOOLEAN /\ k.calls \in Nat
  /\ k.result \in CallResults \union {"none"}

FieldsInv == CallInv /\ \A c \in Clients : Fielded(client[c])

LEMMA SoundIsTyped == ASSUME NEW k, Sound(k), Fielded(k) PROVE k \in EngineClients
<1>1. k = [f \in ClientFields |-> k[f]]
  BY DEF Sound, IsClient
<1>2. /\ k.sent \in Seq(0..(IdLimit - 1))
      /\ k.replies \in Seq([id : 0..(IdLimit - 1), status : StatusCodes])
  <2> DEFINE ids == 0..(IdLimit - 1)
             asked == <<k.id>>  answered == <<[id |-> k.id, status |-> k.truth]>>
  <2>1. k.id \in ids /\ k.truth \in StatusCodes
    BY DEF Sound, Truthful, Fielded
  <2>2. k.sent \in {<<>>, asked} /\ k.replies \in {<<>>, answered}
    BY DEF Sound, PipeHolds
  <2> HIDE DEF ids
  <2>3. /\ <<>> \in Seq(ids) /\ <<>> \in Seq([id : ids, status : StatusCodes])
        /\ asked \in Seq(ids) /\ answered \in Seq([id : ids, status : StatusCodes])
    BY <2>1
  <2> HIDE DEF asked, answered
  <2>4. k.sent \in Seq(ids) /\ k.replies \in Seq([id : ids, status : StatusCodes])
    BY <2>2, <2>3, Zenon
  <2> QED BY <2>4 DEF ids
<1>3. k.truth \in StatusCodes /\ k.served \in 0..2 /\ k.losses \in 0..2
  BY DEF Sound, Truthful, LosesOnce
<1> QED BY <1>1, <1>2, <1>3 DEF EngineClients, ClientFields, Fielded

LEMMA NewIsFielded ==
  ASSUME NEW n \in Nat PROVE Fielded(NewClient) /\ Fielded([NewClient EXCEPT !.calls = n])
BY EngineClientAssumption DEF Fielded, NewClient, CallKinds, StatusCodes, CallResults

LEMMA OneFielded ==
  ASSUME FieldsInv, CallInv', NEW c \in Clients, NEW k, Fielded(k), client' = [client EXCEPT ![c] = k]
  PROVE  FieldsInv'
BY DEF FieldsInv, CallInv

LEMMA NumberedIsFielded ==
  ASSUME NEW k, IsClient(k), Fielded(k) PROVE Fielded(Numbered(k))
<1>1. (k.nextId + 1) % IdLimit \in 0..(IdLimit - 1)
  BY EngineClientAssumption DEF Fielded
<1> DEFINE n == (k.nextId + 1) % IdLimit
<1>2. Numbered(k) = [k EXCEPT !.id = k.nextId, !.nextId = n]
  BY DEF Numbered
<1> HIDE DEF n
<1>3. n \in 0..(IdLimit - 1)
  BY <1>1 DEF n
<1> QED BY <1>2, <1>3 DEF Fielded, IsClient, ClientFields

\* A call that has ended, a connection that has.
LEMMA EndsAreFielded ==
  ASSUME NEW k, IsClient(k), Fielded(k), NEW result \in CallResults
  PROVE  Fielded(Finish(k, result)) /\ Fielded(Lose(k, result))
<1>1. Fielded(Finish(k, result))
  BY DEF Fielded, IsClient, ClientFields, Finish
<1>2. Fielded(Lose(k, result))
  BY DEF Fielded, IsClient, ClientFields, Finish, Lose, Disconnect
<1> QED BY <1>1, <1>2

\* Looking for the pipe.
LEMMA MovesAreFielded ==
  ASSUME NEW k, IsClient(k), Fielded(k)
  PROVE  /\ \A at \in {"open", "busy", "appear"} :
              Fielded([k EXCEPT !.at = at]) /\ Fielded([k EXCEPT !.at = at, !.attempt = 1])
         /\ \A e \in Engines :
              Fielded([k EXCEPT !.pipe = e, !.live = TRUE, !.at = "write", !.losses = 0])
         /\ \A b \in BOOLEAN : Fielded([k EXCEPT !.throttle = b])
<1>1. ASSUME NEW at \in {"open", "busy", "appear"} PROVE Fielded([k EXCEPT !.at = at])
  BY DEF Fielded, IsClient, ClientFields
<1>2. ASSUME NEW at \in {"open", "busy", "appear"}
      PROVE  Fielded([k EXCEPT !.at = at, !.attempt = 1])
  BY DEF Fielded, IsClient, ClientFields
<1>3. ASSUME NEW e \in Engines
      PROVE  Fielded([k EXCEPT !.pipe = e, !.live = TRUE, !.at = "write", !.losses = 0])
  BY DEF Fielded, IsClient, ClientFields
<1>4. ASSUME NEW b \in BOOLEAN PROVE Fielded([k EXCEPT !.throttle = b])
  BY DEF Fielded, IsClient, ClientFields
<1> QED BY <1>1, <1>2, <1>3, <1>4

LEMMA LaunchFielded ==
  ASSUME FieldsInv, CallInv', NEW c \in Clients, NEW then, NEW otherwise,
         IsClient(then), IsClient(otherwise), Fielded(then), Fielded(otherwise),
         LaunchEngine(c, then, otherwise)
  PROVE  FieldsInv'
<1>1. CASE client' = [client EXCEPT ![c] = otherwise]
  BY <1>1, OneFielded
<1>2. CASE client' = [client EXCEPT ![c] = [otherwise EXCEPT !.throttle = TRUE]]
  BY <1>2, OneFielded, MovesAreFielded
<1>3. CASE client' = [client EXCEPT ![c] = [then EXCEPT !.throttle = TRUE]]
  BY <1>3, OneFielded, MovesAreFielded
<1> QED BY <1>1, <1>2, <1>3 DEF LaunchEngine

LEMMA BeginFielded ==
  ASSUME FieldsInv, CallInv', NEW c \in Clients, NEW kind \in CallKinds, BeginCall(c, kind)
  PROVE  FieldsInv'
<1> DEFINE n == client[c].calls + 1
           at == IF client[c].pipe = NoEngine THEN "open" ELSE "write"
           k == [client[c] EXCEPT !.kind = kind, !.calls = n, !.at = at]
<1>1. IsClient(client[c]) /\ Fielded(client[c])
  BY DEF FieldsInv, CallInv, Sound
<1>2. n \in Nat /\ at \in {"open", "write"}
  BY <1>1 DEF Fielded
<1>3. client' = [client EXCEPT ![c] = IF kind = "commit" THEN Numbered(k) ELSE k]
  BY DEF BeginCall
<1> HIDE DEF n, at
<1>4. IsClient(k) /\ Fielded(k)
  BY <1>1, <1>2 DEF Fielded, IsClient, ClientFields
<1> HIDE DEF k
<1> QED BY <1>3, <1>4, NumberedIsFielded, OneFielded

LEMMA PipeStepFielded ==
  ASSUME FieldsInv, CallInv', NEW c \in Clients, PipeStep(c) PROVE FieldsInv'
<1> DEFINE k == client[c]
<1>1. Sound(k) /\ IsClient(k) /\ Fielded(k)
  BY DEF FieldsInv, CallInv, Sound
<1>2. /\ Fielded(Finish(k, "NotConnected")) /\ Fielded(Lose(k, "ReadFailed"))
      /\ Fielded(Lose(k, "BadResponse"))
  BY <1>1, EndsAreFielded DEF CallResults
<1>3. ASSUME NEW status \in StatusCodes, Respond(c, status) PROVE FieldsInv'
  <2> DEFINE sent == Tail(k.sent)  replies == Append(k.replies, [id |-> Head(k.sent), status |-> status])
             served == IF k.served < 2 THEN k.served + 1 ELSE k.served
             m == [k EXCEPT !.sent = sent, !.replies = replies, !.truth = status, !.served = served]
  <2>1. client' = [client EXCEPT ![c] = m]
    BY <1>3, <1>1 DEF Respond, IsClient, ClientFields
  <2> HIDE DEF sent, replies, served
  <2>2. Fielded(m)
    BY <1>1 DEF Fielded, IsClient, ClientFields
  <2> HIDE DEF m
  <2> QED BY <2>1, <2>2, OneFielded
<1>4. CASE DropConnection(c)
  <2> DEFINE m == [k EXCEPT !.live = FALSE, !.sent = <<>>]
  <2>1. client' = [client EXCEPT ![c] = m]
    BY <1>4 DEF DropConnection, FieldsInv, CallInv
  <2>2. Fielded(m)
    BY <1>1 DEF Fielded, IsClient, ClientFields
  <2> QED BY <2>1, <2>2, OneFielded
<1>5. CASE ThrottleEnds(c)
  <2>1. client' = [client EXCEPT ![c] = [k EXCEPT !.throttle = FALSE]]
    BY <1>5 DEF ThrottleEnds
  <2> QED BY <1>1, <2>1, MovesAreFielded, OneFielded
<1>6. ASSUME NEW e \in Engines, OpenPipe(c, e) PROVE FieldsInv'
  <2>1. client' = [client EXCEPT ![c] =
                     [k EXCEPT !.pipe = e, !.live = TRUE, !.at = "write", !.losses = 0]]
    BY <1>6 DEF OpenPipe
  <2> QED BY <1>1, <2>1, MovesAreFielded, OneFielded
<1>7. CASE PipeBusy(c)
  <2>1. client' = [client EXCEPT ![c] = [k EXCEPT !.at = "busy"]]
    BY <1>7 DEF PipeBusy
  <2> QED BY <1>1, <2>1, MovesAreFielded, OneFielded
<1>8. CASE PipeNotFound(c)
  <2> DEFINE appears == [k EXCEPT !.at = "appear"]  fails == Finish(k, "NotConnected")
  <2>1. IsClient(appears) /\ IsClient(fails)
    BY <1>1 DEF IsClient, ClientFields, Finish
  <2>2. Fielded(appears) /\ Fielded(fails)
    BY <1>1, <1>2, MovesAreFielded
  <2>3. LaunchEngine(c, appears, fails) \/ client' = [client EXCEPT ![c] = fails]
    BY <1>8 DEF PipeNotFound, Fail
  <2> HIDE DEF appears, fails
  <2> QED BY <2>1, <2>2, <2>3, LaunchFielded, OneFielded
<1>9. CASE WaitNamedPipe(c)
  <2>1. Fielded(Retry(k))
    BY <1>1, <1>2, MovesAreFielded DEF Retry
  <2>2. client' = [client EXCEPT ![c] = Finish(k, "NotConnected")]
        \/ client' = [client EXCEPT ![c] = Retry(k)]
    BY <1>9 DEF WaitNamedPipe
  <2> QED BY <1>2, <2>1, <2>2, OneFielded
<1>10. CASE WriteAll(c)
  <2> DEFINE m == IF k.kind = "convert" THEN Numbered(k) ELSE k
             sent == Append(m.sent, m.id)
             asked == [m EXCEPT !.sent = sent, !.at = "read"]
  <2>1. IsClient(m) /\ Fielded(m)
    BY <1>1, NumberedIsFielded, NumberedIsSound, <1>10 DEF Sound, WriteAll
  <2>2. \/ client' = [client EXCEPT ![c] = Lose(m, "WriteFailed")]
        \/ client' = [client EXCEPT ![c] = asked]
    BY <1>10 DEF WriteAll
  <2> HIDE DEF m, sent
  <2>3. Fielded(Lose(m, "WriteFailed"))
    BY <2>1, EndsAreFielded DEF CallResults
  <2>4. Fielded(asked)
    BY <2>1 DEF Fielded, IsClient, ClientFields
  <2> HIDE DEF asked
  <2> QED BY <2>2, <2>3, <2>4, OneFielded
<1>11. CASE ReadFailed(c)
  <2>1. client' = [client EXCEPT ![c] = Lose(k, "ReadFailed")]
    BY <1>11 DEF ReadFailed
  <2> QED BY <1>2, <2>1, OneFielded
<1>12. CASE ReadReply(c)
  <2> DEFINE rest == Tail(k.replies)
             code == ParseStatus(k, Head(k.replies))
             result == IF code = "ok" THEN "Ok" ELSE "Status"
             m == [k EXCEPT !.replies = rest, !.status = code]
  <2>1. k.replies = <<[id |-> k.id, status |-> k.truth]>> /\ k.truth \in StatusCodes
    BY <1>1, <1>12 DEF Sound, PipeHolds, Truthful, ReadReply
  <2>2. code \in StatusCodes /\ result \in CallResults
    <3>1. Head(k.replies).status = k.truth
      BY <2>1
    <3> QED BY <2>1, <3>1 DEF ParseStatus, CallResults
  <2>3. \/ client' = [client EXCEPT ![c] = Finish(m, result)]
        \/ client' = [client EXCEPT ![c] = Lose(k, "BadResponse")]
    BY <1>12, <1>1 DEF ReadReply, IsClient, ClientFields
  <2> HIDE DEF rest, code, result
  <2>4. IsClient(m) /\ Fielded(m)
    BY <1>1, <2>2 DEF Fielded, IsClient, ClientFields
  <2> HIDE DEF m
  <2>5. Fielded(Finish(m, result))
    BY <2>2, <2>4, EndsAreFielded
  <2> QED BY <1>2, <2>3, <2>5, OneFielded
<1>13. CASE ReturnCall(c)
  <2> DEFINE m == [k EXCEPT !.at = "idle", !.kind = "convert", !.attempt = 0, !.id = 0,
                            !.result = "none", !.truth = "ok", !.served = 0]
  <2>1. client' = [client EXCEPT ![c] = m]
    BY <1>13 DEF ReturnCall
  <2>2. Fielded(m)
    BY <1>1, EngineClientAssumption DEF Fielded, IsClient, ClientFields, CallKinds
  <2> HIDE DEF m
  <2> QED BY <2>1, <2>2, OneFielded
<1> QED BY <1>3, <1>4, <1>5, <1>6, <1>7, <1>8, <1>9, <1>10, <1>11, <1>12, <1>13 DEF PipeStep

LEMMA StepFielded == ASSUME FieldsInv, EngineNext PROVE FieldsInv'
<1>0. CallInv' /\ CallInv
  BY StepSound DEF FieldsInv
<1>1. ASSUME NEW e \in Engines, Claim(e) \/ CreatePipeInstance(e) \/ CloseInstance(e)
      PROVE  FieldsInv'
  BY <1>0, <1>1 DEF FieldsInv, Claim, CreatePipeInstance, CloseInstance
<1>2. ASSUME NEW e \in Engines, Crash(e) PROVE FieldsInv'
  <2>1. PICK kept \in BOOLEAN : client' = [c \in Clients |-> Cut(client[c], e, kept)]
    BY <1>2 DEF Crash, Exit
  <2>2. ASSUME NEW c \in Clients PROVE Fielded(Cut(client[c], e, kept))
    <3> DEFINE k == client[c]
               m == [k EXCEPT !.live = FALSE, !.sent = <<>>, !.replies = IF kept THEN @ ELSE <<>>]
    <3>1. IsClient(k) /\ Fielded(k)
      BY DEF FieldsInv, CallInv, Sound
    <3>2. Fielded(m)
      BY <3>1 DEF Fielded, IsClient, ClientFields
    <3> QED BY <3>1, <3>2 DEF Cut
  <2> QED BY <1>0, <2>1, <2>2 DEF FieldsInv
<1>3. ASSUME NEW c \in Clients, PipeStep(c) PROVE FieldsInv'
  BY <1>0, <1>3, PipeStepFielded
<1>4. ASSUME NEW c \in Clients, Warmup(c) PROVE FieldsInv'
  <2>1. IsClient(client[c]) /\ Fielded(client[c])
    BY DEF FieldsInv, CallInv, Sound
  <2> QED BY <1>0, <1>4, <2>1, LaunchFielded DEF Warmup
<1>5. ASSUME NEW c \in Clients, CloseClient(c) PROVE FieldsInv'
  <2>1. client[c].calls \in Nat
    BY DEF FieldsInv, Fielded
  <2> QED BY <1>0, <1>5, <2>1, NewIsFielded, OneFielded DEF CloseClient
<1>6. ASSUME NEW c \in Clients, NEW kind \in CallKinds, BeginCall(c, kind) PROVE FieldsInv'
  BY <1>0, <1>6, BeginFielded
<1> QED BY <1>1, <1>2, <1>3, <1>4, <1>5, <1>6 DEF EngineNext, OthersStep, EngineStep

\* An engine is what it is, but for its stage and its instances.
LEMMA ProcessIs ==
  ASSUME NEW p \in EngineProcesses
  PROVE  /\ p.closing \in 0..1
         /\ \A s \in {"absent", "loading", "serving"} :
              /\ [p EXCEPT !.stage = s] \in EngineProcesses
              /\ \A free \in BOOLEAN :
                   /\ [p EXCEPT !.stage = s, !.free = free] \in EngineProcesses
                   /\ [p EXCEPT !.stage = s, !.free = free, !.closing = 0] \in EngineProcesses
         /\ \A free \in BOOLEAN : [p EXCEPT !.free = free] \in EngineProcesses
         /\ \A n \in 0..1 : [p EXCEPT !.closing = n] \in EngineProcesses
<1> DEFINE stages == {"absent", "loading", "serving"}
<1>1. EngineProcesses = [stage : stages, free : BOOLEAN, closing : 0..1] /\ 0 \in 0..1
  BY DEF EngineProcesses, MaxClosing
<1> HIDE DEF stages
<1>2. p.closing \in 0..1
  BY <1>1
<1>3. ASSUME NEW s \in stages
      PROVE  /\ [p EXCEPT !.stage = s] \in EngineProcesses
             /\ \A free \in BOOLEAN :
                  /\ [p EXCEPT !.stage = s, !.free = free] \in EngineProcesses
                  /\ [p EXCEPT !.stage = s, !.free = free, !.closing = 0] \in EngineProcesses
  BY <1>1
<1>4. \A free \in BOOLEAN : [p EXCEPT !.free = free] \in EngineProcesses
  BY <1>1
<1>5. \A n \in 0..1 : [p EXCEPT !.closing = n] \in EngineProcesses
  BY <1>1
<1> QED BY <1>2, <1>3, <1>4, <1>5 DEF stages

LEMMA OneProcess ==
  ASSUME engine \in [Engines -> EngineProcesses], NEW e, NEW p,
         e \in Engines => p \in EngineProcesses, engine' = [engine EXCEPT ![e] = p]
  PROVE  engine' \in [Engines -> EngineProcesses]
OBVIOUS

LEMMA EnginesStay ==
  ASSUME engine \in [Engines -> EngineProcesses], OthersStep({})
  PROVE  engine' \in [Engines -> EngineProcesses]
<1> DEFINE Stay == engine' \in [Engines -> EngineProcesses]
<1>2. ASSUME NEW e \in Engines, Claim(e) PROVE Stay
  BY <1>2, ProcessIs DEF Claim
<1>3. ASSUME NEW e \in Engines, CreatePipeInstance(e) PROVE Stay
  BY <1>3, ProcessIs DEF CreatePipeInstance
<1>4. ASSUME NEW e \in Engines, CloseInstance(e) PROVE Stay
  <2> DEFINE n == engine[e].closing - 1
  <2>1. engine' = [engine EXCEPT ![e] = [engine[e] EXCEPT !.closing = n]]
    BY <1>4 DEF CloseInstance
  <2>2. n \in 0..1
    <3>1. engine[e].closing \in 0..1 /\ engine[e].closing > 0
      BY <1>4, ProcessIs DEF CloseInstance
    <3> QED BY <3>1
  <2> HIDE DEF n
  <2> QED BY <2>1, <2>2, ProcessIs, OneProcess
<1>5. ASSUME NEW e \in Engines, Crash(e) PROVE Stay
  <2>1. engine' = [engine EXCEPT ![e] =
                     [engine[e] EXCEPT !.stage = "absent", !.free = FALSE, !.closing = 0]]
    BY <1>5 DEF Crash, Exit
  <2> QED BY <2>1, ProcessIs, OneProcess
<1>6. ASSUME NEW c, NEW then, NEW otherwise, LaunchEngine(c, then, otherwise) PROVE Stay
  <2>1. ASSUME NEW e, engine' = [engine EXCEPT ![e].stage = "loading"] PROVE Stay
    BY <2>1, ProcessIs, OneProcess
  <2> QED BY <1>6, <2>1 DEF LaunchEngine
<1>7. ASSUME NEW c \in Clients, MayLeave(c), engine' = LeftBy(c) PROVE Stay
  <2> DEFINE e == client[c].pipe  n == engine[e].closing + 1
  <2>1. CASE ~client[c].live
    BY <1>7, <2>1 DEF LeftBy
  <2>2. CASE client[c].live
    <3>1. engine' = [engine EXCEPT ![e] = [engine[e] EXCEPT !.closing = n]]
      BY <1>7, <2>2 DEF LeftBy
    <3>2. e \in Engines => n \in 0..1
      <4> SUFFICES ASSUME e \in Engines PROVE n \in 0..1
        OBVIOUS
      <4>1. engine[e].closing \in 0..1
        BY ProcessIs
      <4>2. engine[e].closing < 1
        BY <1>7, <2>2 DEF MayLeave, MaxClosing
      <4> QED BY <4>1, <4>2
    <3> HIDE DEF n, e
    <3>3. e \in Engines => [engine[e] EXCEPT !.closing = n] \in EngineProcesses
      BY <3>2, ProcessIs
    <3> QED BY <3>1, <3>3, OneProcess
  <2> QED BY <2>1, <2>2
<1>8. ASSUME NEW c \in Clients, PipeStep(c) PROVE Stay
  <2>1. ASSUME NEW e \in Engines, OpenPipe(c, e) PROVE Stay
    BY <2>1, ProcessIs DEF OpenPipe
  <2>2. CASE PipeNotFound(c)
    BY <2>2, <1>6 DEF PipeNotFound
  <2>3. CASE ReadReply(c)
    BY <2>3, <1>7 DEF ReadReply
  <2>4. CASE \/ \E status \in StatusCodes : Respond(c, status)
             \/ DropConnection(c) \/ ThrottleEnds(c) \/ PipeBusy(c) \/ WaitNamedPipe(c)
             \/ WriteAll(c) \/ ReadFailed(c) \/ ReturnCall(c)
    BY <2>4 DEF Respond, DropConnection, ThrottleEnds, PipeBusy, WaitNamedPipe, WriteAll,
                ReadFailed, ReturnCall
  <2> QED BY <1>8, <2>1, <2>2, <2>3, <2>4 DEF PipeStep
<1>9. ASSUME NEW c \in Clients, Warmup(c) PROVE Stay
  BY <1>6, <1>9 DEF Warmup
<1>10. ASSUME NEW c \in Clients, CloseClient(c) PROVE Stay
  BY <1>7, <1>10 DEF CloseClient
<1>11. ASSUME NEW c \in Clients, NEW kind \in CallKinds, BeginCall(c, kind) PROVE Stay
  BY <1>11 DEF BeginCall
<1> QED BY <1>2, <1>3, <1>4, <1>5, <1>8, <1>9, <1>10, <1>11 DEF OthersStep, EngineStep

(* Whatever is launched, cut off and numbered: request ids stay within     *)
(* their width (NextRequestId), no call is served more than twice, no      *)
(* connection loses more than two, and an engine has no more instances     *)
(* left by clients than are counted.                                       *)
THEOREM EnginesAreTyped == EngineSpec => []EngineTypeOK
<1> DEFINE Inv == /\ FieldsInv /\ limit \in Limits /\ gap \in BOOLEAN
                  /\ engine \in [Engines -> EngineProcesses]
<1>1. EngineInit => Inv
  <2> SUFFICES ASSUME EngineInit PROVE Inv
    OBVIOUS
  <2>1. CallInv
    BY NewIsSound DEF EngineInit, CallInv
  <2>2. \A c \in Clients : Fielded(client[c])
    <3>1. 0 \in Nat
      OBVIOUS
    <3> QED BY <3>1, NewIsFielded DEF EngineInit
  <2>3. engine \in [Engines -> EngineProcesses]
    BY DEF EngineInit, EngineProcesses, MaxClosing
  <2> QED BY <2>1, <2>2, <2>3 DEF EngineInit, FieldsInv
<1>2. Inv /\ [EngineNext]_engineVars => Inv'
  <2>1. ASSUME Inv, EngineNext PROVE Inv'
    <3>1. gap' \in BOOLEAN /\ limit' = limit
      BY <2>1 DEF EngineNext, NoteGap
    <3>2. engine' \in [Engines -> EngineProcesses]
      BY <2>1, EnginesStay DEF EngineNext
    <3> QED BY <2>1, <3>1, <3>2, StepFielded
  <2>2. ASSUME Inv, UNCHANGED engineVars PROVE Inv'
    BY <2>2 DEF engineVars, FieldsInv, CallInv
  <2> QED BY <2>1, <2>2
<1>3. Inv => EngineTypeOK
  <2> SUFFICES ASSUME Inv PROVE EngineTypeOK
    OBVIOUS
  <2>1. \A c \in Clients : client[c] \in EngineClients
    BY SoundIsTyped DEF FieldsInv, CallInv
  <2>2. client \in [Clients -> EngineClients]
    BY <2>1 DEF FieldsInv, CallInv
  <2> QED BY <2>2 DEF EngineTypeOK
<1> QED BY <1>1, <1>2, <1>3, PTL DEF EngineSpec

-----------------------------------------------------------------------------
(* What Conversion keeps of a sequence: where it was, and in which order.  *)

\* Indices of a set are counted up to each of them.
LEMMA RankCounts ==
  ASSUME NEW n \in Nat, NEW S \in SUBSET (1..n)
  PROVE  /\ IsFiniteSet(S) /\ Cardinality(S) \in 0..n
         /\ \A i \in S : Rank(i, S) \in 1..Cardinality(S)
         /\ \A i, k \in S : i < k => Rank(i, S) < Rank(k, S)
<1> DEFINE Upto(i) == {j \in S : j <= i}
<1>1. /\ IsFiniteSet(1..n) /\ Cardinality(1..n) = n
  BY FS_Interval
<1>2. IsFiniteSet(S) /\ Cardinality(S) \in Nat /\ Cardinality(S) <= n
  BY <1>1, FS_Subset, FS_CardinalityType
<1>3. ASSUME NEW i \in S
      PROVE  /\ IsFiniteSet(Upto(i)) /\ Cardinality(Upto(i)) \in 1..Cardinality(S)
             /\ Rank(i, S) = Cardinality(Upto(i))
  <2>1. Upto(i) \in SUBSET S /\ i \in Upto(i)
    OBVIOUS
  <2>4. Rank(i, S) = Cardinality(Upto(i))
    BY DEF Rank
  <2> HIDE DEF Upto
  <2>2. IsFiniteSet(Upto(i)) /\ Cardinality(Upto(i)) <= Cardinality(S)
    BY <2>1, <1>2, FS_Subset
  <2>3. Cardinality(Upto(i)) \in Nat /\ Cardinality(Upto(i)) # 0
    BY <2>1, <2>2, FS_CardinalityType, FS_EmptySet
  <2> QED BY <2>2, <2>3, <2>4, <1>2
<1>4. ASSUME NEW i \in S, NEW k \in S, i < k
      PROVE  Rank(i, S) < Rank(k, S)
  <2>1. S \subseteq Int /\ i \in Int /\ k \in Int
    OBVIOUS
  <2>2. Upto(i) \in SUBSET Upto(k)
    <3>1. ASSUME NEW j \in S, j <= i PROVE j <= k
      BY <1>4, <2>1, <3>1
    <3> QED BY <3>1
  <2>3. k \in Upto(k) /\ k \notin Upto(i)
    BY <1>4, <2>1
  <2> HIDE DEF Upto
  <2>4. /\ IsFiniteSet(Upto(k)) /\ Cardinality(Upto(k)) \in Nat /\ Cardinality(Upto(i)) \in Nat
        /\ Rank(i, S) = Cardinality(Upto(i)) /\ Rank(k, S) = Cardinality(Upto(k))
    BY <1>2, <1>3
  <2>5. Cardinality(Upto(i)) <= Cardinality(Upto(k)) /\ Cardinality(Upto(i)) # Cardinality(Upto(k))
    BY <2>2, <2>3, <2>4, FS_Subset
  <2> QED BY <2>4, <2>5
<1>5. \A i \in S : Rank(i, S) \in 1..Cardinality(S)
  BY <1>3
<1> HIDE DEF Upto
<1> QED BY <1>2, <1>4, <1>5

LEMMA RankIsPlace ==
  ASSUME NEW n \in Nat, NEW i \in 1..n
  PROVE  Rank(i, 1..n) = i
<1>1. {j \in 1..n : j <= i} = 1..i
  OBVIOUS
<1>2. Cardinality(1..i) = i
  BY FS_Interval
<1> QED BY <1>1, <1>2 DEF Rank

\* Every number up to that of the indices is the rank of one.
LEMMA RankReaches ==
  ASSUME NEW n \in Nat, NEW S \in SUBSET (1..n), NEW k \in 1..Cardinality(S)
  PROVE  \E i \in S : Rank(i, S) = k
<1> DEFINE r == [i \in S |-> Rank(i, S)]
           T == 1..Cardinality(S)
<1>1. /\ IsFiniteSet(S) /\ Cardinality(S) \in Nat
      /\ \A i \in S : Rank(i, S) \in T
      /\ \A i, m \in S : i < m => Rank(i, S) < Rank(m, S)
  BY RankCounts
<1>2. IsFiniteSet(T) /\ Cardinality(T) = Cardinality(S)
  BY <1>1, FS_Interval
<1>3. r \in Injection(S, T)
  <2>1. ASSUME NEW i \in S, NEW m \in S, r[i] = r[m] PROVE i = m
    <3>1. Rank(i, S) = Rank(m, S) /\ i \in Int /\ m \in Int /\ Rank(i, S) \in Int
      BY <2>1, <1>1
    <3>2. ~ (i < m) /\ ~ (m < i)
      BY <3>1, <1>1
    <3> QED BY <3>1, <3>2
  <2>2. r \in [S -> T]
    BY <1>1
  <2> HIDE DEF r, T
  <2> QED BY <2>1, <2>2 DEF Injection, IsInjective
<1>4. r \in Surjection(S, T)
  <2> HIDE DEF r, T
  <2>1. Cardinality(S) = Cardinality(T) <=> r \in Surjection(S, T)
    BY <1>2, <1>3, FS_Injection
  <2> QED BY <1>2, <2>1
<1>5. k \in T
  OBVIOUS
<1>6. \E i \in S : r[i] = k
  <2> HIDE DEF r, T
  <2> QED BY <1>4, <1>5 DEF Surjection
<1> QED BY <1>6

Place(S, k) == CHOOSE i \in S : Rank(i, S) = k

\* What is kept of a sequence, where it was, and in which order.
LEMMA KeptIs ==
  ASSUME NEW q, NEW n \in Nat, NEW S \in SUBSET (1..n)
  PROVE  LET m == Cardinality(S)
         IN /\ m \in 0..n
            /\ Kept(q, S) = [k \in 1..m |-> q[Place(S, k)]]
            /\ \A k \in 1..m : Place(S, k) \in S /\ Rank(Place(S, k), S) = k
            /\ \A i \in S : Rank(i, S) \in 1..m /\ Place(S, Rank(i, S)) = i
            /\ \A j, k \in 1..m : j < k <=> Place(S, j) < Place(S, k)
<1> DEFINE m == Cardinality(S)
<1>1. /\ m \in 0..n
      /\ \A i \in S : Rank(i, S) \in 1..m
      /\ \A i, k \in S : i < k => Rank(i, S) < Rank(k, S)
  BY RankCounts
<1>2. ASSUME NEW k \in 1..m PROVE Place(S, k) \in S /\ Rank(Place(S, k), S) = k
  BY RankReaches DEF Place
<1>3. Kept(q, S) = [k \in 1..m |-> q[Place(S, k)]]
  BY DEF Kept, Place
<1> HIDE DEF m
<1>4. ASSUME NEW i \in S PROVE Place(S, Rank(i, S)) = i
  <2> DEFINE p == Place(S, Rank(i, S))
  <2>1. p \in S /\ Rank(p, S) = Rank(i, S) /\ Rank(i, S) \in Int
    BY <1>1, <1>2
  <2> HIDE DEF p
  <2>2. ~ (i < p) /\ ~ (p < i)
    BY <1>1, <2>1
  <2>3. p \in Int /\ i \in Int
    BY <2>1
  <2>4. p = i
    BY <2>2, <2>3
  <2> QED BY <2>4 DEF p
<1>5. ASSUME NEW j \in 1..m, NEW k \in 1..m
      PROVE  j < k <=> Place(S, j) < Place(S, k)
  <2> DEFINE a == Place(S, j)
             b == Place(S, k)
  <2>1. a \in S /\ Rank(a, S) = j /\ b \in S /\ Rank(b, S) = k
    BY <1>2
  <2> HIDE DEF a, b
  <2>2. a \in Int /\ b \in Int /\ j \in Int /\ k \in Int
    BY <2>1
  <2>3. a < b => j < k
    BY <1>1, <2>1
  <2>4. b < a => k < j
    BY <1>1, <2>1
  <2>5. a = b => j = k
    BY <2>1
  <2>6. j < k <=> a < b
    BY <2>2, <2>3, <2>4, <2>5
  <2> QED BY <2>6 DEF a, b
<1> QED BY <1>1, <1>2, <1>3, <1>4, <1>5 DEF m

LEMMA KeptAll ==
  ASSUME NEW T, NEW q \in Seq(T)
  PROVE  Kept(q, DOMAIN q) = q
<1> DEFINE n == Len(q)
<1>1. n \in Nat /\ DOMAIN q = 1..n /\ q = [k \in 1..n |-> q[k]]
  OBVIOUS
<1>2. Cardinality(1..n) = n
  BY <1>1, FS_Interval
<1> HIDE DEF n
<1>3. ASSUME NEW k \in 1..n PROVE Place(1..n, k) = k
  <2>1. \A i \in 1..n : Rank(i, 1..n) = i
    BY <1>1, RankIsPlace
  <2> QED BY <2>1 DEF Place
<1>4. Kept(q, 1..n) = [k \in 1..n |-> q[Place(1..n, k)]]
  BY <1>2 DEF Kept, Place
<1>5. [k \in 1..n |-> q[Place(1..n, k)]] = [k \in 1..n |-> q[k]]
  BY <1>3
<1> QED BY <1>1, <1>4, <1>5

NoRepeats(q) == \A i, j \in DOMAIN q : q[i] = q[j] => i = j

LEMMA KeptSequence ==
  ASSUME NEW T, NEW q \in Seq(T), NEW S \in SUBSET (DOMAIN q)
  PROVE  LET m == Cardinality(S)
         IN /\ m \in 0..Len(q) /\ Kept(q, S) \in Seq({q[i] : i \in S})
            /\ Kept(q, S) = [k \in 1..m |-> q[Place(S, k)]]
            /\ DOMAIN Kept(q, S) = 1..m /\ Len(Kept(q, S)) = m
            /\ ToSet(Kept(q, S)) = {q[i] : i \in S}
            /\ (\A i, j \in S : q[i] = q[j] => i = j) => NoRepeats(Kept(q, S))
<1> DEFINE m == Cardinality(S)
           K == Kept(q, S)
           R == {q[i] : i \in S}
<1>1. Len(q) \in Nat /\ S \in SUBSET (1..Len(q))
  OBVIOUS
<1>2. /\ m \in 0..Len(q)
      /\ K = [k \in 1..m |-> q[Place(S, k)]]
      /\ \A k \in 1..m : Place(S, k) \in S /\ Rank(Place(S, k), S) = k
      /\ \A i \in S : Rank(i, S) \in 1..m /\ Place(S, Rank(i, S)) = i
  BY <1>1, KeptIs
<1>3. \A k \in 1..m : q[Place(S, k)] \in R
  BY <1>2
<1> HIDE DEF m, K
<1>4. m \in Nat /\ DOMAIN K = 1..m /\ \A k \in 1..m : K[k] = q[Place(S, k)]
  BY <1>2
<1>5. R \subseteq {K[k] : k \in 1..m}
  <2> SUFFICES ASSUME NEW i \in S PROVE q[i] \in {K[k] : k \in 1..m}
    OBVIOUS
  <2>1. Rank(i, S) \in 1..m /\ K[Rank(i, S)] = q[i]
    BY <1>2, <1>4
  <2> QED BY <2>1
<1>6. {K[k] : k \in 1..m} \subseteq R
  BY <1>3, <1>4
<1> HIDE DEF R
<1>7. K \in [1..m -> R]
  BY <1>2, <1>3
<1>8. K \in Seq(R) /\ Len(K) = m
  BY <1>4, <1>7
<1>9. ToSet(K) = R
  BY <1>4, <1>5, <1>6 DEF ToSet
<1>10. ASSUME \A i, j \in S : q[i] = q[j] => i = j
       PROVE  NoRepeats(K)
  <2> SUFFICES ASSUME NEW a \in 1..m, NEW b \in 1..m, K[a] = K[b] PROVE a = b
    BY <1>4 DEF NoRepeats
  <2>1. Place(S, a) = Place(S, b)
    BY <1>2, <1>4, <1>10
  <2> QED BY <1>2, <2>1
<1> QED BY <1>2, <1>4, <1>8, <1>9, <1>10 DEF m, K, R

LEMMA WithoutIs ==
  ASSUME NEW T, NEW q \in Seq(T), NEW e
  PROVE  LET W == Without(q, e)
         IN /\ W \in Seq(T \ {e}) /\ Len(W) <= Len(q)
            /\ ToSet(W) = ToSet(q) \ {e}
            /\ NoRepeats(q) => NoRepeats(W)
<1> DEFINE S == {i \in DOMAIN q : q[i] # e}
           K == Kept(q, S)
<1>1. S \in SUBSET (DOMAIN q) /\ \A i \in S : q[i] \in T \ {e}
  OBVIOUS
<1>2. {q[i] : i \in S} = ToSet(q) \ {e}
  BY DEF ToSet
<1>3. Without(q, e) = K
  BY DEF Without
<1> HIDE DEF S
<1>4. {q[i] : i \in S} \subseteq T \ {e}
  BY <1>1
<1>5. /\ Cardinality(S) \in 0..Len(q) /\ K \in Seq({q[i] : i \in S})
      /\ Len(K) = Cardinality(S) /\ ToSet(K) = {q[i] : i \in S}
      /\ (\A i, j \in S : q[i] = q[j] => i = j) => NoRepeats(K)
  BY <1>1, KeptSequence
<1> HIDE DEF K
<1>6. Len(K) <= Len(q)
  BY <1>5
<1>7. K \in Seq(T \ {e})
  BY <1>4, <1>5
<1>8. NoRepeats(q) => NoRepeats(K)
  BY <1>1, <1>5 DEF NoRepeats
<1> QED BY <1>2, <1>3, <1>5, <1>6, <1>7, <1>8

Before(q, k) == {q[j] : j \in 1..(k - 1)}

\* What stays comes after what it came after.
LEMMA WithoutKeepsOrder ==
  ASSUME NEW T, NEW q \in Seq(T), NEW e, NEW k \in 1..Len(Without(q, e)), NoRepeats(q)
  PROVE  LET W == Without(q, e)
         IN \E m \in DOMAIN q :
              W[k] = q[m] /\ Before(W, k) = Before(q, m) \ {e}
<1> DEFINE S == {i \in DOMAIN q : q[i] # e}
           W == Without(q, e)
           c == Cardinality(S)
           m == Place(S, k)
<1>1. Len(q) \in Nat /\ DOMAIN q = 1..Len(q) /\ S \in SUBSET (1..Len(q)) /\ S \in SUBSET (DOMAIN q)
  OBVIOUS
<1>2. \A i \in 1..Len(q) : i \in S <=> q[i] # e
  OBVIOUS
<1>3. W = Kept(q, S)
  BY DEF Without
<1> HIDE DEF S, W
<1>4. Len(W) = c /\ c \in Nat /\ k \in 1..c
  <2>1. c \in 0..Len(q) /\ Len(Kept(q, S)) = c
    BY <1>1, KeptSequence
  <2>2. k \in 1..Len(W)
    BY DEF W
  <2> QED BY <1>1, <1>3, <2>1, <2>2
<1>5. /\ W = [i \in 1..c |-> q[Place(S, i)]]
      /\ \A i \in 1..c : Place(S, i) \in S /\ Rank(Place(S, i), S) = i
      /\ \A i \in S : Rank(i, S) \in 1..c /\ Place(S, Rank(i, S)) = i
      /\ \A i, j \in 1..c : i < j <=> Place(S, i) < Place(S, j)
  BY <1>1, <1>3, KeptIs
<1> HIDE DEF c, m
<1>6. m \in S /\ m \in 1..Len(q) /\ W[k] = q[m]
  BY <1>1, <1>4, <1>5 DEF m
<1>7. ASSUME NEW j \in 1..(k - 1)
      PROVE  W[j] \in {q[i] : i \in 1..(m - 1)} \ {e}
  <2>1. j \in 1..c /\ j < k
    BY <1>4
  <2> DEFINE p == Place(S, j)
  <2>2. p < m /\ p \in S /\ W[j] = q[p]
    BY <1>4, <1>5, <2>1 DEF m
  <2> HIDE DEF p
  <2>3. p \in 1..(m - 1) /\ q[p] # e
    BY <1>1, <1>2, <1>6, <2>2
  <2> QED BY <2>2, <2>3
<1>8. ASSUME NEW i \in 1..(m - 1), q[i] # e
      PROVE  q[i] \in {W[j] : j \in 1..(k - 1)}
  <2>1. i \in S /\ i < m
    BY <1>1, <1>2, <1>6, <1>8
  <2> DEFINE j == Rank(i, S)
  <2>2. j \in 1..c /\ Place(S, j) = i
    BY <1>5, <2>1
  <2> HIDE DEF j
  <2>3. j < k
    BY <1>4, <1>5, <2>1, <2>2 DEF m
  <2>4. j \in 1..(k - 1) /\ W[j] = q[i]
    BY <1>4, <1>5, <2>2, <2>3
  <2> QED BY <2>4
<1>9. {W[j] : j \in 1..(k - 1)} = {q[i] : i \in 1..(m - 1)} \ {e}
  BY <1>7, <1>8
<1> QED BY <1>1, <1>6, <1>9 DEF W, Before

LEMMA AddingIs ==
  ASSUME NEW T, NEW q \in Seq(T), NEW w \in T
  PROVE  /\ Adding(w, q) \in Seq(T) /\ ToSet(q) \subseteq ToSet(Adding(w, q))
         /\ NoRepeats(q) => NoRepeats(Adding(w, q))
<1> DEFINE W == Without(q, w)
           A == Adding(w, q)
<1>1. /\ W \in Seq(T \ {w}) /\ ToSet(W) = ToSet(q) \ {w}
      /\ NoRepeats(q) => NoRepeats(W)
  BY WithoutIs
<1>2. A = Append(W, w)
  BY DEF Adding
<1> HIDE DEF W, A
<1> DEFINE n == Len(W)
<1>3. /\ n \in Nat /\ DOMAIN W = 1..n /\ \A i \in 1..n : W[i] \in T \ {w}
  BY <1>1
<1>4. W \in Seq(T)
  BY <1>1
<1>5. A \in Seq(T) /\ Len(A) = n + 1 /\ A[n + 1] = w /\ \A i \in 1..n : A[i] = W[i]
  BY <1>2, <1>4
<1> HIDE DEF n
<1>6. DOMAIN A = 1..(n + 1)
  BY <1>5
<1>7. ASSUME NEW e \in ToSet(q) PROVE e \in ToSet(A)
  <2>1. CASE e = w
    BY <1>3, <1>5, <1>6, <2>1 DEF ToSet
  <2>2. CASE e # w
    <3>1. e \in ToSet(W)
      BY <1>1, <2>2
    <3>2. PICK i \in 1..n : e = W[i]
      BY <1>3, <3>1 DEF ToSet
    <3>3. i \in DOMAIN A /\ A[i] = e
      BY <1>3, <1>5, <1>6, <3>2
    <3> QED BY <3>3 DEF ToSet
  <2> QED BY <2>1, <2>2
<1>8. ASSUME NoRepeats(q) PROVE NoRepeats(A)
  <2>1. \A i, j \in 1..n : W[i] = W[j] => i = j
    BY <1>1, <1>3, <1>8 DEF NoRepeats
  <2> SUFFICES ASSUME NEW i \in 1..(n + 1), NEW j \in 1..(n + 1), A[i] = A[j] PROVE i = j
    BY <1>6 DEF NoRepeats
  <2>2. CASE i \in 1..n /\ j \in 1..n
    BY <2>1, <2>2, <1>5
  <2>3. CASE i \notin 1..n \/ j \notin 1..n
    BY <2>3, <1>3, <1>5
  <2> QED BY <2>2, <2>3
<1> QED BY <1>5, <1>7, <1>8 DEF A

Readable(lines) ==
  {i \in DOMAIN lines : lines[i] # Broken /\ \A j \in 1..(i - 1) : lines[j] # lines[i]}

LEMMA ParseIs ==
  ASSUME NEW lines \in Seq(Words \union {Broken})
  PROVE  ParseWords(lines) \in Seq(Words) /\ NoRepeats(ParseWords(lines))
<1> DEFINE G == Readable(lines)
           S == {i \in G : Rank(i, G) <= MaxEntries}
<1>1. Len(lines) \in Nat /\ DOMAIN lines = 1..Len(lines)
  OBVIOUS
<1>2. G \subseteq DOMAIN lines /\ \A i \in G : lines[i] \in Words
  BY DEF Readable
<1>3. ASSUME NEW i \in G, NEW j \in G, lines[i] = lines[j] PROVE i = j
  <2>1. i \in 1..Len(lines) /\ j \in 1..Len(lines)
    BY <1>1, <1>2
  <2>2. i \notin 1..(j - 1) /\ j \notin 1..(i - 1)
    BY <1>3 DEF Readable
  <2> QED BY <1>1, <2>1, <2>2
<1>4. ParseWords(lines) = Kept(lines, S)
  BY DEF ParseWords, Readable
<1> HIDE DEF G
<1>5. S \in SUBSET G
  OBVIOUS
<1> HIDE DEF S
<1>6. {lines[i] : i \in S} \subseteq Words /\ S \in SUBSET (DOMAIN lines)
  BY <1>2, <1>5
<1>7. Kept(lines, S) \in Seq({lines[i] : i \in S}) /\ NoRepeats(Kept(lines, S))
  BY <1>3, <1>5, <1>6, KeptSequence
<1> QED BY <1>4, <1>6, <1>7

\* A list of different words that is not too long is read as it is.
LEMMA ParseKeepsAll ==
  ASSUME NEW q \in Seq(Words), NoRepeats(q), Len(q) <= MaxEntries
  PROVE  ParseWords(q) = q
<1> DEFINE G == Readable(q)
           n == Len(q)
<1>1. n \in Nat /\ DOMAIN q = 1..n /\ MaxEntries \in Nat
  BY ConversionAssumption
<1>2. ASSUME NEW i \in 1..n
      PROVE  q[i] # Broken /\ \A j \in 1..(i - 1) : q[j] # q[i]
  <2>1. q[i] \in Words
    BY <1>1
  <2>2. ASSUME NEW j \in 1..(i - 1) PROVE q[j] # q[i]
    <3>1. j \in 1..n /\ j # i
      BY <1>1
    <3> QED BY <1>1, <3>1 DEF NoRepeats
  <2> QED BY <2>1, <2>2, ConversionAssumption
<1>3. G = 1..n
  BY <1>1, <1>2 DEF Readable
<1>4. ParseWords(q) = Kept(q, {i \in G : Rank(i, G) <= MaxEntries})
  BY DEF ParseWords, Readable
<1> HIDE DEF G
<1>5. \A i \in 1..n : Rank(i, 1..n) = i
  BY <1>1, RankIsPlace
<1>6. {i \in 1..n : Rank(i, 1..n) <= MaxEntries} = 1..n
  <2>1. \A i \in 1..n : i <= MaxEntries
    BY <1>1
  <2> HIDE DEF n
  <2> QED BY <1>5, <2>1
<1> QED BY <1>1, <1>3, <1>4, <1>6, KeptAll

LEMMA FirstAreMany ==
  ASSUME NEW T, NEW q \in Seq(T), NoRepeats(q), NEW k \in 0..Len(q)
  PROVE  IsFiniteSet({q[j] : j \in 1..k}) /\ Cardinality({q[j] : j \in 1..k}) = k
<1> DEFINE F == {q[j] : j \in 1..k}
           f == [j \in 1..k |-> q[j]]
<1>1. k \in Nat /\ 1..k \subseteq DOMAIN q
  OBVIOUS
<1>2. IsFiniteSet(1..k) /\ Cardinality(1..k) = k
  BY <1>1, FS_Interval
<1>3. f \in [1..k -> F] /\ \A e \in F : \E j \in 1..k : f[j] = e
  OBVIOUS
<1>4. \A i, j \in 1..k : f[i] = f[j] => i = j
  BY <1>1 DEF NoRepeats
<1> HIDE DEF f, F
<1>5. f \in Surjection(1..k, F)
  BY <1>3 DEF Surjection
<1>6. f \in Injection(1..k, F)
  BY <1>3, <1>4 DEF Injection, IsInjective
<1>7. f \in Surjection(1..k, F) /\ IsFiniteSet(1..k)
  BY <1>2, <1>5
<1> DEFINE I == 1..k
<1> HIDE DEF I
<1>8. IsFiniteSet(F) /\ Cardinality(F) = Cardinality(I)
  <2>1. f \in Surjection(I, F) /\ IsFiniteSet(I) /\ f \in Injection(I, F)
    BY <1>6, <1>7 DEF I
  <2> QED BY <2>1, FS_Surjection
<1> QED BY <1>2, <1>8 DEF F, I

-----------------------------------------------------------------------------
(* The conversions that are remembered.                                    *)

\* What the cache holds was converted last, and the latest comes first.
RecentInv ==
  /\ recent \in Seq(Converted) /\ since \in [Converted -> SUBSET Converted]
  /\ NoRepeats(recent) /\ Len(recent) <= RecentLimit
  /\ \A i \in DOMAIN recent : since[recent[i]] = {recent[j] : j \in 1..(i - 1)}
  /\ \A r \in Converted :
       /\ IsFiniteSet(since[r])
       /\ r \notin ToSet(recent) => r \in since[r] \/ Cardinality(since[r]) >= RecentLimit

LEMMA RecentAnswers == ASSUME RecentInv PROVE OffersAreRemembered
<1> SUFFICES ASSUME NEW r \in Converted
             PROVE  r \in ToSet(recent) <=> r \notin since[r] /\ Cardinality(since[r]) < RecentLimit
  BY DEF OffersAreRemembered
<1>1. Len(recent) \in Nat /\ DOMAIN recent = 1..Len(recent) /\ RecentLimit \in Nat
  BY ConversionAssumption DEF RecentInv
<1>2. CASE r \in ToSet(recent)
  <2>1. PICK i \in 1..Len(recent) : recent[i] = r
    BY <1>1, <1>2 DEF ToSet
  <2>2. since[r] = {recent[j] : j \in 1..(i - 1)}
    BY <1>1, <2>1 DEF RecentInv
  <2>3. i - 1 \in 0..Len(recent) /\ i - 1 < RecentLimit
    BY <1>1, <2>1 DEF RecentInv
  <2>4. Cardinality({recent[j] : j \in 1..(i - 1)}) = i - 1
    <3> DEFINE k == i - 1
    <3>1. k \in 0..Len(recent) /\ recent \in Seq(Converted) /\ NoRepeats(recent)
      BY <2>3 DEF RecentInv
    <3> HIDE DEF k
    <3>2. Cardinality({recent[j] : j \in 1..k}) = k
      BY <3>1, FirstAreMany
    <3> QED BY <3>2 DEF k
  <2>5. ASSUME NEW j \in 1..(i - 1) PROVE recent[j] # r
    <3>1. j \in DOMAIN recent /\ i \in DOMAIN recent /\ j # i
      BY <1>1, <2>1
    <3> QED BY <2>1, <3>1 DEF RecentInv, NoRepeats
  <2>6. r \notin since[r]
    BY <2>2, <2>5
  <2> QED BY <1>2, <2>2, <2>3, <2>4, <2>6
<1>3. CASE r \notin ToSet(recent)
  <2>1. Cardinality(since[r]) \in Nat
    BY FS_CardinalityType DEF RecentInv
  <2>2. r \in since[r] \/ Cardinality(since[r]) >= RecentLimit
    BY <1>3 DEF RecentInv
  <2> QED BY <1>1, <1>3, <2>1, <2>2
<1> QED BY <1>2, <1>3

\* Prefixed with a new one, and cut: what recent becomes.
LEMMA PrefixedIs ==
  ASSUME NEW T, NEW q \in Seq(T), NEW r \in T, NoRepeats(q), r \notin ToSet(q)
  PROVE  LET p == FirstRecent(<<r>> \o q)
             m == IF Len(q) + 1 > RecentLimit THEN RecentLimit ELSE Len(q) + 1
         IN /\ p \in Seq(T) /\ NoRepeats(p) /\ Len(p) = m /\ DOMAIN p = 1..m
            /\ m \in 1..RecentLimit
            /\ p[1] = r /\ \A i \in 1..(m - 1) : p[i + 1] = q[i]
<1> DEFINE n == Len(q)
           p == FirstRecent(<<r>> \o q)
           m == IF n + 1 > RecentLimit THEN RecentLimit ELSE n + 1
<1>1. n \in Nat /\ DOMAIN q = 1..n /\ \A i \in 1..n : q[i] \in T /\ q[i] # r
  BY DEF ToSet
<1> DEFINE all == <<r>> \o q
<1>2. all \in Seq(T) /\ Len(all) = n + 1 /\ all[1] = r /\ \A i \in 1..n : all[i + 1] = q[i]
  BY <1>1
<1> HIDE DEF all
<1>3. m \in 1..RecentLimit /\ m <= n + 1 /\ p = SubSeq(all, 1, m)
  BY <1>1, <1>2, ConversionAssumption DEF all, FirstRecent
<1> HIDE DEF n, m, p
<1>4. p \in Seq(T) /\ Len(p) = m /\ \A i \in 1..m : p[i] = all[i]
  BY <1>1, <1>2, <1>3
<1>5. DOMAIN p = 1..m
  BY <1>4
<1>6. ASSUME NEW i \in 1..(m - 1) PROVE p[i + 1] = q[i]
  <2>1. i \in 1..n /\ i + 1 \in 1..m
    BY <1>1, <1>3
  <2> QED BY <1>2, <1>4, <2>1
<1>7. p[1] = r
  BY <1>2, <1>3, <1>4
<1>8. NoRepeats(p)
  <2> SUFFICES ASSUME NEW i \in 1..m, NEW j \in 1..m, i < j PROVE p[i] # p[j]
    <3>1. \A i, j \in 1..m : i < j => p[i] # p[j]
      OBVIOUS
    <3>2. \A i, j \in 1..m : i < j \/ j < i \/ i = j
      BY <1>3
    <3> QED BY <1>5, <3>1, <3>2 DEF NoRepeats
  <2>1. j - 1 \in 1..(m - 1) /\ j - 1 \in 1..n /\ p[j] = q[j - 1]
    <3>1. j - 1 \in 1..(m - 1) /\ j - 1 \in 1..n /\ (j - 1) + 1 = j
      BY <1>1, <1>3
    <3> QED BY <1>6, <3>1
  <2>2. CASE i = 1
    BY <1>1, <1>7, <2>1, <2>2
  <2>3. CASE i # 1
    <3>1. i - 1 \in 1..(m - 1) /\ i - 1 \in 1..n /\ (i - 1) + 1 = i /\ i - 1 # j - 1
      BY <1>1, <1>3, <2>3
    <3>2. p[i] = q[i - 1]
      BY <1>6, <3>1
    <3> QED BY <1>1, <2>1, <3>1, <3>2 DEF NoRepeats
  <2> QED BY <2>2, <2>3
<1> QED BY <1>3, <1>4, <1>5, <1>6, <1>7, <1>8 DEF n, m, p

Since(r) == [o \in Converted |-> IF o = r THEN {} ELSE
                                 IF o \in since[o] THEN since[o] ELSE since[o] \union {r}]

LEMMA RememberKeeps ==
  ASSUME RecentInv, NEW r \in Converted, Remember(r), since' = Since(r)
  PROVE  RecentInv'
<1> DEFINE W == Without(recent, r)
           n == Len(W)
           m == IF n + 1 > RecentLimit THEN RecentLimit ELSE n + 1
<1>1. /\ recent \in Seq(Converted) /\ NoRepeats(recent) /\ RecentLimit \in Nat \ {0}
      /\ Len(recent) \in Nat /\ DOMAIN recent = 1..Len(recent)
      /\ since \in [Converted -> SUBSET Converted]
  BY ConversionAssumption DEF RecentInv
<1>2. /\ W \in Seq(Converted \ {r}) /\ ToSet(W) = ToSet(recent) \ {r} /\ NoRepeats(W)
  BY <1>1, WithoutIs
<1>3. ASSUME NEW k \in 1..n
      PROVE  \E i \in DOMAIN recent :
               W[k] = recent[i] /\ Before(W, k) = Before(recent, i) \ {r}
  <2>1. k \in 1..Len(Without(recent, r))
    OBVIOUS
  <2>2. recent \in Seq(Converted) /\ NoRepeats(recent)
    BY <1>1
  <2> QED BY <2>1, <2>2, WithoutKeepsOrder
<1>4. recent' = FirstRecent(<<r>> \o W)
  BY DEF Remember
<1> HIDE DEF W
<1>5. W \in Seq(Converted) /\ r \notin ToSet(W)
  BY <1>2
<1>6. /\ recent' \in Seq(Converted) /\ NoRepeats(recent)' /\ Len(recent') = m
      /\ DOMAIN recent' = 1..m /\ m \in 1..RecentLimit /\ n \in Nat
      /\ recent'[1] = r /\ \A i \in 1..(m - 1) : recent'[i + 1] = W[i]
  <2> DEFINE p == FirstRecent(<<r>> \o W)
  <2>1. /\ p \in Seq(Converted) /\ NoRepeats(p) /\ Len(p) = m
        /\ DOMAIN p = 1..m /\ m \in 1..RecentLimit
        /\ p[1] = r /\ \A i \in 1..(m - 1) : p[i + 1] = W[i]
    BY <1>2, <1>5, PrefixedIs
  <2>2. n \in Nat
    BY <1>2
  <2> HIDE DEF p
  <2>3. recent' = p
    BY <1>4 DEF p
  <2>4. NoRepeats(recent)' <=> NoRepeats(p)
    BY <2>3 DEF NoRepeats
  <2> QED BY <2>1, <2>2, <2>3, <2>4
<1> HIDE DEF n
<1>7. m <= n + 1 /\ (m = n + 1 \/ m = RecentLimit) /\ m \in Nat /\ Len(W) = n
  BY <1>1, <1>6 DEF n
<1> HIDE DEF m
\* What was converted since the k-th of those that stay.
<1>8. ASSUME NEW k \in 1..n
      PROVE  /\ W[k] \in Converted /\ W[k] # r
             /\ since'[W[k]] = {r} \union {W[j] : j \in 1..(k - 1)}
  <2>1. PICK i \in DOMAIN recent :
          W[k] = recent[i] /\ {W[j] : j \in 1..(k - 1)} = {recent[j] : j \in 1..(i - 1)} \ {r}
    BY <1>3 DEF Before
  <2>2. W[k] \in Converted /\ W[k] # r
    BY <1>2, <1>7
  <2>3. since[W[k]] = {recent[j] : j \in 1..(i - 1)}
    BY <2>1 DEF RecentInv
  <2>4. ASSUME NEW j \in 1..(i - 1) PROVE recent[j] # recent[i]
    <3>1. j \in DOMAIN recent /\ j # i
      BY <1>1
    <3> QED BY <1>1, <3>1 DEF NoRepeats
  <2>5. W[k] \notin since[W[k]]
    BY <2>1, <2>3, <2>4
  <2>6. since'[W[k]] = since[W[k]] \union {r}
    BY <2>2, <2>5 DEF Since
  <2> QED BY <2>1, <2>2, <2>3, <2>6
<1>9. since'[r] = {}
  BY DEF Since
<1>10. ASSUME NEW i \in 1..m
       PROVE  since'[recent'[i]] = {recent'[j] : j \in 1..(i - 1)}
  <2>1. CASE i = 1
    BY <1>6, <1>9, <2>1
  <2>2. CASE i # 1
    <3>1. i - 1 \in 1..(m - 1) /\ i - 1 \in 1..n /\ (i - 1) + 1 = i
      BY <1>6, <1>7, <2>2
    <3>2. recent'[i] = W[i - 1]
      BY <1>6, <3>1
    <3>3. since'[recent'[i]] = {r} \union {W[j] : j \in 1..((i - 1) - 1)}
      BY <1>8, <3>1, <3>2
    <3>4. ASSUME NEW j \in 1..((i - 1) - 1) PROVE W[j] \in {recent'[l] : l \in 1..(i - 1)}
      <4>1. j \in 1..(m - 1) /\ j + 1 \in 1..(i - 1)
        BY <1>7, <3>1
      <4> QED BY <1>6, <4>1
    <3>5. ASSUME NEW l \in 1..(i - 1)
          PROVE  recent'[l] \in {r} \union {W[j] : j \in 1..((i - 1) - 1)}
      <4>1. CASE l = 1
        BY <1>6, <4>1
      <4>2. CASE l # 1
        <5>1. l - 1 \in 1..((i - 1) - 1) /\ l - 1 \in 1..(m - 1) /\ (l - 1) + 1 = l
          BY <1>7, <3>1, <4>2
        <5> QED BY <1>6, <5>1
      <4> QED BY <4>1, <4>2
    <3>6. r \in {recent'[l] : l \in 1..(i - 1)}
      BY <1>6, <3>1
    <3> QED BY <3>3, <3>4, <3>5, <3>6
  <2> QED BY <2>1, <2>2
<1>11. ASSUME NEW o \in Converted
       PROVE  /\ since'[o] \in SUBSET Converted /\ IsFiniteSet(since'[o])
              /\ since[o] \subseteq since'[o] \/ o = r
  <2>1. IsFiniteSet(since[o]) /\ since[o] \subseteq Converted
    BY <1>1 DEF RecentInv
  <2>2. IsFiniteSet(since[o] \union {r}) /\ IsFiniteSet({})
    BY <2>1, FS_AddElement, FS_EmptySet
  <2>3. since'[o] \in {{}, since[o], since[o] \union {r}} /\ (o # r => since'[o] # {} \/ since[o] = {})
    BY DEF Since
  <2>4. o # r => since'[o] \in {since[o], since[o] \union {r}}
    BY DEF Since
  <2> QED BY <2>1, <2>2, <2>3, <2>4
<1>12. ASSUME NEW o \in Converted, o \notin ToSet(recent')
       PROVE  o \in since'[o] \/ Cardinality(since'[o]) >= RecentLimit
  <2>1. o # r
    BY <1>6, <1>12 DEF ToSet
  <2>2. CASE o \notin ToSet(recent)
    <3>1. o \in since[o] \/ Cardinality(since[o]) >= RecentLimit
      BY <2>2 DEF RecentInv
    <3>2. since[o] \subseteq since'[o] /\ IsFiniteSet(since'[o])
      BY <1>11, <2>1
    <3>3. IsFiniteSet(since[o]) /\ Cardinality(since[o]) <= Cardinality(since'[o])
      BY <3>2, FS_Subset
    <3>4. Cardinality(since[o]) \in Nat /\ Cardinality(since'[o]) \in Nat
      BY <3>2, <3>3, FS_CardinalityType
    <3> QED BY <1>1, <3>1, <3>2, <3>3, <3>4
  <2>3. CASE o \in ToSet(recent)
    <3>1. o \in ToSet(W)
      BY <1>2, <2>1, <2>3
    <3>2. PICK k \in 1..n : o = W[k]
      BY <1>5, <1>7, <3>1 DEF ToSet
    <3>3. ~ (k < m)
      <4> SUFFICES ASSUME k < m PROVE FALSE
        OBVIOUS
      <4>1. k \in 1..(m - 1) /\ k + 1 \in 1..m
        BY <1>7
      <4>2. recent'[k + 1] = o
        BY <1>6, <3>2, <4>1
      <4> QED BY <1>6, <1>12, <4>1, <4>2 DEF ToSet
    <3>4. m = RecentLimit /\ k >= RecentLimit
      BY <1>7, <3>3
    <3> DEFINE l == k - 1
               F == {W[j] : j \in 1..l}
    <3>5. since'[o] = F \union {r}
      BY <1>8, <3>2
    <3>6. l \in 0..Len(W) /\ l + 1 = k
      BY <1>7
    <3>7. IsFiniteSet(F) /\ Cardinality(F) = l
      <4>1. W \in Seq(Converted) /\ NoRepeats(W) /\ l \in 0..Len(W)
        BY <1>2, <1>5, <3>6
      <4> HIDE DEF l
      <4> QED BY <4>1, FirstAreMany
    <3>8. r \notin F
      <4>1. \A j \in 1..(k - 1) : j \in 1..n
        BY <1>7
      <4> QED BY <1>8, <4>1
    <3> HIDE DEF F
    <3>9. Cardinality(F \union {r}) = k
      BY <3>6, <3>7, <3>8, FS_AddElement
    <3> QED BY <3>4, <3>5, <3>9
  <2> QED BY <2>2, <2>3
<1>13. since' \in [Converted -> SUBSET Converted]
  <2>1. \A o \in Converted : Since(r)[o] \in SUBSET Converted
    BY <1>11
  <2> QED BY <2>1 DEF Since
<1>14. Len(recent') <= RecentLimit
  BY <1>6
<1>15. \A o \in Converted : IsFiniteSet(since'[o])
  BY <1>11
<1>16. ToSet(recent)' = ToSet(recent')
  BY DEF ToSet
<1> QED BY <1>6, <1>10, <1>12, <1>13, <1>14, <1>15, <1>16 DEF RecentInv

Forgotten == recent = <<>> /\ since = [r \in Converted |-> {r}]

LEMMA ForgetKeeps == Forgotten => RecentInv
<1> SUFFICES ASSUME Forgotten PROVE RecentInv
  OBVIOUS
<1>1. recent \in Seq(Converted) /\ Len(recent) = 0 /\ DOMAIN recent = {} /\ RecentLimit \in Nat
  BY ConversionAssumption DEF Forgotten
<1>2. NoRepeats(recent)
  BY <1>1 DEF NoRepeats
<1>3. \A r \in Converted : since[r] = {r} /\ IsFiniteSet(since[r])
  BY FS_Singleton DEF Forgotten
<1>4. since \in [Converted -> SUBSET Converted]
  BY DEF Forgotten
<1> QED BY <1>1, <1>2, <1>3, <1>4 DEF RecentInv

-----------------------------------------------------------------------------
(* The words: the file, and what an engine knows of it.                    *)

\* A date is given once, and nothing is in a file that is not there.
Dated ==
  /\ dict.date <= dict.writes /\ words.loaded <= dict.writes /\ words.wrote <= dict.writes
  /\ dict.date = NoDate => dict.lines = <<>>

\* A task looks at the date first.
BeganRead == words.at \in {"read", "serve"} => words.loaded = words.began

\* Without a file nothing was read.
NothingRead ==
  words.at \in {"idle", "serve"} /\ words.loaded = NoDate /\ words.slips \subseteq {"missed"}
    => words.entries = <<>>

\* What was written is what is about to be the entries.
NoteIsWritten ==
  words.at = "note" =>
    /\ words.wrote # NoDate /\ words.word \in Words
    /\ Len(Adding(words.word, words.entries)) <= MaxEntries
    /\ dict.date = words.wrote => dict.lines = Adding(words.word, words.entries)

\* What the converter was not told is still to be told.
OwesConverter ==
  words.at \in {"idle", "read", "serve"} /\ "missed" \notin words.slips
    /\ (words.at = "serve" => ~words.changed) => words.known = words.entries

WordsInv ==
  /\ dict \in DictType /\ words \in WordsType
  /\ page \in [open : BOOLEAN, entries : Seq(Words)]
  /\ Dated /\ NoRepeats(words.entries) /\ (words.at = "down" => words = NoService)
  /\ BeganRead /\ NothingRead /\ EntriesAreCurrent /\ NoteIsWritten /\ OwesConverter
  /\ words.lost = {}

LEMMA DictFields ==
  ASSUME dict \in DictType
  PROVE  /\ dict.date \in Nat /\ dict.writes \in Nat /\ dict.date \in 0..MaxWrites
         /\ dict.lines \in Seq(Words \union {Broken}) /\ dict.writes \in 1..MaxWrites
BY DEF DictType

LEMMA EmptyParse == ParseWords(<<>>) = <<>>
<1>1. <<>> \in Seq(Words) /\ Len(<<>>) = 0 /\ NoRepeats(<<>>) /\ MaxEntries \in Nat
  BY ConversionAssumption DEF NoRepeats
<1> DEFINE q == <<>>
<1>2. q \in Seq(Words) /\ NoRepeats(q) /\ Len(q) <= MaxEntries
  BY <1>1
<1> HIDE DEF q
<1>3. ParseWords(q) = q
  BY <1>2, ParseKeepsAll
<1> QED BY <1>3 DEF q

\* A list of words is a file's contents.
LEMMA WordsAreLines == Seq(Words) \subseteq Seq(Words \union {Broken})
OBVIOUS

LEMMA WriteIs ==
  ASSUME dict \in DictType, NEW lines \in Seq(Words), WriteWords(lines)
  PROVE  /\ dict' \in DictType /\ dict'.date = dict.writes + 1 /\ dict'.lines = lines
         /\ dict'.writes = dict.writes + 1 /\ dict'.date # NoDate
<1>1. /\ dict.writes \in 1..MaxWrites /\ dict.writes < MaxWrites /\ MaxWrites \in Nat
      /\ dict' = [date |-> dict.writes + 1, lines |-> lines, writes |-> dict.writes + 1]
  BY DictFields, ConversionAssumption DEF WriteWords
<1>2. lines \in Seq(Words \union {Broken})
  BY WordsAreLines
<1>3. dict.writes + 1 \in 1..MaxWrites /\ dict.writes + 1 \in 0..MaxWrites
  BY <1>1
<1> QED BY <1>1, <1>2, <1>3 DEF DictType, NoDate

\* Whatever others do to the file, what was read stays dated.
LEMMA FileChanges ==
  ASSUME WordsInv, words' = words, page' \in [open : BOOLEAN, entries : Seq(Words)],
         dict' \in DictType,
         \/ dict'.date = dict.writes + 1 /\ dict'.writes = dict.writes + 1
         \/ dict'.date = NoDate /\ dict'.lines = <<>> /\ dict'.writes = dict.writes
  PROVE  WordsInv'
<1>1. /\ dict \in DictType /\ words \in WordsType /\ dict.date \in Nat /\ dict.writes \in Nat
      /\ words.loaded \in Nat /\ words.wrote \in Nat
  BY DictFields DEF WordsInv, WordsType
<1>2. Dated'
  BY <1>1 DEF WordsInv, Dated, NoDate
<1>3. EntriesAreCurrent'
  <2>1. CASE dict'.date = dict.writes + 1
    BY <1>1, <2>1 DEF WordsInv, Dated, EntriesAreCurrent
  <2>2. CASE dict'.date = NoDate /\ dict'.lines = <<>>
    BY <2>2, EmptyParse DEF WordsInv, NothingRead, EntriesAreCurrent
  <2> QED BY <2>1, <2>2
<1>4. NoteIsWritten'
  BY <1>1 DEF WordsInv, Dated, NoteIsWritten
<1>5. BeganRead' /\ NothingRead' /\ OwesConverter'
  BY DEF WordsInv, BeganRead, NothingRead, OwesConverter
<1>6. NoRepeats(words.entries)' /\ (words.at = "down" => words = NoService)' /\ words'.lost = {}
      /\ words' \in WordsType
  BY DEF WordsInv, NoRepeats
<1> QED BY <1>2, <1>3, <1>4, <1>5, <1>6 DEF WordsInv

LEMMA OthersKeep == ASSUME WordsInv, OthersWords PROVE WordsInv'
<1> DEFINE PageType == [open : BOOLEAN, entries : Seq(Words)]
<1>1. /\ dict \in DictType /\ page \in PageType /\ words' = words
      /\ dict.lines \in Seq(Words \union {Broken}) /\ page.entries \in Seq(Words)
  BY DictFields DEF WordsInv, OthersWords
<1>2. CASE LoadPage
  <2>1. ParseWords(dict.lines) \in Seq(Words)
    BY <1>1, ParseIs
  <2>2. page' \in PageType /\ dict' = dict
    BY <1>2, <2>1 DEF LoadPage
  <2>3. Dated' /\ EntriesAreCurrent' /\ NoteIsWritten' /\ BeganRead' /\ NothingRead' /\ OwesConverter'
    BY <1>1, <2>2 DEF WordsInv, Dated, EntriesAreCurrent, NoteIsWritten, BeganRead, NothingRead, OwesConverter
  <2>4. NoRepeats(words.entries)' /\ (words.at = "down" => words = NoService)' /\ words'.lost = {}
        /\ words' \in WordsType
    BY <1>1 DEF WordsInv, NoRepeats
  <2> QED BY <1>1, <2>2, <2>3, <2>4 DEF WordsInv
<1>3. ASSUME NEW lines, WriteWords(lines), dict' \in DictType, page' \in PageType
      PROVE  WordsInv'
  <2>1. dict'.date = dict.writes + 1 /\ dict'.writes = dict.writes + 1
    BY <1>3 DEF WriteWords
  <2> QED BY <1>1, <1>3, <2>1, FileChanges
<1>4. CASE EditByHand
  <2>1. page' \in PageType
    BY <1>1, <1>4 DEF EditByHand
  <2>2. ASSUME NEW lines \in HandWritten, WriteWords(lines) PROVE WordsInv'
    <3>1. /\ lines \in Seq(Words \union {Broken}) /\ dict.writes \in 1..MaxWrites
          /\ dict.writes < MaxWrites /\ MaxWrites \in Nat
          /\ dict' = [date |-> dict.writes + 1, lines |-> lines, writes |-> dict.writes + 1]
      BY <1>1, <2>2, DictFields, ConversionAssumption DEF WriteWords
    <3>2. dict.writes + 1 \in 1..MaxWrites /\ dict.writes + 1 \in 0..MaxWrites
      BY <3>1
    <3>3. dict' \in DictType
      BY <3>1, <3>2 DEF DictType
    <3> QED BY <1>3, <2>1, <2>2, <3>3
  <2>3. CASE dict' = [dict EXCEPT !.date = NoDate, !.lines = <<>>]
    <3> DEFINE z == NoDate
               none == <<>>
    <3>1. z \in 0..MaxWrites /\ none \in Seq(Words \union {Broken})
          /\ dict' = [dict EXCEPT !.date = z, !.lines = none]
      BY <2>3, ConversionAssumption DEF NoDate
    <3> HIDE DEF z, none
    <3>2. /\ dict' \in DictType /\ dict'.date = z /\ dict'.lines = none
          /\ dict'.writes = dict.writes
      BY <1>1, <3>1 DEF DictType
    <3> QED BY <1>1, <2>1, <3>2, FileChanges DEF z, none
  <2> QED BY <1>4, <2>2, <2>3 DEF EditByHand
<1>5. ASSUME NEW w \in Words, OnAddClicked(w) PROVE WordsInv'
  <2> DEFINE entries == Adding(w, page.entries)
  <2>1. entries \in Seq(Words)
    BY <1>1, AddingIs
  <2>2. WriteWords(entries) /\ page' = [page EXCEPT !.entries = entries]
    BY <1>5 DEF OnAddClicked
  <2> HIDE DEF entries
  <2>3. dict' \in DictType /\ page' \in PageType
    BY <1>1, <2>1, <2>2, WriteIs
  <2> QED BY <1>3, <2>2, <2>3
<1>6. ASSUME NEW w \in Words, OnDeleteClicked(w) PROVE WordsInv'
  <2> DEFINE entries == Without(page.entries, w)
  <2>1. entries \in Seq(Words)
    <3>1. entries \in Seq(Words \ {w})
      BY <1>1, WithoutIs
    <3> HIDE DEF entries
    <3> QED BY <3>1
  <2>2. WriteWords(entries) /\ page' = [page EXCEPT !.entries = entries]
    BY <1>6 DEF OnDeleteClicked
  <2> HIDE DEF entries
  <2>3. dict' \in DictType /\ page' \in PageType
    BY <1>1, <2>1, <2>2, WriteIs
  <2> QED BY <1>3, <2>2, <2>3
<1> QED BY <1>2, <1>4, <1>5, <1>6 DEF OthersWords

Tasks == {"start", "convert", "register"}

\* What an engine's step leaves alone, and what it must show of the rest.
LEMMA ByFields ==
  ASSUME WordsInv, UNCHANGED <<dict, page>>, words' \in WordsType,
         words'.loaded \in {words.loaded, dict.date}, words'.wrote \in {words.wrote, NoDate},
         words'.lost = {}, NoRepeats(words'.entries), words'.at \notin {"down", "note"},
         BeganRead', NothingRead', EntriesAreCurrent', OwesConverter'
  PROVE  WordsInv'
<1>1. dict \in DictType /\ dict.date \in Nat /\ dict.writes \in Nat /\ dict' = dict /\ page' = page
  BY DictFields DEF WordsInv
<1>2. Dated'
  BY <1>1 DEF WordsInv, Dated, NoDate
<1>3. NoteIsWritten' /\ (words.at = "down" => words = NoService)' /\ NoRepeats(words.entries)'
  BY DEF NoteIsWritten, NoRepeats
<1> QED BY <1>1, <1>2, <1>3 DEF WordsInv

LEMMA BeginKeeps ==
  ASSUME WordsInv, words.at \in {"down", "idle"}, NEW task \in Tasks, BeginTask(task),
         UNCHANGED <<dict, page>>
  PROVE  WordsInv'
<1>1. /\ dict \in DictType /\ words \in WordsType /\ dict.date \in 0..MaxWrites
      /\ dict.lines \in Seq(Words \union {Broken})
  BY DictFields DEF WordsInv
<1> DEFINE s == [words EXCEPT !.task = task, !.began = dict.date]
<1>2. /\ s \in WordsType /\ s.entries = words.entries /\ s.loaded = words.loaded
      /\ s.slips = words.slips /\ s.known = words.known /\ s.lost = words.lost
      /\ s.wrote = words.wrote /\ s.began = dict.date
  BY <1>1 DEF WordsType, Tasks
<1>3. words' = IF dict.date = s.loaded THEN [s EXCEPT !.at = "serve", !.changed = FALSE]
               ELSE [s EXCEPT !.at = "read", !.loaded = dict.date]
  BY DEF BeginTask
<1> HIDE DEF s
<1>4. CASE dict.date = s.loaded
  <2> DEFINE no == FALSE
  <2>1. no \in BOOLEAN /\ words' = [s EXCEPT !.at = "serve", !.changed = no]
    BY <1>3, <1>4
  <2> HIDE DEF no
  <2>2. /\ words' \in WordsType /\ words'.at = "serve" /\ words'.changed = no
        /\ words'.entries = words.entries /\ words'.loaded = words.loaded
        /\ words'.slips = words.slips /\ words'.known = words.known /\ words'.lost = words.lost
        /\ words'.wrote = words.wrote /\ words'.began = dict.date
    BY <1>2, <2>1 DEF WordsType
  <2>3. words.at = "down" =>
          /\ words.entries = <<>> /\ words.known = <<>> /\ words.loaded = NoDate
    BY DEF WordsInv, NoService
  <2>4. ~ words'.changed
    BY <2>2 DEF no
  <2>5. BeganRead' /\ NothingRead' /\ OwesConverter'
    BY <1>2, <1>4, <2>2, <2>3, <2>4 DEF WordsInv, BeganRead, NothingRead, OwesConverter
  <2>6. EntriesAreCurrent'
    <3>1. CASE words.at = "down"
      BY <1>2, <1>4, <2>2, <2>3, <3>1, EmptyParse DEF WordsInv, Dated, EntriesAreCurrent
    <3>2. CASE words.at = "idle"
      BY <1>2, <1>4, <2>2, <3>2 DEF WordsInv, EntriesAreCurrent
    <3> QED BY <3>1, <3>2
  <2>7. NoRepeats(words'.entries) /\ words'.lost = {}
    BY <2>2 DEF WordsInv
  <2> QED BY <2>2, <2>5, <2>6, <2>7, ByFields
<1>5. CASE dict.date # s.loaded
  <2>1. words' = [s EXCEPT !.at = "read", !.loaded = dict.date]
    BY <1>3, <1>5
  <2>2. /\ words' \in WordsType /\ words'.at = "read" /\ words'.loaded = dict.date
        /\ words'.entries = words.entries
        /\ words'.slips = words.slips /\ words'.known = words.known /\ words'.lost = words.lost
        /\ words'.wrote = words.wrote /\ words'.began = dict.date
    BY <1>1, <1>2, <2>1 DEF WordsType
  <2>3. words.at = "down" => words.entries = <<>> /\ words.known = <<>>
    BY DEF WordsInv, NoService
  <2>4. BeganRead' /\ NothingRead' /\ OwesConverter' /\ EntriesAreCurrent'
    BY <2>2, <2>3 DEF WordsInv, BeganRead, NothingRead, OwesConverter, EntriesAreCurrent
  <2>5. NoRepeats(words'.entries) /\ words'.lost = {}
    BY <2>2 DEF WordsInv
  <2> QED BY <2>2, <2>4, <2>5, ByFields
<1> QED BY <1>4, <1>5

LEMMA ReadKeeps ==
  ASSUME WordsInv, NEW fails \in BOOLEAN, ReadWords(fails), page' = page
  PROVE  WordsInv'
<1> DEFINE gone    == dict.date = NoDate \/ fails
           entries == IF gone THEN <<>> ELSE ParseWords(dict.lines)
           changed == ~gone \/ words.entries # <<>>
           slips   == (words.slips \cap {"missed"})
                        \union (IF fails /\ dict.date # NoDate THEN {"misread"} ELSE {})
                        \union (IF words.loaded = NoDate /\ ~gone THEN {"appeared"} ELSE {})
<1>1. /\ dict \in DictType /\ words \in WordsType /\ words.at = "read" /\ dict' = dict
      /\ dict.lines \in Seq(Words \union {Broken})
  BY DictFields DEF WordsInv, ReadWords
<1>2. entries \in Seq(Words) /\ NoRepeats(entries)
  <2>1. <<>> \in Seq(Words) /\ NoRepeats(<<>>)
    BY DEF NoRepeats
  <2>2. ParseWords(dict.lines) \in Seq(Words) /\ NoRepeats(ParseWords(dict.lines))
    BY <1>1, ParseIs
  <2> QED BY <2>1, <2>2
<1>3. changed \in BOOLEAN /\ slips \in SUBSET Slips
  BY <1>1 DEF WordsType, Slips
<1>4. words' = [words EXCEPT !.at = "serve", !.entries = entries, !.changed = changed,
                             !.slips = slips]
  BY DEF ReadWords
<1>5. "missed" \in slips <=> "missed" \in words.slips
  OBVIOUS
<1>6. slips \subseteq {"missed"} /\ words.loaded = NoDate => entries = <<>>
  OBVIOUS
<1>7. slips \subseteq {"missed"} => entries = ParseWords(dict.lines)
  <2>1. dict.date = NoDate => dict.lines = <<>>
    BY DEF WordsInv, Dated
  <2> QED BY <2>1, EmptyParse
<1>8. ~changed => entries = words.entries
  OBVIOUS
<1> HIDE DEF entries, changed, slips
<1> DEFINE s == [words EXCEPT !.at = "serve", !.entries = entries]
<1>9. /\ s \in WordsType /\ s.at = "serve" /\ s.entries = entries /\ s.loaded = words.loaded
      /\ s.known = words.known /\ s.lost = words.lost
      /\ s.wrote = words.wrote /\ s.began = words.began
  BY <1>1, <1>2 DEF WordsType
<1>10. words' = [s EXCEPT !.changed = changed, !.slips = slips]
  BY <1>1, <1>4 DEF WordsType
<1> HIDE DEF s
<1>11. /\ words' \in WordsType /\ words'.at = "serve" /\ words'.entries = entries
       /\ words'.loaded = words.loaded /\ words'.changed = changed /\ words'.slips = slips
       /\ words'.known = words.known /\ words'.lost = words.lost
       /\ words'.wrote = words.wrote /\ words'.began = words.began
  BY <1>3, <1>9, <1>10 DEF WordsType
<1>12. BeganRead' /\ NothingRead'
  BY <1>1, <1>6, <1>11 DEF WordsInv, BeganRead, NothingRead
<1>13. EntriesAreCurrent'
  BY <1>1, <1>7, <1>11 DEF EntriesAreCurrent
<1>14. OwesConverter'
  BY <1>1, <1>5, <1>8, <1>11 DEF WordsInv, OwesConverter
<1>15. NoRepeats(words'.entries) /\ words'.lost = {}
  BY <1>2, <1>11 DEF WordsInv
<1> QED BY <1>1, <1>11, <1>12, <1>13, <1>14, <1>15, ByFields

\* A request has been answered, and what is known then is the entries or not.
LEMMA AnsweredIs ==
  ASSUME NEW s \in WordsType, NEW a, a = Answered(s)
  PROVE  /\ a \in WordsType /\ a.at = "idle" /\ a.entries = s.entries /\ a.loaded = s.loaded
         /\ a.known = s.known /\ a.slips = s.slips /\ a.lost = {} /\ a.wrote = NoDate
<1> DEFINE no == FALSE
           z == NoDate
           none == {}
<1>1. no \in BOOLEAN /\ z \in 0..MaxWrites /\ none \in SUBSET Words
  BY ConversionAssumption DEF NoDate
<1>2. a = [s EXCEPT !.at = "idle", !.task = "start", !.word = Broken, !.changed = no,
                    !.began = z, !.wrote = z, !.lost = none]
  BY DEF Answered
<1> HIDE DEF no, z, none
<1> DEFINE h == [s EXCEPT !.at = "idle", !.task = "start", !.word = Broken]
<1>3. /\ h \in WordsType /\ h.at = "idle" /\ h.entries = s.entries /\ h.loaded = s.loaded
      /\ h.known = s.known /\ h.slips = s.slips
  BY DEF WordsType
<1>4. a = [h EXCEPT !.changed = no, !.began = z, !.wrote = z, !.lost = none]
  BY <1>2 DEF WordsType
<1> HIDE DEF h
<1>5. /\ a \in WordsType /\ a.at = "idle" /\ a.entries = s.entries /\ a.loaded = s.loaded
      /\ a.known = s.known /\ a.slips = s.slips /\ a.lost = none /\ a.wrote = z
  BY ZenonT(40), <1>1, <1>3, <1>4 DEF WordsType
<1> QED BY <1>5 DEF none, z

LEMMA AppliedIs ==
  ASSUME NEW s \in WordsType, NEW a, a = Applied(s)
  PROVE  /\ a \in WordsType /\ a.at = "idle" /\ a.entries = s.entries /\ a.loaded = s.loaded
         /\ a.known = s.entries /\ a.slips = s.slips \ {"missed"} /\ a.lost = {}
         /\ a.wrote = NoDate
<1> DEFINE b == Answered(s)
           slips == s.slips \ {"missed"}
<1>1. /\ b \in WordsType /\ b.at = "idle" /\ b.entries = s.entries /\ b.loaded = s.loaded
      /\ b.slips = s.slips /\ b.lost = {} /\ b.wrote = NoDate
  BY AnsweredIs
<1>2. s.entries \in Seq(Words) /\ slips \in SUBSET Slips
  BY DEF WordsType
<1> HIDE DEF b
<1>3. a = [b EXCEPT !.known = s.entries, !.slips = slips]
  BY <1>1 DEF Applied, b
<1> HIDE DEF slips
<1>4. /\ a \in WordsType /\ a.at = "idle" /\ a.entries = s.entries /\ a.loaded = s.loaded
      /\ a.known = s.entries /\ a.slips = slips /\ a.lost = {} /\ a.wrote = NoDate
  BY <1>1, <1>2, <1>3 DEF WordsType
<1> QED BY <1>4 DEF slips

\* A request that is answered without a write.
LEMMA AnswerKeeps ==
  ASSUME WordsInv, words.at = "serve", UNCHANGED <<dict, page>>,
         words'.at = "idle", words' \in WordsType, words'.entries = words.entries,
         words'.loaded = words.loaded, words'.lost = {}, words'.wrote = NoDate,
         words'.slips \subseteq {"missed"} => words.slips \subseteq {"missed"},
         "missed" \notin words'.slips => words'.known = words.entries
  PROVE  WordsInv'
<1>1. dict' = dict
  OBVIOUS
<1>2. BeganRead' /\ NothingRead' /\ OwesConverter' /\ EntriesAreCurrent'
  BY <1>1 DEF WordsInv, BeganRead, NothingRead, OwesConverter, EntriesAreCurrent
<1>3. NoRepeats(words'.entries)
  BY DEF WordsInv
<1> QED BY <1>2, <1>3, ByFields

LEMMA AppliedKeeps ==
  ASSUME WordsInv, words.at = "serve", UNCHANGED <<dict, page>>, words' = Applied(words)
  PROVE  WordsInv'
<1>1. words \in WordsType
  BY DEF WordsInv
<1> DEFINE a == Applied(words)
<1>2. /\ a \in WordsType /\ a.at = "idle" /\ a.entries = words.entries /\ a.loaded = words.loaded
      /\ a.known = words.entries /\ a.slips = words.slips \ {"missed"} /\ a.lost = {}
      /\ a.wrote = NoDate
  BY <1>1, AppliedIs
<1> HIDE DEF a
<1>3. words' = a
  BY DEF a
<1> QED BY <1>2, <1>3, AnswerKeeps

LEMMA ServeConvertKeeps ==
  ASSUME WordsInv, NEW r, ServeConvert(r), page' = page
  PROVE  WordsInv'
<1>1. /\ words \in WordsType /\ words.at = "serve" /\ dict' = dict
      /\ words' = IF words.changed THEN Applied(words) ELSE Answered(words)
  BY DEF WordsInv, ServeConvert
<1>2. CASE words.changed
  BY <1>1, <1>2, AppliedKeeps
<1>3. CASE ~words.changed
  <2> DEFINE a == Answered(words)
  <2>1. /\ a \in WordsType /\ a.at = "idle" /\ a.entries = words.entries
        /\ a.loaded = words.loaded /\ a.known = words.known /\ a.slips = words.slips
        /\ a.lost = {} /\ a.wrote = NoDate
    BY <1>1, AnsweredIs
  <2> HIDE DEF a
  <2>2. words' = a
    BY <1>1, <1>3 DEF a
  <2>3. "missed" \notin words.slips => words.known = words.entries
    BY <1>1, <1>3 DEF WordsInv, OwesConverter
  <2> QED BY <1>1, <2>1, <2>2, <2>3, AnswerKeeps
<1> QED BY <1>2, <1>3

LEMMA RefuseKeeps ==
  ASSUME WordsInv, words.at = "serve", RefuseWord, UNCHANGED <<dict, page>>
  PROVE  WordsInv'
<1> DEFINE a == Answered(words)
           slips == a.slips \union IF words.changed THEN {"missed"} ELSE {}
<1>1. words \in WordsType
  BY DEF WordsInv
<1>2. /\ a \in WordsType /\ a.at = "idle" /\ a.entries = words.entries
      /\ a.loaded = words.loaded /\ a.known = words.known /\ a.slips = words.slips
      /\ a.lost = {} /\ a.wrote = NoDate
  BY <1>1, AnsweredIs
<1>3. words' = [a EXCEPT !.slips = slips]
  BY DEF RefuseWord
<1> HIDE DEF a
<1>4. /\ slips \in SUBSET Slips
      /\ slips \subseteq {"missed"} => words.slips \subseteq {"missed"}
      /\ "missed" \notin slips => ~words.changed /\ "missed" \notin words.slips
  BY <1>1, <1>2 DEF WordsType, Slips
<1> HIDE DEF slips
<1>5. /\ words' \in WordsType /\ words'.at = "idle" /\ words'.entries = words.entries
      /\ words'.loaded = words.loaded /\ words'.known = words.known /\ words'.slips = slips
      /\ words'.lost = {} /\ words'.wrote = NoDate
  BY <1>2, <1>3, <1>4 DEF WordsType
<1>6. "missed" \notin slips => words.known = words.entries
  BY <1>4 DEF WordsInv, OwesConverter
<1> QED BY <1>4, <1>5, <1>6, AnswerKeeps

LEMMA RegisterKeeps ==
  ASSUME WordsInv, NEW w \in Words \union {Broken}, NEW fails \in BOOLEAN,
         ServeRegister(w, fails), page' = page
  PROVE  WordsInv'
<1> DEFINE updated == Adding(w, words.entries)
           lost == IF dict.date = words.began /\ words.slips \subseteq {"missed"}
                   THEN ToSet(ParseWords(dict.lines)) \ ToSet(updated) ELSE {}
<1>1. /\ dict \in DictType /\ words \in WordsType /\ words.at = "serve"
      /\ words.entries \in Seq(Words) /\ NoRepeats(words.entries)
      /\ dict.writes \in Nat /\ dict.writes \in 1..MaxWrites /\ dict.date \in Nat
      /\ words.loaded \in Nat /\ words.wrote \in Nat
  BY DictFields DEF WordsInv, ServeRegister, WordsType
<1>2. CASE RefuseWord /\ UNCHANGED dict
  BY <1>1, <1>2, RefuseKeeps
<1>3. CASE /\ w \in Words /\ ~ (Len(updated) > MaxEntries) /\ WriteWords(updated)
           /\ words' = [words EXCEPT !.at = "note", !.word = w, !.wrote = dict'.date,
                                     !.lost = lost]
  <2>1. updated \in Seq(Words) /\ ToSet(words.entries) \subseteq ToSet(updated)
    BY <1>1, <1>3, AddingIs
  <2>2. lost = {}
    <3>1. CASE dict.date = words.began /\ words.slips \subseteq {"missed"}
      <4>1. words.loaded = dict.date
        BY <1>1, <3>1 DEF WordsInv, BeganRead
      <4>2. words.entries = ParseWords(dict.lines)
        BY <1>1, <3>1, <4>1 DEF WordsInv, EntriesAreCurrent
      <4> QED BY <2>1, <4>2
    <3> QED BY <3>1
  <2>3. Len(updated) \in Nat /\ MaxEntries \in Nat /\ MaxWrites \in Nat
    BY <2>1, ConversionAssumption
  <2>4. Len(updated) <= MaxEntries
    BY <1>3, <2>3
  <2> DEFINE d == dict'.date
  <2> HIDE DEF updated, lost
  <2>5. /\ dict' \in DictType /\ d = dict.writes + 1 /\ dict'.lines = updated
        /\ dict'.writes = dict.writes + 1 /\ d # NoDate
    BY <1>1, <1>3, <2>1, WriteIs
  <2>6. d \in 0..MaxWrites /\ lost \in SUBSET Words
    BY <2>2, <2>5 DEF DictType
  <2>7. words' = [words EXCEPT !.at = "note", !.word = w, !.wrote = d, !.lost = lost]
    BY <1>3
  <2> HIDE DEF d
  <2>8. /\ words' \in WordsType /\ words'.at = "note" /\ words'.word = w /\ words'.wrote = d
        /\ words'.lost = lost /\ words'.entries = words.entries /\ words'.loaded = words.loaded
    BY <1>1, <1>3, <2>6, <2>7 DEF WordsType
  <2>9. Dated'
    <3>1. words.loaded <= dict.writes /\ dict'.date = d
      BY DEF WordsInv, Dated, d
    <3> QED BY <1>1, <2>5, <2>8, <3>1 DEF Dated, NoDate
  <2>10. NoteIsWritten'
    <3>1. Adding(words'.word, words'.entries) = updated
      BY <2>8 DEF updated
    <3> QED BY <1>3, <2>4, <2>5, <2>8, <3>1 DEF NoteIsWritten
  <2>11. BeganRead' /\ NothingRead' /\ EntriesAreCurrent' /\ OwesConverter'
    BY <2>8 DEF BeganRead, NothingRead, EntriesAreCurrent, OwesConverter
  <2>12. NoRepeats(words.entries)' /\ (words.at = "down" => words = NoService)'
    BY <1>1, <2>8 DEF NoRepeats
  <2> QED BY <2>2, <2>5, <2>8, <2>9, <2>10, <2>11, <2>12 DEF WordsInv
<1> QED BY <1>2, <1>3 DEF ServeRegister

LEMMA NoteKeeps == ASSUME WordsInv, NoteDate, page' = page PROVE WordsInv'
<1> DEFINE entries == Adding(words.word, words.entries)
           slips == (words.slips \cap {"missed"})
                      \union IF dict.date # words.wrote THEN {"overtaken"} ELSE {}
           s == [words EXCEPT !.entries = entries, !.loaded = dict.date, !.slips = slips]
           a == Applied(s)
<1>1. /\ dict \in DictType /\ words \in WordsType /\ words.at = "note" /\ dict' = dict
      /\ dict.date \in 0..MaxWrites /\ words.entries \in Seq(Words) /\ NoRepeats(words.entries)
  BY DictFields DEF WordsInv, NoteDate, WordsType
<1>2. /\ words.wrote # NoDate /\ words.word \in Words /\ Len(entries) <= MaxEntries
      /\ dict.date = words.wrote => dict.lines = entries
  BY <1>1 DEF WordsInv, NoteIsWritten
<1>3. entries \in Seq(Words) /\ NoRepeats(entries)
  BY <1>1, <1>2, AddingIs
<1>4. /\ slips \in SUBSET Slips
      /\ slips \subseteq {"missed"} => dict.date = words.wrote
  BY DEF Slips
<1>5. words' = a
  BY DEF NoteDate
<1> HIDE DEF entries, slips
<1>6. s \in WordsType /\ s.entries = entries /\ s.loaded = dict.date /\ s.slips = slips
  BY <1>1, <1>3, <1>4 DEF WordsType
<1> HIDE DEF s
<1>7. /\ a \in WordsType /\ a.at = "idle" /\ a.entries = entries /\ a.loaded = dict.date
      /\ a.known = entries /\ a.slips = slips \ {"missed"} /\ a.lost = {} /\ a.wrote = NoDate
  BY <1>6, AppliedIs
<1> HIDE DEF a
<1>8. words'.slips \subseteq {"missed"} => dict.date = words.wrote
  BY <1>4, <1>5, <1>7
<1>9. EntriesAreCurrent'
  <2>1. ParseWords(entries) = entries
    BY <1>2, <1>3, ParseKeepsAll
  <2> QED BY <1>1, <1>2, <1>5, <1>7, <1>8, <2>1 DEF EntriesAreCurrent
<1>10. BeganRead' /\ NothingRead' /\ OwesConverter'
  BY <1>2, <1>5, <1>7, <1>8 DEF BeganRead, NothingRead, OwesConverter
<1> QED BY <1>1, <1>3, <1>5, <1>7, <1>9, <1>10, ByFields

LEMMA ServiceIsTyped == NoService \in WordsType
<1> DEFINE none == <<>>
           z == NoDate
           no == FALSE
           nil == {}
<1>1. /\ none \in Seq(Words) /\ z \in 0..MaxWrites /\ no \in BOOLEAN /\ nil \in SUBSET Words
      /\ nil \in SUBSET Slips
  BY ConversionAssumption DEF NoDate
<1>2. NoService = [at |-> "down", task |-> "start", word |-> Broken, entries |-> none,
                   loaded |-> z, changed |-> no, known |-> none, began |-> z, wrote |-> z,
                   lost |-> nil, slips |-> nil]
  BY DEF NoService
<1> HIDE DEF none, z, no, nil
<1> QED BY <1>1, <1>2 DEF WordsType

\* No engine runs.
Down ==
  /\ dict \in DictType /\ page \in [open : BOOLEAN, entries : Seq(Words)]
  /\ dict.date <= dict.writes /\ (dict.date = NoDate => dict.lines = <<>>)
  /\ words = NoService

LEMMA DownKeeps == Down => WordsInv
<1> SUFFICES ASSUME Down PROVE WordsInv
  OBVIOUS
<1>1. /\ words.at = "down" /\ words.entries = <<>> /\ words.loaded = NoDate
      /\ words.wrote = NoDate /\ words.lost = {}
  BY DEF Down, NoService
<1>2. dict.writes \in Nat
  BY DictFields DEF Down
<1>3. Dated
  BY <1>1, <1>2 DEF Down, Dated, NoDate
<1>4. NoRepeats(words.entries)
  BY <1>1 DEF NoRepeats
<1>5. BeganRead /\ NothingRead /\ EntriesAreCurrent /\ NoteIsWritten /\ OwesConverter
  BY <1>1 DEF BeganRead, NothingRead, EntriesAreCurrent, NoteIsWritten, OwesConverter
<1> QED BY <1>1, <1>3, <1>4, <1>5, ServiceIsTyped DEF Down, WordsInv

LEMMA ExitKeeps == ASSUME WordsInv, ExitService, page' = page PROVE WordsInv'
<1>1. Down'
  BY DEF WordsInv, Dated, ExitService, Down
<1> QED BY <1>1, DownKeeps, PTL

\* The words and the cache, as one.
ConversionInv == WordsInv /\ RecentInv

LEMMA ConversionKeep ==
  ASSUME ConversionInv, [EngineWords(Converted) \/ OthersWords]_conversionVars
  PROVE  ConversionInv'
<1>1. RecentInv' \/ ~ (UNCHANGED <<recent, since>>)
  BY DEF ConversionInv, RecentInv, NoRepeats, ToSet
<1>2. CASE UNCHANGED conversionVars
  <2>1. WordsInv'
    BY <1>2 DEF ConversionInv, conversionVars, WordsInv, Dated, BeganRead, NothingRead,
       EntriesAreCurrent, NoteIsWritten, OwesConverter, NoRepeats
  <2> QED BY <1>1, <1>2, <2>1 DEF ConversionInv, conversionVars
<1>3. CASE OthersWords
  BY <1>1, <1>3, OthersKeep DEF ConversionInv, OthersWords
<1>4. CASE EngineWords(Converted)
  <2>1. page' = page
    BY <1>4 DEF EngineWords
  <2>2. CASE StartService
    BY <1>1, <2>1, <2>2, BeginKeeps DEF ConversionInv, StartService, Tasks
  <2>3. CASE HandleRequest
    BY <1>1, <2>1, <2>3, BeginKeeps DEF ConversionInv, HandleRequest, Tasks
  <2>4. CASE ServeStart
    BY <1>1, <2>1, <2>4, AppliedKeeps DEF ConversionInv, ServeStart
  <2>5. CASE NoteDate
    BY <1>1, <2>1, <2>5, NoteKeeps DEF ConversionInv, NoteDate
  <2>6. CASE ExitService
    <3>1. WordsInv'
      BY <2>1, <2>6, ExitKeeps DEF ConversionInv
    <3>2. Forgotten'
      BY <2>6 DEF ExitService, Forgotten
    <3>3. RecentInv'
      BY <3>2, ForgetKeeps, PTL
    <3> QED BY <3>1, <3>3 DEF ConversionInv
  <2>7. ASSUME NEW fails \in BOOLEAN, ReadWords(fails) PROVE ConversionInv'
    BY <1>1, <2>1, <2>7, ReadKeeps DEF ConversionInv, ReadWords
  <2>8. ASSUME NEW fails \in BOOLEAN, NEW w \in Words \union {Broken}, ServeRegister(w, fails)
        PROVE  ConversionInv'
    BY <1>1, <2>1, <2>8, RegisterKeeps DEF ConversionInv, ServeRegister
  <2>9. ASSUME NEW r \in Converted, ServeConvert(r) PROVE ConversionInv'
    <3>1. WordsInv'
      BY <2>1, <2>9, ServeConvertKeeps DEF ConversionInv
    <3>2. Remember(r) /\ since' = Since(r)
      BY <2>9 DEF ServeConvert, Since
    <3> QED BY <3>1, <3>2, RememberKeeps DEF ConversionInv
  <2> QED BY <1>4, <2>2, <2>3, <2>4, <2>5, <2>6, <2>7, <2>8, <2>9 DEF EngineWords
<1> QED BY <1>2, <1>3, <1>4

LEMMA ConversionBegin == ASSUME ConversionInit PROVE ConversionInv
<1>1. page = [open |-> FALSE, entries |-> <<>>] /\ words = NoService /\ RecentInv
  BY ForgetKeeps DEF ConversionInit, Forgotten
<1>2. page \in [open : BOOLEAN, entries : Seq(Words)]
  BY <1>1
<1>3. /\ dict \in DictType /\ dict.date <= dict.writes
      /\ dict.date = NoDate => dict.lines = <<>>
  <2> DEFINE none == <<>>
             z == NoDate
             o == 1
  <2>1. /\ none \in Seq(Words \union {Broken}) /\ z \in 0..MaxWrites /\ o \in 0..MaxWrites
        /\ o \in 1..MaxWrites /\ z <= o /\ o <= o /\ o # z
    BY ConversionAssumption DEF NoDate
  <2>2. \/ dict = [date |-> z, lines |-> none, writes |-> o]
        \/ \E lines \in HandWritten : dict = [date |-> o, lines |-> lines, writes |-> o]
    BY DEF ConversionInit
  <2>3. dict.lines = none \/ dict.date # z
    <3> HIDE DEF none, z, o
    <3> QED BY <2>1, <2>2
  <2>4. dict \in DictType /\ dict.date <= dict.writes
    <3> HIDE DEF none, z, o
    <3> QED BY <2>1, <2>2, ConversionAssumption DEF DictType
  <2> QED BY <2>3, <2>4
<1> QED BY <1>1, <1>2, <1>3, DownKeeps DEF ConversionInv, Down

(* Whoever writes the file of words between the looks an engine takes at   *)
(* it, and whatever is converted in which order, for files of any length   *)
(* and any number of writes: while the date of the file is the one the     *)
(* engine recorded, its words are those of the file, the converter has     *)
(* them, registering one takes none out, and a conversion is remembered    *)
(* until as many others as the cache holds have come after it.             *)
THEOREM ConversionIsCurrentHolds == ConversionSpec => []ConversionIsCurrent
<1>1. ConversionInv => ConversionIsCurrent
  <2>1. WordsInv => EntriesAreCurrent /\ ConverterIsTold /\ RegisteringKeeps
    BY DEF WordsInv, OwesConverter, ConverterIsTold, RegisteringKeeps
  <2>2. RecentInv => OffersAreRemembered
    BY RecentAnswers
  <2> QED BY <2>1, <2>2 DEF ConversionInv, ConversionIsCurrent
<1>2. ConversionInit => ConversionInv
  BY ConversionBegin
<1>3. ConversionInv /\ [EngineWords(Converted) \/ OthersWords]_conversionVars => ConversionInv'
  BY ConversionKeep
<1> QED BY <1>1, <1>2, <1>3, PTL DEF ConversionSpec

-----------------------------------------------------------------------------
(* The references threads hold to the module.                              *)

Has(u, what) ==
  \/ what = "factory" /\ u.factory # NoFactory
  \/ what = "instance" /\ u.instance
  \/ what = "lock" /\ u.lock

What == {"factory", "instance", "lock"}

Held == {h \in Threads \X What : Has(user[h[1]], h[2])}

UserTypes ==
  [at : {"idle", "build", "take", "addref", "free"}, got : Nat, factory : Nat,
   instance : BOOLEAN, lock : BOOLEAN]

(* The count is one less than the references, and who has taken it below   *)
(* zero is on the way to free the factory.                                 *)
CountInv ==
  /\ user \in [Threads -> UserTypes] /\ raced \in BOOLEAN
  /\ \A t \in Threads :
       /\ user[t].at \in {"build", "take", "addref"} => user[t].factory = NoFactory
       /\ user[t].at = "addref" => user[t].got # NoFactory
  /\ IsFiniteSet(Held) /\ dll.count = Cardinality(Held) - 1

(* Factories are built one after the other, each when the one before is    *)
(* gone.                                                                   *)
BuildInv ==
  /\ dll = [count |-> dll.count, factory |-> dll.factory, made |-> dll.made, freed |-> dll.freed]
  /\ \E n \in Nat : dll.made = 1..n
  /\ dll.freed \subseteq dll.made
  /\ dll.made \ dll.freed = IF dll.factory = NoFactory THEN {} ELSE {dll.factory}

(* Without a race, whoever frees the factory is alone with it.             *)
AloneInv ==
  ~raced =>
    /\ ~Overlap
    /\ (\E t \in Threads : user[t].at = "free") => Held = {}
    /\ \A t \in Threads :
         /\ user[t].factory \notin dll.freed
         /\ user[t].at = "addref" => user[t].got \notin dll.freed

ModuleInv == CountInv /\ BuildInv /\ AloneInv

(* What a step of one thread does to the references.                       *)
LEMMA SameHeld ==
  ASSUME user \in [Threads -> UserTypes], NEW t \in Threads, NEW u \in UserTypes,
         user' = [user EXCEPT ![t] = u], \A w \in What : Has(u, w) = Has(user[t], w)
  PROVE  Held' = Held
BY DEF Held, What, Has

LEMMA Taken ==
  ASSUME CountInv, NEW t \in Threads, NEW u \in UserTypes, NEW w \in What,
         user' = [user EXCEPT ![t] = u], ~Has(user[t], w), Has(u, w),
         \A v \in What \ {w} : Has(u, v) = Has(user[t], v)
  PROVE  /\ Held' = Held \union {<<t, w>>} /\ IsFiniteSet(Held')
         /\ Cardinality(Held') = Cardinality(Held) + 1
<1>1. Held' = Held \union {<<t, w>>} /\ <<t, w>> \notin Held
  BY DEF Held, What, CountInv
<1> QED BY <1>1, FS_AddElement DEF CountInv

LEMMA Given ==
  ASSUME CountInv, NEW t \in Threads, NEW u \in UserTypes, NEW w \in What,
         user' = [user EXCEPT ![t] = u], Has(user[t], w), ~Has(u, w),
         \A v \in What \ {w} : Has(u, v) = Has(user[t], v)
  PROVE  /\ Held' = Held \ {<<t, w>>} /\ IsFiniteSet(Held')
         /\ Cardinality(Held') = Cardinality(Held) - 1
<1>1. Held' = Held \ {<<t, w>>} /\ <<t, w>> \in Held
  BY DEF Held, What, CountInv
<1> QED BY <1>1, FS_RemoveElement DEF CountInv

(* A thread goes on and holds what it held: the count stays.               *)
LEMMA GoesOn ==
  ASSUME CountInv, BuildInv, NEW t \in Threads, NEW u \in UserTypes,
         user' = [user EXCEPT ![t] = u],
         u.factory = user[t].factory, u.instance = user[t].instance, u.lock = user[t].lock,
         u.at \in {"build", "take", "addref"} => u.factory = NoFactory,
         u.at = "addref" => u.got # NoFactory,
         dll'.count = dll.count, raced' \in BOOLEAN
  PROVE  CountInv' /\ Held' = Held
<1>1. Held' = Held
  BY SameHeld DEF CountInv, Has, What
<1> QED BY <1>1 DEF CountInv

(* One reference more, counted.                                            *)
LEMMA Takes ==
  ASSUME CountInv, BuildInv, NEW t \in Threads, NEW u \in UserTypes, NEW w \in What,
         user' = [user EXCEPT ![t] = u], ~Has(user[t], w), Has(u, w),
         \A v \in What \ {w} : Has(u, v) = Has(user[t], v),
         u.at = "idle", DllAddRef, raced' \in BOOLEAN
  PROVE  CountInv' /\ Held' = Held \union {<<t, w>>}
<1>1. dll'.count = dll.count + 1
  BY DEF DllAddRef, BuildInv
<1>2. /\ Held' = Held \union {<<t, w>>} /\ IsFiniteSet(Held')
      /\ Cardinality(Held') = Cardinality(Held) + 1
  BY Taken
<1>3. Cardinality(Held) \in Nat
  BY FS_CardinalityType DEF CountInv
<1> QED BY <1>1, <1>2, <1>3 DEF CountInv

(* One reference less: whoever gave the last is to free the factory.       *)
LEMMA Gives ==
  ASSUME CountInv, BuildInv, NEW t \in Threads, NEW left \in UserTypes, NEW w \in What,
         Has(user[t], w), ~Has(left, w),
         \A v \in What \ {w} : Has(left, v) = Has(user[t], v),
         left.at = "idle", DllRelease(t, left), raced' \in BOOLEAN
  PROVE  /\ CountInv' /\ Held' \subseteq Held
         /\ user'[t].at = "free" => Held' = {}
<1> DEFINE u == [left EXCEPT !.at = IF dll.count - 1 < 0 THEN "free" ELSE "idle"]
<1>1. user' = [user EXCEPT ![t] = u] /\ dll'.count = dll.count - 1
  BY DEF DllRelease, BuildInv
<1>2. /\ u \in UserTypes /\ u.factory = left.factory /\ u.instance = left.instance
      /\ u.lock = left.lock /\ u.at = IF dll.count - 1 < 0 THEN "free" ELSE "idle"
  BY DEF UserTypes
<1> HIDE DEF u
<1>3. ~Has(u, w) /\ \A v \in What \ {w} : Has(u, v) = Has(user[t], v)
  BY <1>2 DEF Has, What
<1>4. /\ Held' = Held \ {<<t, w>>} /\ IsFiniteSet(Held')
      /\ Cardinality(Held') = Cardinality(Held) - 1
  BY <1>1, <1>2, <1>3, Given
<1>5. Cardinality(Held) \in Nat /\ Cardinality(Held') \in Nat
  BY <1>4, FS_CardinalityType DEF CountInv
<1>6. CountInv'
  BY <1>1, <1>2, <1>4, <1>5 DEF CountInv
<1>7. ASSUME user'[t].at = "free" PROVE Held' = {}
  <2>1. dll.count - 1 < 0
    BY <1>1, <1>2, <1>7 DEF CountInv
  <2>2. Cardinality(Held') = 0
    BY <2>1, <1>4, <1>5 DEF CountInv
  <2> QED BY <2>2, <1>4, FS_EmptySet
<1> QED BY <1>4, <1>6, <1>7

-----------------------------------------------------------------------------
(* Each step keeps the invariant.                                          *)

(* Steps that leave the factory alone.                                     *)
LEMMA SameBuild ==
  ASSUME BuildInv, \/ dll' = dll \/ \E n : dll' = [dll EXCEPT !.count = n]
  PROVE  /\ BuildInv' /\ dll'.freed = dll.freed /\ dll'.made = dll.made
         /\ dll'.factory = dll.factory
BY DEF BuildInv

(* When nothing is held, no thread has a factory, and no factory is none.  *)
LEMMA NothingHeld ==
  ASSUME CountInv, Held = {}, NEW t \in Threads
  PROVE  user[t].factory = NoFactory
<1>1. <<t, "factory">> \notin Held
  OBVIOUS
<1> QED BY <1>1 DEF Held, Has, What

LEMMA NoneFreed == ASSUME BuildInv PROVE NoFactory \notin dll.freed
BY DEF BuildInv, NoFactory

(* A step of t that frees nothing and after which nobody frees, or nothing *)
(* is held.                                                                *)
LEMMA StaysAlone ==
  ASSUME CountInv, AloneInv, NEW t \in Threads, NEW u, user' = [user EXCEPT ![t] = u],
         raced' = (raced \/ Overlap'), dll'.freed = dll.freed,
         ~raced => u.factory \notin dll.freed,
         ~raced => (u.at = "addref" => u.got \notin dll.freed),
         ~raced' => ((\E x \in Threads : user'[x].at = "free") => Held' = {})
  PROVE  AloneInv'
<1> SUFFICES ASSUME ~raced' PROVE AloneInv'
  BY DEF AloneInv
<1>1. ~raced /\ ~Overlap'
  BY DEF CountInv
<1>2. user' \in [Threads -> UserTypes \union {u}] /\ user'[t] = u
      /\ \A x \in Threads \ {t} : user'[x] = user[x]
  BY DEF CountInv
<1> QED BY <1>1, <1>2 DEF AloneInv

LEMMA GetKept ==
  ASSUME ModuleInv, NEW t \in Threads, DllGetClassObject(t), raced' = (raced \/ Overlap')
  PROVE  ModuleInv'
<1> DEFINE u == [user[t] EXCEPT !.at = IF dll.factory = NoFactory THEN "build" ELSE "take"]
<1>1. user' = [user EXCEPT ![t] = u] /\ dll' = dll
  BY DEF DllGetClassObject
<1>2. /\ u \in UserTypes /\ u.factory = user[t].factory /\ u.instance = user[t].instance
      /\ u.lock = user[t].lock /\ u.got = user[t].got /\ u.at \in {"build", "take"}
      /\ u.factory = NoFactory
  BY DEF ModuleInv, CountInv, UserTypes, DllGetClassObject
<1> HIDE DEF u
<1>3. raced' \in BOOLEAN
  BY DEF ModuleInv, CountInv, Overlap
<1>4. CountInv' /\ Held' = Held
  BY <1>1, <1>2, <1>3, GoesOn DEF ModuleInv
<1>5. BuildInv' /\ dll'.freed = dll.freed
  BY <1>1, SameBuild DEF ModuleInv
<1>6. AloneInv'
  BY <1>1, <1>2, <1>4, <1>5, StaysAlone DEF ModuleInv, AloneInv, CountInv
<1> QED BY <1>4, <1>5, <1>6 DEF ModuleInv

(* The n + 1st factory is built.                                           *)
LEMMA BuildShape ==
  ASSUME ModuleInv, NEW t \in Threads, BuildGlobalObjects(t), dll.factory = NoFactory,
         NEW n \in Nat, Cardinality(dll.made) = n
  PROVE  /\ dll'.made = dll.made \union {n + 1} /\ dll'.factory = n + 1
         /\ dll'.freed = dll.freed /\ dll'.count = dll.count
         /\ dll' = [count |-> dll'.count, factory |-> dll'.factory, made |-> dll'.made,
                    freed |-> dll'.freed]
<1> DEFINE next == n + 1
<1>1. dll' = [dll EXCEPT !.factory = next, !.made = dll.made \union {next}]
  BY DEF BuildGlobalObjects
<1>2. PICK c, f, m, r : dll = [count |-> c, factory |-> f, made |-> m, freed |-> r]
  BY DEF ModuleInv, BuildInv
<1> HIDE DEF next
<1>3. dll' = [count |-> c, factory |-> next, made |-> m \union {next}, freed |-> r]
  BY <1>1, <1>2
<1>4. /\ dll'.made = dll.made \union {next} /\ dll'.factory = next
      /\ dll'.freed = dll.freed /\ dll'.count = dll.count
      /\ dll' = [count |-> dll'.count, factory |-> dll'.factory, made |-> dll'.made,
                 freed |-> dll'.freed]
  BY <1>2, <1>3
<1> QED BY <1>4 DEF next

LEMMA BuildKept ==
  ASSUME ModuleInv, NEW t \in Threads, BuildGlobalObjects(t), raced' = (raced \/ Overlap')
  PROVE  ModuleInv'
<1> DEFINE u == [user[t] EXCEPT !.at = "take"]
<1>1. user' = [user EXCEPT ![t] = u] /\ user[t].at = "build"
  BY DEF BuildGlobalObjects
<1>2. /\ u \in UserTypes /\ u.factory = user[t].factory /\ u.instance = user[t].instance
      /\ u.lock = user[t].lock /\ u.got = user[t].got /\ u.at = "take" /\ u.factory = NoFactory
  BY <1>1 DEF ModuleInv, CountInv, UserTypes
<1> HIDE DEF u
<1>3. BuildInv' /\ dll'.freed = dll.freed /\ dll'.count = dll.count
  <2>1. CASE dll.factory # NoFactory
    BY <2>1, SameBuild DEF BuildGlobalObjects, ModuleInv
  <2>2. CASE dll.factory = NoFactory
    <3>1. PICK n \in Nat : dll.made = 1..n
      BY DEF ModuleInv, BuildInv
    <3>2. Cardinality(dll.made) = n
      <4>1. 1 \in Int /\ n \in Int
        OBVIOUS
      <4>2. Cardinality(1..n) = IF 1 > n THEN 0 ELSE n - 1 + 1
        BY <4>1, FS_Interval
      <4> QED BY <3>1, <4>2
    <3>3. /\ dll'.made = dll.made \union {n + 1} /\ dll'.factory = n + 1
          /\ dll'.freed = dll.freed /\ dll'.count = dll.count
          /\ dll' = [count |-> dll'.count, factory |-> dll'.factory, made |-> dll'.made,
                     freed |-> dll'.freed]
      BY <2>2, <3>2, BuildShape
    <3>4. dll'.made = 1..(n + 1)
      BY <3>1, <3>3
    <3>5. dll.freed = 1..n
      BY <2>2, <3>1 DEF ModuleInv, BuildInv
    <3>6. dll'.made \ dll'.freed = {n + 1}
      BY <3>1, <3>3, <3>4, <3>5
    <3> QED BY <3>1, <3>3, <3>4, <3>5, <3>6 DEF BuildInv, NoFactory
  <2> QED BY <2>1, <2>2
<1>4. raced' \in BOOLEAN
  BY DEF ModuleInv, CountInv, Overlap
<1>5. CountInv' /\ Held' = Held
  BY <1>1, <1>2, <1>3, <1>4, GoesOn DEF ModuleInv
<1>6. AloneInv'
  BY <1>1, <1>2, <1>3, <1>5, StaysAlone DEF ModuleInv, AloneInv, CountInv
<1> QED BY <1>3, <1>5, <1>6 DEF ModuleInv

LEMMA TakeKept ==
  ASSUME ModuleInv, NEW t \in Threads, TakeFactory(t), raced' = (raced \/ Overlap')
  PROVE  ModuleInv'
<1> DEFINE u == [[user[t] EXCEPT !.at = IF dll.factory = NoFactory THEN "idle" ELSE "addref"]
                   EXCEPT !.got = dll.factory]
<1>1. user' = [user EXCEPT ![t] = u] /\ dll' = dll /\ user[t].at = "take"
  BY DEF TakeFactory, ModuleInv, CountInv
<1>2. dll.factory \in Nat /\ (dll.factory # NoFactory => dll.factory \notin dll.freed)
  BY DEF ModuleInv, BuildInv, NoFactory
<1>3. /\ u \in UserTypes /\ u.factory = user[t].factory /\ u.instance = user[t].instance
      /\ u.lock = user[t].lock /\ u.got = dll.factory /\ u.at \in {"idle", "addref"}
      /\ (u.at = "addref" => dll.factory # NoFactory) /\ u.factory = NoFactory
  BY <1>1, <1>2 DEF ModuleInv, CountInv, UserTypes
<1> HIDE DEF u
<1>4. raced' \in BOOLEAN
  BY DEF ModuleInv, CountInv, Overlap
<1>5. CountInv' /\ Held' = Held
  BY <1>1, <1>3, <1>4, GoesOn DEF ModuleInv
<1>6. BuildInv' /\ dll'.freed = dll.freed
  BY <1>1, SameBuild DEF ModuleInv
<1>7. AloneInv'
  BY <1>1, <1>2, <1>3, <1>5, <1>6, StaysAlone DEF ModuleInv, AloneInv, CountInv
<1> QED BY <1>5, <1>6, <1>7 DEF ModuleInv

LEMMA HoldKept ==
  ASSUME ModuleInv, NEW t \in Threads, HoldFactory(t), raced' = (raced \/ Overlap')
  PROVE  ModuleInv'
<1> DEFINE u == [[[user[t] EXCEPT !.at = "idle"] EXCEPT !.got = NoFactory]
                   EXCEPT !.factory = user[t].got]
<1>1. user' = [user EXCEPT ![t] = u] /\ user[t].at = "addref" /\ DllAddRef
  BY DEF HoldFactory, ModuleInv, CountInv
<1>2. /\ u \in UserTypes /\ u.factory = user[t].got /\ u.instance = user[t].instance
      /\ u.lock = user[t].lock /\ u.at = "idle"
      /\ user[t].factory = NoFactory /\ user[t].got # NoFactory
  BY <1>1 DEF ModuleInv, CountInv, UserTypes, NoFactory
<1> HIDE DEF u
<1>3. raced' \in BOOLEAN
  BY DEF ModuleInv, CountInv, Overlap
<1>4. CountInv'
  <2>1. /\ ~Has(user[t], "factory") /\ Has(u, "factory")
        /\ \A v \in What \ {"factory"} : Has(u, v) = Has(user[t], v)
    BY <1>2 DEF Has, What
  <2> QED BY <1>1, <1>2, <1>3, <2>1, Takes DEF ModuleInv, What
<1>5. BuildInv' /\ dll'.freed = dll.freed
  BY <1>1, SameBuild DEF ModuleInv, DllAddRef
<1>6. ASSUME ~raced, NEW x \in Threads, user'[x].at = "free" PROVE FALSE
  <2>1. x # t /\ user[x].at = "free"
    BY <1>1, <1>2, <1>6 DEF ModuleInv, CountInv
  <2>2. Overlap
    BY <1>1, <2>1 DEF Overlap
  <2> QED BY <1>6, <2>2 DEF ModuleInv, AloneInv
<1>7. AloneInv'
  BY <1>1, <1>2, <1>5, <1>6, StaysAlone DEF ModuleInv, AloneInv, CountInv
<1> QED BY <1>4, <1>5, <1>7 DEF ModuleInv

LEMMA FreeKept ==
  ASSUME ModuleInv, NEW t \in Threads, FreeGlobalObjects(t), raced' = (raced \/ Overlap')
  PROVE  ModuleInv'
<1> DEFINE u == [user[t] EXCEPT !.at = "idle"]
<1>1. user' = [user EXCEPT ![t] = u] /\ user[t].at = "free"
  BY DEF FreeGlobalObjects
<1>2. /\ u \in UserTypes /\ u.factory = user[t].factory /\ u.instance = user[t].instance
      /\ u.lock = user[t].lock /\ u.got = user[t].got /\ u.at = "idle"
  BY <1>1 DEF ModuleInv, CountInv, UserTypes
<1> HIDE DEF u
<1>3. BuildInv' /\ dll'.count = dll.count
  <2>1. /\ dll'.made = dll.made /\ dll'.factory = NoFactory /\ dll'.count = dll.count
        /\ dll'.freed = IF dll.factory = NoFactory THEN dll.freed
                                                   ELSE dll.freed \union {dll.factory}
        /\ dll' = [count |-> dll'.count, factory |-> dll'.factory, made |-> dll'.made,
                   freed |-> dll'.freed]
    BY DEF FreeGlobalObjects, ModuleInv, BuildInv
  <2>2. dll'.freed = dll'.made
    BY <2>1 DEF ModuleInv, BuildInv
  <2> QED BY <2>1, <2>2 DEF ModuleInv, BuildInv
<1>4. raced' \in BOOLEAN
  BY DEF ModuleInv, CountInv, Overlap
<1>5. CountInv' /\ Held' = Held
  BY <1>1, <1>2, <1>3, <1>4, GoesOn DEF ModuleInv
<1>6. AloneInv'
  <2> SUFFICES ASSUME ~raced' PROVE AloneInv'
    BY DEF AloneInv
  <2>1. ~raced /\ ~Overlap'
    BY DEF ModuleInv, CountInv
  <2>2. Held = {} /\ ~Overlap
    BY <1>1, <2>1 DEF ModuleInv, AloneInv
  <2>3. NoFactory \notin dll'.freed
    BY <1>3, NoneFreed DEF BuildInv, NoFactory
  <2>4. ASSUME NEW x \in Threads PROVE user'[x].factory = NoFactory /\ user'[x].at # "addref"
    <3>1. user[x].factory = NoFactory
      BY <2>2, NothingHeld DEF ModuleInv
    <3>2. user[x].at # "addref"
      BY <1>1, <2>2 DEF Overlap
    <3> QED BY <1>1, <1>2, <3>1, <3>2 DEF ModuleInv, CountInv
  <2> QED BY <1>5, <2>1, <2>2, <2>3, <2>4 DEF AloneInv
<1> QED BY <1>3, <1>5, <1>6 DEF ModuleInv

(* A thread takes one more reference, through the factory it holds: none   *)
(* is on the way to free it.                                               *)
LEMMA HoldsMore ==
  ASSUME ModuleInv, NEW t \in Threads, NEW u \in UserTypes, NEW w \in What,
         user' = [user EXCEPT ![t] = u], ~Has(user[t], w), Has(u, w),
         \A v \in What \ {w} : Has(u, v) = Has(user[t], v), u.factory = user[t].factory,
         user[t].factory # NoFactory, u.at = "idle", DllAddRef, raced' = (raced \/ Overlap')
  PROVE  ModuleInv'
<1>1. raced' \in BOOLEAN
  BY DEF ModuleInv, CountInv, Overlap
<1>2. CountInv'
  BY <1>1, Takes DEF ModuleInv
<1>3. BuildInv' /\ dll'.freed = dll.freed
  BY SameBuild DEF ModuleInv, DllAddRef
<1>4. ASSUME ~raced, NEW x \in Threads, user'[x].at = "free" PROVE FALSE
  <2>1. user[x].at = "free"
    BY <1>4 DEF ModuleInv, CountInv
  <2>2. Held = {}
    BY <1>4, <2>1 DEF ModuleInv, AloneInv
  <2> QED BY <2>2, NothingHeld DEF ModuleInv
<1>5. AloneInv'
  BY <1>3, <1>4, StaysAlone DEF ModuleInv, AloneInv, CountInv
<1> QED BY <1>2, <1>3, <1>5 DEF ModuleInv

(* A thread gives one reference back.                                      *)
LEMMA HoldsLess ==
  ASSUME ModuleInv, NEW t \in Threads, NEW left \in UserTypes, NEW w \in What,
         Has(user[t], w), ~Has(left, w),
         \A v \in What \ {w} : Has(left, v) = Has(user[t], v),
         left.factory \in {user[t].factory, NoFactory},
         left.at = "idle", DllRelease(t, left), raced' = (raced \/ Overlap')
  PROVE  ModuleInv'
<1> DEFINE u == [left EXCEPT !.at = IF dll.count - 1 < 0 THEN "free" ELSE "idle"]
<1>1. user' = [user EXCEPT ![t] = u]
  BY DEF DllRelease
<1>2. u.at \in {"free", "idle"} /\ u.factory = left.factory
  BY DEF UserTypes
<1> HIDE DEF u
<1>3. raced' \in BOOLEAN
  BY DEF ModuleInv, CountInv, Overlap
<1>4. CountInv' /\ Held' \subseteq Held /\ (user'[t].at = "free" => Held' = {})
  BY <1>3, Gives DEF ModuleInv
<1>5. BuildInv' /\ dll'.freed = dll.freed
  BY SameBuild DEF ModuleInv, DllRelease
<1>6. ASSUME ~raced, NEW x \in Threads, user'[x].at = "free" PROVE Held' = {}
  <2>1. CASE x = t
    BY <1>4, <1>6, <2>1
  <2>2. CASE x # t
    <3>1. user[x].at = "free"
      BY <1>1, <1>6, <2>2 DEF ModuleInv, CountInv
    <3>2. Held = {}
      BY <1>6, <3>1 DEF ModuleInv, AloneInv
    <3> QED BY <1>4, <3>2
  <2> QED BY <2>1, <2>2
<1>7. ~raced => u.factory \notin dll.freed
  BY <1>2, NoneFreed DEF ModuleInv, AloneInv
<1>8. ~raced' => ~raced
  BY DEF ModuleInv, CountInv
<1>9. AloneInv'
  BY <1>1, <1>2, <1>5, <1>6, <1>7, <1>8, StaysAlone DEF ModuleInv
<1> QED BY <1>4, <1>5, <1>9 DEF ModuleInv

LEMMA CreateKept ==
  ASSUME ModuleInv, NEW t \in Threads, CreateInstance(t), raced' = (raced \/ Overlap')
  PROVE  ModuleInv'
<1> DEFINE u == [user[t] EXCEPT !.instance = TRUE]
<1>1. user' = [user EXCEPT ![t] = u] /\ DllAddRef
  BY DEF CreateInstance
<1>2. /\ u \in UserTypes /\ u.factory = user[t].factory /\ u.instance = TRUE
      /\ u.lock = user[t].lock /\ u.at = "idle" /\ user[t].at = "idle"
      /\ ~user[t].instance /\ user[t].factory # NoFactory
  BY DEF CreateInstance, ModuleInv, CountInv, UserTypes
<1> HIDE DEF u
<1>3. /\ ~Has(user[t], "instance") /\ Has(u, "instance")
      /\ \A v \in What \ {"instance"} : Has(u, v) = Has(user[t], v)
  BY <1>2 DEF Has, What
<1> QED BY <1>1, <1>2, <1>3, HoldsMore DEF What

LEMMA LockKept ==
  ASSUME ModuleInv, NEW t \in Threads, LockServer(t), raced' = (raced \/ Overlap')
  PROVE  ModuleInv'
<1>1. user[t] \in UserTypes /\ user[t].at = "idle" /\ user[t].factory # NoFactory
  BY DEF LockServer, ModuleInv, CountInv
<1>2. CASE user[t].lock
  <2> DEFINE left == [user[t] EXCEPT !.lock = FALSE]
  <2>1. DllRelease(t, left)
    BY <1>2 DEF LockServer
  <2>2. /\ left \in UserTypes /\ left.factory = user[t].factory
        /\ left.instance = user[t].instance /\ ~left.lock /\ left.at = "idle"
    BY <1>1 DEF UserTypes
  <2> HIDE DEF left
  <2>3. /\ Has(user[t], "lock") /\ ~Has(left, "lock")
        /\ \A v \in What \ {"lock"} : Has(left, v) = Has(user[t], v)
    BY <1>2, <2>2 DEF Has, What
  <2> QED BY <2>1, <2>2, <2>3, HoldsLess DEF What
<1>3. CASE ~user[t].lock
  <2> DEFINE u == [user[t] EXCEPT !.lock = TRUE]
  <2>1. user' = [user EXCEPT ![t] = u] /\ DllAddRef
    BY <1>3 DEF LockServer
  <2>2. /\ u \in UserTypes /\ u.factory = user[t].factory
        /\ u.instance = user[t].instance /\ u.lock /\ u.at = "idle"
    BY <1>1 DEF UserTypes
  <2> HIDE DEF u
  <2>3. /\ ~Has(user[t], "lock") /\ Has(u, "lock")
        /\ \A v \in What \ {"lock"} : Has(u, v) = Has(user[t], v)
    BY <1>3, <2>2 DEF Has, What
  <2> QED BY <1>1, <2>1, <2>2, <2>3, HoldsMore DEF What
<1> QED BY <1>2, <1>3

LEMMA ReleaseFactoryKept ==
  ASSUME ModuleInv, NEW t \in Threads, ReleaseFactory(t), raced' = (raced \/ Overlap')
  PROVE  ModuleInv'
<1> DEFINE left == [user[t] EXCEPT !.factory = NoFactory]
<1>1. DllRelease(t, left)
  BY DEF ReleaseFactory
<1>2. /\ left \in UserTypes /\ left.factory = NoFactory /\ left.instance = user[t].instance
      /\ left.lock = user[t].lock /\ left.at = "idle" /\ user[t].factory # NoFactory
  BY DEF ReleaseFactory, ModuleInv, CountInv, UserTypes, NoFactory
<1> HIDE DEF left
<1>3. /\ Has(user[t], "factory") /\ ~Has(left, "factory")
      /\ \A v \in What \ {"factory"} : Has(left, v) = Has(user[t], v)
  BY <1>2 DEF Has, What
<1> QED BY <1>1, <1>2, <1>3, HoldsLess DEF What

LEMMA ReleaseInstanceKept ==
  ASSUME ModuleInv, NEW t \in Threads, ReleaseInstance(t), raced' = (raced \/ Overlap')
  PROVE  ModuleInv'
<1> DEFINE left == [user[t] EXCEPT !.instance = FALSE]
<1>1. DllRelease(t, left)
  BY DEF ReleaseInstance
<1>2. /\ left \in UserTypes /\ left.factory = user[t].factory /\ ~left.instance
      /\ left.lock = user[t].lock /\ left.at = "idle" /\ user[t].instance
  BY DEF ReleaseInstance, ModuleInv, CountInv, UserTypes
<1> HIDE DEF left
<1>3. /\ Has(user[t], "instance") /\ ~Has(left, "instance")
      /\ \A v \in What \ {"instance"} : Has(left, v) = Has(user[t], v)
  BY <1>2 DEF Has, What
<1> QED BY <1>1, <1>2, <1>3, HoldsLess DEF What

LEMMA ModuleStart == ASSUME ModuleInit PROVE ModuleInv
<1>1. \A t \in Threads : user[t] = NewUser
  BY DEF ModuleInit
<1>2. Held = {}
  <2>1. ASSUME NEW t \in Threads, NEW w \in What PROVE ~Has(user[t], w)
    BY <1>1 DEF Has, What, NewUser
  <2> QED BY <2>1 DEF Held
<1>3. IsFiniteSet(Held) /\ Cardinality(Held) = 0
  BY <1>2, FS_EmptySet
<1>4. user \in [Threads -> UserTypes]
  BY DEF ModuleInit, NewUser, UserTypes, NoFactory
<1>5. CountInv
  <2>1. raced = FALSE /\ dll.count = -1 /\ -1 = 0 - 1
    BY DEF ModuleInit
  <2>2. \A t \in Threads : user[t].at = "idle"
    BY <1>1 DEF NewUser
  <2> QED BY <1>3, <1>4, <2>1, <2>2 DEF CountInv
<1>6. BuildInv
  <2>1. dll.made = 1..0
    BY DEF ModuleInit
  <2> QED BY <2>1 DEF ModuleInit, BuildInv
<1>7. AloneInv
  BY <1>1 DEF ModuleInit, AloneInv, Overlap, NewUser
<1> QED BY <1>5, <1>6, <1>7 DEF ModuleInv

LEMMA ModuleKept == ASSUME ModuleInv, [ModuleStep]_moduleVars PROVE ModuleInv'
<1>1. CASE UNCHANGED moduleVars
  <2>1. Held' = Held /\ Overlap' = Overlap
    BY <1>1 DEF moduleVars, Held, Overlap
  <2>2. CountInv'
    BY <1>1, <2>1 DEF moduleVars, ModuleInv, CountInv
  <2>3. BuildInv'
    BY <1>1 DEF moduleVars, ModuleInv, BuildInv
  <2>4. AloneInv'
    BY <1>1, <2>1 DEF moduleVars, ModuleInv, AloneInv
  <2> QED BY <2>2, <2>3, <2>4 DEF ModuleInv
<1>2. CASE ModuleStep
  BY <1>2, GetKept, BuildKept, TakeKept, HoldKept, FreeKept, CreateKept, LockKept,
     ReleaseFactoryKept, ReleaseInstanceKept DEF ModuleStep
<1> QED BY <1>1, <1>2

(* The module and its factory stay as long as any thread uses them: one    *)
(* factory exists at a time, what a thread holds is alive unless a last    *)
(* release met a DllGetClassObject, and DllCanUnloadNow says no while      *)
(* anything is held (Server.cpp:144-252).                                  *)
THEOREM ModuleIsHeldHolds == ModuleSpec => []ModuleIsHeld
<1>1. ModuleInv => ModuleIsHeld
  <2> SUFFICES ASSUME ModuleInv PROVE ModuleIsHeld
    OBVIOUS
  <2>1. OneFactory
    <3>1. Cardinality({}) = 0 /\ Cardinality({dll.factory}) = 1
      BY FS_EmptySet, FS_Singleton
    <3>2. dll.made \ dll.freed = {} \/ dll.made \ dll.freed = {dll.factory}
      BY DEF ModuleInv, BuildInv
    <3>3. Cardinality(dll.made \ dll.freed) = 0 \/ Cardinality(dll.made \ dll.freed) = 1
      BY <3>1, <3>2
    <3> QED BY <3>3 DEF OneFactory
  <2>2. HeldIsAlive
    BY DEF ModuleInv, AloneInv, HeldIsAlive
  <2>3. UnloadWaits
    <3> SUFFICES ASSUME dll.count < 0, NEW t \in Threads
                 PROVE  user[t].factory = NoFactory /\ ~user[t].instance /\ ~user[t].lock
      BY DEF UnloadWaits, DllCanUnloadNow
    <3>1. Cardinality(Held) \in Nat /\ IsFiniteSet(Held)
      BY FS_CardinalityType DEF ModuleInv, CountInv
    <3>2. Cardinality(Held) = 0
      BY <3>1 DEF ModuleInv, CountInv
    <3>3. Held = {}
      BY <3>1, <3>2, FS_EmptySet
    <3>4. ASSUME NEW w \in What PROVE ~Has(user[t], w)
      <4>1. <<t, w>> \notin Held
        BY <3>3
      <4> QED BY <4>1 DEF Held
    <3> QED BY <3>4 DEF Has, What
  <2> QED BY <2>1, <2>2, <2>3 DEF ModuleIsHeld
<1> QED BY <1>1, ModuleStart, ModuleKept, PTL DEF ModuleSpec

(* The factories that are pointed to are among those that were built.      *)
MadeInv == dll.made \subseteq Factories /\ user \in [Threads -> Users]

LEMMA MadeStays == ASSUME ModuleInv, MadeInv, [ModuleStep]_moduleVars PROVE MadeInv'
<1>1. dll.factory \in Factories \union {NoFactory}
  <2>1. dll.factory = NoFactory \/ dll.factory \in dll.made \ dll.freed
    BY DEF ModuleInv, BuildInv
  <2> QED BY <2>1 DEF MadeInv
<1>2. dll = [count |-> dll.count, factory |-> dll.factory, made |-> dll.made, freed |-> dll.freed]
  BY DEF ModuleInv, BuildInv
<1>3. ASSUME NEW t \in Threads, NEW u \in Users, user' = [user EXCEPT ![t] = u],
             dll'.made \subseteq Factories
      PROVE  MadeInv'
  BY <1>3 DEF MadeInv
<1>4. ASSUME NEW t \in Threads, NEW u \in Users, DllRelease(t, u) PROVE MadeInv'
  <2> DEFINE v == [u EXCEPT !.at = IF dll.count - 1 < 0 THEN "free" ELSE "idle"]
  <2>1. v \in Users
    BY DEF Users
  <2>2. dll' = [dll EXCEPT !.count = @ - 1] /\ user' = [user EXCEPT ![t] = v]
    BY <1>4 DEF DllRelease
  <2> HIDE DEF v
  <2>3. dll'.made = dll.made
    BY <1>2, <2>2
  <2> QED BY <1>3, <2>1, <2>2, <2>3 DEF MadeInv
<1>5. ASSUME DllAddRef PROVE dll'.made = dll.made
  BY <1>2, <1>5 DEF DllAddRef
<1>6. CASE UNCHANGED moduleVars
  BY <1>6 DEF moduleVars, MadeInv
<1>7. ASSUME NEW t \in Threads,
             \/ DllGetClassObject(t) \/ TakeFactory(t) \/ HoldFactory(t) \/ CreateInstance(t)
      PROVE  MadeInv'
  <2>1. dll'.made = dll.made
    BY <1>5, <1>7 DEF DllGetClassObject, TakeFactory, HoldFactory, CreateInstance
  <2>2. user[t] \in Users /\ user = [s \in Threads |-> user[s]]
    BY DEF MadeInv
  <2>3. \E u \in Users : user' = [user EXCEPT ![t] = u]
    <3>1. CASE DllGetClassObject(t)
      <4> DEFINE u == [user[t] EXCEPT !.at = IF dll.factory = NoFactory THEN "build" ELSE "take"]
      <4>1. u \in Users
        BY <2>2 DEF Users
      <4>2. user' = [user EXCEPT ![t] = u]
        BY <3>1 DEF DllGetClassObject
      <4> QED BY <4>1, <4>2
    <3>2. CASE TakeFactory(t)
      <4> DEFINE u == [user[t] EXCEPT !.at = IF dll.factory = NoFactory THEN "idle" ELSE "addref",
                                      !.got = dll.factory]
      <4>1. u \in Users
        BY <1>1, <2>2 DEF Users
      <4>2. user' = [user EXCEPT ![t] = u]
        BY <2>2, <3>2 DEF TakeFactory
      <4> QED BY <4>1, <4>2
    <3>3. CASE HoldFactory(t)
      <4> DEFINE u == [user[t] EXCEPT !.at = "idle", !.got = NoFactory, !.factory = user[t].got]
      <4>1. u \in Users
        BY <2>2 DEF Users
      <4>2. user' = [user EXCEPT ![t] = u]
        BY <2>2, <3>3 DEF HoldFactory
      <4> QED BY <4>1, <4>2
    <3>4. CASE CreateInstance(t)
      <4> DEFINE u == [user[t] EXCEPT !.instance = TRUE]
      <4>1. u \in Users
        BY <2>2 DEF Users
      <4>2. user' = [user EXCEPT ![t] = u]
        BY <3>4 DEF CreateInstance
      <4> QED BY <4>1, <4>2
    <3> QED BY <1>7, <3>1, <3>2, <3>3, <3>4
  <2> QED BY <1>3, <2>1, <2>3 DEF MadeInv
<1>8. ASSUME NEW t \in Threads, BuildGlobalObjects(t) PROVE MadeInv'
  <2> DEFINE u == [user[t] EXCEPT !.at = "take"]
             next == Cardinality(dll.made) + 1
  <2>1. u \in Users
    BY DEF MadeInv, Users
  <2>2. /\ user' = [user EXCEPT ![t] = u]
        /\ dll.factory = NoFactory => next \in Factories
        /\ dll' = IF dll.factory # NoFactory THEN dll
                  ELSE [dll EXCEPT !.factory = next, !.made = @ \union {next}]
    BY <1>8 DEF BuildGlobalObjects
  <2> HIDE DEF u, next
  <2>3. dll'.made \subseteq Factories
    <3>1. CASE dll.factory # NoFactory
      BY <2>2, <3>1 DEF MadeInv
    <3>2. CASE dll.factory = NoFactory
      <4>1. dll'.made = dll.made \union {next}
        BY <1>2, <2>2, <3>2
      <4> QED BY <2>2, <3>2, <4>1 DEF MadeInv
    <3> QED BY <3>1, <3>2
  <2> QED BY <1>3, <2>1, <2>2, <2>3
<1>9. ASSUME NEW t \in Threads, FreeGlobalObjects(t) PROVE MadeInv'
  <2> DEFINE u == [user[t] EXCEPT !.at = "idle"]
  <2>1. u \in Users
    BY DEF MadeInv, Users
  <2>2. user' = [user EXCEPT ![t] = u]
    BY <1>9 DEF FreeGlobalObjects
  <2> HIDE DEF u
  <2>3. dll'.made = dll.made
    BY <1>2, <1>9 DEF FreeGlobalObjects
  <2> QED BY <1>3, <2>1, <2>2, <2>3 DEF MadeInv
<1>10. ASSUME NEW t \in Threads, LockServer(t) \/ ReleaseFactory(t) \/ ReleaseInstance(t)
       PROVE  MadeInv'
  <2>1. /\ [user[t] EXCEPT !.lock = FALSE] \in Users /\ [user[t] EXCEPT !.lock = TRUE] \in Users
        /\ [user[t] EXCEPT !.factory = NoFactory] \in Users
        /\ [user[t] EXCEPT !.instance = FALSE] \in Users
    BY DEF MadeInv, Users
  <2>2. CASE LockServer(t) /\ ~user[t].lock
    <3>1. dll'.made = dll.made /\ user' = [user EXCEPT ![t].lock = TRUE]
      BY <1>5, <2>2 DEF LockServer
    <3>2. user' = [user EXCEPT ![t] = [user[t] EXCEPT !.lock = TRUE]]
      BY <3>1
    <3> QED BY <1>3, <2>1, <3>1, <3>2 DEF MadeInv
  <2>3. CASE LockServer(t) /\ user[t].lock
    BY <1>4, <2>1, <2>3 DEF LockServer
  <2>4. CASE ReleaseFactory(t)
    BY <1>4, <2>1, <2>4 DEF ReleaseFactory
  <2>5. CASE ReleaseInstance(t)
    BY <1>4, <2>1, <2>5 DEF ReleaseInstance
  <2> QED BY <1>10, <2>2, <2>3, <2>4, <2>5
<1> QED BY <1>6, <1>7, <1>8, <1>9, <1>10 DEF ModuleStep

(* The count is never less than it began with, so nobody releases what     *)
(* nobody took, and every factory pointed to is one that was built         *)
(* (Server.cpp, DllRelease, BuildGlobalObjects).                           *)
THEOREM ModuleIsTyped == ModuleSpec => []ModuleTypeOK
<1>1. ModuleInit => ModuleInv /\ MadeInv
  <2> SUFFICES ASSUME ModuleInit PROVE ModuleInv /\ MadeInv
    OBVIOUS
  <2>1. NewUser \in Users
    BY DEF NewUser, Users
  <2>2. user \in [Threads -> Users] /\ dll.made = {}
    BY <2>1 DEF ModuleInit
  <2> QED BY <2>2, ModuleStart DEF MadeInv
<1>2. ModuleInv /\ MadeInv /\ [ModuleStep]_moduleVars => (ModuleInv /\ MadeInv)'
  BY ModuleKept, MadeStays
<1>3. ModuleInv /\ MadeInv => ModuleTypeOK
  <2> SUFFICES ASSUME ModuleInv, MadeInv PROVE ModuleTypeOK
    OBVIOUS
  <2>1. Cardinality(Held) \in Nat
    BY FS_CardinalityType DEF ModuleInv, CountInv
  <2>2. dll.count \in Int /\ dll.count >= -1 /\ raced \in BOOLEAN
    BY <2>1 DEF ModuleInv, CountInv
  <2>3. dll.factory \in Factories \union {NoFactory} /\ dll.freed \subseteq Factories
    <3>1. dll.factory = NoFactory \/ dll.factory \in dll.made \ dll.freed
      BY DEF ModuleInv, BuildInv
    <3> QED BY <3>1 DEF MadeInv, ModuleInv, BuildInv
  <2>4. dll = [count |-> dll.count, factory |-> dll.factory, made |-> dll.made, freed |-> dll.freed]
    BY DEF ModuleInv, BuildInv
  <2>5. dll \in DllType
    BY <2>2, <2>3, <2>4 DEF DllType, MadeInv
  <2> QED BY <2>2, <2>5 DEF ModuleTypeOK, MadeInv
<1> QED BY <1>1, <1>2, <1>3, PTL DEF ModuleSpec

-----------------------------------------------------------------------------
(* The registry.                                                           *)

\* What cannot be removed when these calls fail.
Stuck(failing) == UNION {Left(call) : call \in failing}

LEMMA StuckIs ==
  ASSUME NEW failing, NEW call \in failing
  PROVE  Left(call) \subseteq Stuck(failing)
BY DEF Stuck

LEMMA ServerEntriesAre == ServerEntries = {"key", "description", "inproc", "file", "model"}
<1>1. DOMAIN ServerSteps = 1..5
  BY DEF ServerSteps
<1>2. ServerSteps[1] = "key" /\ ServerSteps[2] = "description" /\ ServerSteps[3] = "inproc"
      /\ ServerSteps[4] = "file" /\ ServerSteps[5] = "model"
  BY DEF ServerSteps
<1>3. ASSUME NEW i \in 1..5 PROVE i = 1 \/ i = 2 \/ i = 3 \/ i = 4 \/ i = 5
  OBVIOUS
<1> QED BY <1>1, <1>2, <1>3 DEF ServerEntries

LEMMA RemovalIsWhole ==
  ASSUME NEW entries \in SUBSET AllEntries, NEW failing
  PROVE  /\ DllUnregisterServer(entries, failing) \subseteq entries
         /\ DllUnregisterServer(entries, failing) \subseteq Stuck(failing)
<1> DEFINE p == UnregisterProfiles(entries, failing)
<1> DEFINE c == UnregisterCategories(p, failing)
<1> DEFINE k == RecurseDeleteKey(c, failing)
<1>1. p \subseteq entries /\ ("profile" \in p => "profile" \in Stuck(failing))
  <2>1. Left(<<"remove", "profile">>) = {"profile"} /\ Left(<<"remove", "profiles">>) = {"profile"}
    BY DEF Left, SubkeyHolds
  <2> QED BY <2>1, StuckIs DEF UnregisterProfiles
<1>2. c \subseteq p /\ \A e \in CategorySet : e \in c => e \in Stuck(failing)
  <2>1. c \subseteq p
    BY DEF UnregisterCategories
  <2>2. ASSUME NEW e \in CategorySet, e \in c PROVE e \in Stuck(failing)
    <3>1. Left(<<"remove", "categories">>) = CategorySet
      BY DEF Left, SubkeyHolds
    <3>2. Left(<<"remove", e>>) = {e}
      <4>1. e \notin {"key", "inproc", "profile", "profiles", "categories"}
        BY ServerEntriesAre, RegistrationAssumption
      <4>2. <<"remove", e>> \notin SubkeyHolds /\ <<"remove", e>> # <<"remove", "key">>
        BY <4>1 DEF SubkeyHolds
      <4> QED BY <4>1, <4>2 DEF Left
    <3>3. <<"remove", "categories">> \in failing \/ <<"remove", e>> \in failing
      BY <2>2 DEF UnregisterCategories
    <3> QED BY <3>1, <3>2, <3>3, StuckIs
  <2> QED BY <2>1, <2>2
<1>3. k \subseteq c /\ \A e \in ServerEntries : e \in k => e \in Stuck(failing)
  <2>1. k \subseteq c
    BY DEF RecurseDeleteKey
  <2>2. ASSUME NEW e \in ServerEntries, e \in k PROVE e \in Stuck(failing)
    <3>1. \A call \in SubkeyHolds : Left(call) = ServerEntries
      BY DEF Left, SubkeyHolds
    <3>2. Left(<<"remove", "key">>) = {"key", "description"}
      BY DEF Left, SubkeyHolds
    <3>3. <<"open", "key">> \in SubkeyHolds
      BY DEF SubkeyHolds
    <3>4. \/ \E call \in SubkeyHolds : call \in failing
          \/ <<"remove", "key">> \in failing /\ e \in {"key", "description"}
      <4> HIDE DEF c
      <4> QED BY <2>2, <3>3, ServerEntriesAre DEF RecurseDeleteKey
    <3> QED BY <3>1, <3>2, <3>4, StuckIs
  <2> QED BY <2>1, <2>2
<1>4. k = DllUnregisterServer(entries, failing)
  BY DEF DllUnregisterServer
<1> HIDE DEF p, c, k
<1>5. k \subseteq entries
  BY <1>1, <1>2, <1>3
<1>6. ASSUME NEW e \in k PROVE e \in Stuck(failing)
  <2>1. e \in ServerEntries \/ e = "profile" \/ e \in CategorySet
    BY <1>5 DEF AllEntries
  <2> QED BY <1>1, <1>2, <1>3, <2>1
<1> QED BY <1>4, <1>5, <1>6

\* What a removal goes round on it leaves.
LEMMA RoundLeaves ==
  ASSUME NEW entries \in SUBSET AllEntries, NEW failing, GoesRound(entries, failing)
  PROVE  "inproc" \in DllUnregisterServer(entries, failing)
<1> DEFINE p == UnregisterProfiles(entries, failing)
<1> DEFINE c == UnregisterCategories(p, failing)
<1>1. "inproc" \in entries /\ <<"open", "inproc">> \in failing
  BY DEF GoesRound
<1>2. "inproc" \in p
  BY <1>1 DEF UnregisterProfiles
<1>3. "inproc" \notin CategorySet
  BY ServerEntriesAre, RegistrationAssumption
<1>4. "inproc" \in c
  <2> HIDE DEF p
  <2> QED BY <1>2, <1>3 DEF UnregisterCategories
<1>5. <<"open", "inproc">> \in SubkeyHolds
  BY DEF SubkeyHolds
<1>6. RecurseDeleteKey(c, failing) = c
  <2> HIDE DEF c
  <2> QED BY <1>1, <1>4, <1>5 DEF RecurseDeleteKey
<1> QED BY <1>4, <1>6 DEF DllUnregisterServer

LEMMA ServerAdds ==
  ASSUME NEW entries \in SUBSET AllEntries, NEW failing
  PROVE  LET r == RegisterServer(entries, failing)
         IN /\ r.entries \subseteq AllEntries /\ entries \subseteq r.entries
            /\ r.done => ServerEntries \subseteq r.entries
BY DEF RegisterServer, Outcome, AllEntries, ServerEntries

LEMMA ProfilesAdd ==
  ASSUME NEW entries \in SUBSET AllEntries, NEW failing
  PROVE  LET r == RegisterProfiles(entries, failing)
         IN /\ r.entries \subseteq AllEntries /\ entries \subseteq r.entries
            /\ r.done => "profile" \in r.entries
BY DEF RegisterProfiles, Outcome, AllEntries

LEMMA LastIsOne == LastCategory \in CategorySet
<1>1. Len(Categories) \in DOMAIN Categories
  BY RegistrationAssumption
<1> QED BY <1>1 DEF CategorySet, LastCategory

LEMMA CategoriesAdd ==
  ASSUME NEW entries \in SUBSET AllEntries, NEW failing
  PROVE  LET r == RegisterCategories(entries, failing)
         IN /\ r.entries \subseteq AllEntries /\ entries \subseteq r.entries
            /\ r.done => LastCategory \in r.entries
<1>1. CategorySet \subseteq AllEntries
  BY DEF AllEntries
<1> QED BY <1>1, LastIsOne DEF RegisterCategories, Outcome

LEMMA RegistrationKeeps ==
  ASSUME NEW entries \in SUBSET AllEntries, NEW failing
  PROVE  LET r == DllRegisterServer(entries, failing)
         IN /\ r.entries \subseteq AllEntries
            /\ r.done => AllEntries \ r.entries \subseteq CategorySet \ {LastCategory}
            /\ ~ r.done => r.entries \subseteq Stuck(failing)
<1> DEFINE s == RegisterServer(entries, failing)
<1> DEFINE p == RegisterProfiles(s.entries, failing)
<1> DEFINE a == RegisterCategories(p.entries, failing)
<1> DEFINE Undo(part) == Outcome(FALSE, DllUnregisterServer(part.entries, failing))
<1> DEFINE r == DllRegisterServer(entries, failing)
<1>1. r = IF ~ s.done THEN Undo(s) ELSE IF ~ p.done THEN Undo(p) ELSE IF ~ a.done THEN Undo(a) ELSE a
  BY DEF DllRegisterServer
<1>2. /\ s.entries \subseteq AllEntries /\ (s.done => ServerEntries \subseteq s.entries)
  BY ServerAdds
<1>3. /\ p.entries \subseteq AllEntries /\ s.entries \subseteq p.entries
      /\ (p.done => "profile" \in p.entries)
  BY <1>2, ProfilesAdd
<1>4. /\ a.entries \subseteq AllEntries /\ p.entries \subseteq a.entries
      /\ (a.done => LastCategory \in a.entries)
  BY <1>3, CategoriesAdd
<1>5. ASSUME NEW part, part.entries \subseteq AllEntries
      PROVE  /\ Undo(part).entries \subseteq AllEntries /\ ~ Undo(part).done
             /\ Undo(part).entries \subseteq Stuck(failing)
  BY <1>5, RemovalIsWhole DEF Outcome
<1> HIDE DEF s, p, a, r, Undo
<1>6. ASSUME s.done, p.done, a.done
      PROVE  r = a /\ AllEntries \ a.entries \subseteq CategorySet \ {LastCategory}
  <2>1. r = a
    BY <1>1, <1>6
  <2>2. ServerEntries \subseteq a.entries /\ "profile" \in a.entries /\ LastCategory \in a.entries
    BY <1>2, <1>3, <1>4, <1>6
  <2> QED BY <2>1, <2>2 DEF AllEntries
<1>7. ASSUME ~ (s.done /\ p.done /\ a.done)
      PROVE  \E part : part.entries \subseteq AllEntries /\ r = Undo(part)
  BY <1>1, <1>2, <1>3, <1>4, <1>7
<1>8. /\ r.entries \subseteq AllEntries
      /\ r.done => AllEntries \ r.entries \subseteq CategorySet \ {LastCategory}
      /\ ~ r.done => r.entries \subseteq Stuck(failing)
  <2>1. CASE s.done /\ p.done /\ a.done
    BY <1>4, <1>6, <2>1
  <2>2. CASE ~ (s.done /\ p.done /\ a.done)
    <3>1. PICK part : part.entries \subseteq AllEntries /\ r = Undo(part)
      BY <1>7, <2>2
    <3> QED BY <1>5, <3>1
  <2> QED BY <2>1, <2>2
<1> QED BY <1>8 DEF r

LEMMA RegistrationBegins == RegistrationInit => RegistrationTypeOK /\ RegistrationIsWhole
BY DEF RegistrationInit, RegistrationTypeOK, RegistrationIsWhole

LEMMA RegistrationStaysWhole ==
  ASSUME RegistrationTypeOK, RegistrationStep
  PROVE  (RegistrationTypeOK /\ RegistrationIsWhole)'
<1>1. PICK failing \in Refusals : Register(failing) \/ Unregister(failing)
  BY DEF RegistrationStep
<1>2. failing \subseteq SystemCalls
  BY <1>1, RegistrationAssumption
<1>3. registry.entries \in SUBSET AllEntries
  BY DEF RegistrationTypeOK
<1>4. CASE Register(failing)
  <2> DEFINE r == DllRegisterServer(registry.entries, failing)
  <2>1. /\ registry'.entries = r.entries /\ registry'.op = "add" /\ registry'.done = r.done
        /\ registry'.failing = failing
        /\ registry'.returned = (r.done \/ ~ GoesRound(r.entries, failing))
    BY <1>4 DEF Register
  <2>2. /\ r.entries \subseteq AllEntries
        /\ r.done => AllEntries \ r.entries \subseteq CategorySet \ {LastCategory}
        /\ ~ r.done => r.entries \subseteq Stuck(failing)
    BY <1>3, RegistrationKeeps
  <2> HIDE DEF r
  <2>3. \/ registry'.returned
        \/ "inproc" \in registry'.entries /\ <<"open", "inproc">> \in registry'.failing
    BY <2>1 DEF GoesRound
  <2> QED BY <1>2, <2>1, <2>2, <2>3 DEF RegistrationTypeOK, RegistrationIsWhole, Stuck
<1>5. CASE Unregister(failing)
  <2> DEFINE k == DllUnregisterServer(registry.entries, failing)
  <2>1. /\ registry'.entries = k /\ registry'.op = "remove" /\ registry'.failing = failing
        /\ registry'.returned = ~ GoesRound(registry.entries, failing)
    BY <1>5 DEF Unregister
  <2>2. k \subseteq registry.entries /\ k \subseteq Stuck(failing)
    BY <1>3, RemovalIsWhole
  <2>3. GoesRound(registry.entries, failing) => "inproc" \in k
    BY <1>3, RoundLeaves
  <2> HIDE DEF k
  <2>4. \/ registry'.returned
        \/ "inproc" \in registry'.entries /\ <<"open", "inproc">> \in registry'.failing
    BY <2>1, <2>3 DEF GoesRound
  <2> QED BY <1>2, <1>3, <2>1, <2>2, <2>4 DEF RegistrationTypeOK, RegistrationIsWhole, Stuck
<1> QED BY <1>1, <1>4, <1>5
-----------------------------------------------------------------------------
(* What others go through.                                                 *)

\* A sum of two that does not fit has gone around once.
LEMMA SumGoesAround ==
  ASSUME NEW m \in Nat, NEW a \in Nat, m > 0, a < 2 * m
  PROVE  a % m = IF a < m THEN a ELSE a - m
OBVIOUS

\* An enumerator that has been through the items before where it is.
Enumerators ==
  {e \in EnumType :
    /\ e.of = "attributes" => e.size = MaxDisplayAttributeInfo
    /\ e.given \union e.passed \union e.lost = 0..(e.at - 1) /\ e.at <= e.size
    /\ e.given \cap e.passed = {} /\ e.lost \cap (e.given \union e.passed) = {}
    /\ e.lost # {} => e.of = "candidates"}

LEMMA EnumeratorIs ==
  ASSUME NEW e \in Enumerators
  PROVE  /\ e.of \in {"candidates", "attributes"} /\ e.size \in Items /\ e.size \in Nat /\ e.at \in Nat
         /\ e.given \in SUBSET Items /\ e.passed \in SUBSET Items /\ e.lost \in SUBSET Items
         /\ e = [of |-> e.of, size |-> e.size, at |-> e.at, given |-> e.given,
                 passed |-> e.passed, lost |-> e.lost]
         /\ e.of = "attributes" => e.size = MaxDisplayAttributeInfo
         /\ e.given \union e.passed \union e.lost = 0..(e.at - 1) /\ e.at <= e.size
         /\ e.given \cap e.passed = {} /\ e.lost \cap (e.given \union e.passed) = {}
         /\ e.lost # {} => e.of = "candidates"
<1>1. Items \subseteq Nat
  BY EnumerationAssumption DEF Items, MaxDisplayAttributeInfo
<1> QED BY <1>1 DEF Enumerators, EnumType

\* It goes on, and what is on the way is handed over, skipped or lost.
LEMMA ItemsGoBy ==
  ASSUME NEW e \in Enumerators, NEW to \in Nat, e.at <= to, to <= e.size,
         NEW g, NEW p, NEW l,
         g \union p \union l = Way(e, to), g \cap p = {}, l \cap (g \union p) = {},
         l # {} => e.of = "candidates"
  PROVE  [of |-> e.of, size |-> e.size, at |-> to, given |-> e.given \union g,
          passed |-> e.passed \union p, lost |-> e.lost \union l] \in Enumerators
<1> DEFINE f == [of |-> e.of, size |-> e.size, at |-> to, given |-> e.given \union g,
                 passed |-> e.passed \union p, lost |-> e.lost \union l]
<1>1. /\ f.of = e.of /\ f.size = e.size /\ f.at = to /\ f.given = e.given \union g
      /\ f.passed = e.passed \union p /\ f.lost = e.lost \union l
  OBVIOUS
<1>2. /\ e.of \in {"candidates", "attributes"} /\ e.size \in Items /\ e.size \in Nat /\ e.at \in Nat
      /\ e.given \in SUBSET Items /\ e.passed \in SUBSET Items /\ e.lost \in SUBSET Items
      /\ e.of = "attributes" => e.size = MaxDisplayAttributeInfo
  BY EnumeratorIs
<1>3. /\ e.given \union e.passed \union e.lost = 0..(e.at - 1) /\ e.at <= e.size
      /\ e.given \cap e.passed = {} /\ e.lost \cap (e.given \union e.passed) = {}
      /\ e.lost # {} => e.of = "candidates"
  BY EnumeratorIs
<1>4. \A x \in Way(e, to) : x \in Items /\ x \in Nat /\ x >= e.at /\ x < to
  <2>1. MaxAnswer + 2 \in Nat /\ Items = 0..(MaxAnswer + 2)
    BY EnumerationAssumption DEF Items, MaxDisplayAttributeInfo
  <2> QED BY <1>2, <2>1 DEF Way
<1>5. g \subseteq Items /\ p \subseteq Items /\ l \subseteq Items
  BY <1>4
<1>6. f \in EnumType
  BY <1>2, <1>5 DEF EnumType
<1>7. 0..(e.at - 1) \union Way(e, to) = 0..(to - 1)
  BY <1>2 DEF Way
<1>8. 0..(e.at - 1) \cap Way(e, to) = {}
  BY <1>2 DEF Way
<1> HIDE DEF f
<1>9. f.given \union f.passed \union f.lost = 0..(to - 1)
  BY <1>1, <1>3, <1>7
<1>10. /\ f.given \cap f.passed = {} /\ f.lost \cap (f.given \union f.passed) = {}
       /\ f.lost # {} => f.of = "candidates"
  BY <1>1, <1>3, <1>8
<1>11. f \in Enumerators
  BY <1>1, <1>2, <1>6, <1>9, <1>10 DEF Enumerators
<1> QED BY <1>11 DEF f

LEMMA FetchGoesOn ==
  ASSUME NEW e \in Enumerators, NEW n \in Nat
  PROVE  Fetch(e, n) \in Enumerators
<1> DEFINE to == Lesser(e.at + n, e.size)
<1> DEFINE handed == IF to > e.at THEN {to - 1} ELSE {}
<1> DEFINE way == Way(e, to)
<1>1. e.at \in Nat /\ e.size \in Nat /\ e.at <= e.size /\ e.at + n \in Nat
  BY EnumeratorIs
<1>2. e = [of |-> e.of, size |-> e.size, at |-> e.at, given |-> e.given,
           passed |-> e.passed, lost |-> e.lost] /\ e.of \in {"candidates", "attributes"}
  BY EnumeratorIs
<1>3. to \in Nat /\ e.at <= to /\ to <= e.size
  BY <1>1 DEF Lesser
<1>4. handed \subseteq way
  <2> HIDE DEF to
  <2> QED BY <1>1, <1>3 DEF Way
<1>5. CASE e.of = "candidates"
  <2>1. Fetch(e, n) = [e EXCEPT !.at = to, !.given = @ \union handed, !.lost = @ \union (way \ handed)]
    BY <1>5 DEF Fetch, FetchCandidates
  <2> HIDE DEF to, handed, way
  <2>2. Fetch(e, n) = [of |-> e.of, size |-> e.size, at |-> to, given |-> e.given \union handed,
          passed |-> e.passed \union {}, lost |-> e.lost \union (way \ handed)]
    BY <1>2, <2>1
  <2>3. handed \union {} \union (way \ handed) = Way(e, to)
    BY <1>4 DEF way
  <2>4. handed \cap {} = {} /\ (way \ handed) \cap (handed \union {}) = {}
    OBVIOUS
  <2>5. [of |-> e.of, size |-> e.size, at |-> to, given |-> e.given \union handed,
         passed |-> e.passed \union {}, lost |-> e.lost \union (way \ handed)] \in Enumerators
    BY <1>3, <1>5, <2>3, <2>4, ItemsGoBy
  <2> QED BY <2>2, <2>5
<1>6. CASE e.of = "attributes"
  <2>1. Fetch(e, n) = [e EXCEPT !.at = to, !.given = @ \union way]
    BY <1>6 DEF Fetch, FetchAttributes
  <2> HIDE DEF to, way
  <2>2. Fetch(e, n) = [of |-> e.of, size |-> e.size, at |-> to, given |-> e.given \union way,
          passed |-> e.passed \union {}, lost |-> e.lost \union {}]
    BY <1>2, <2>1
  <2>3. way \union {} \union {} = Way(e, to)
    BY DEF way
  <2>4. [of |-> e.of, size |-> e.size, at |-> to, given |-> e.given \union way,
         passed |-> e.passed \union {}, lost |-> e.lost \union {}] \in Enumerators
    BY <1>3, <2>3, ItemsGoBy
  <2> QED BY <2>2, <2>4
<1> QED BY <1>2, <1>5, <1>6

LEMMA SkipGoesOn ==
  ASSUME NEW e \in Enumerators, NEW n \in 0..MaxULong
  PROVE  SkipOver(e, n) \in Enumerators
<1> DEFINE sum == (n + e.at) % (MaxULong + 1)
<1> DEFINE to == IF e.of = "candidates" THEN Lesser(e.at + n, e.size)
                 ELSE IF sum > MaxDisplayAttributeInfo \/ sum < n THEN MaxDisplayAttributeInfo ELSE sum
<1> DEFINE way == Way(e, to)
<1>1. e.at \in Nat /\ e.size \in Nat /\ e.at <= e.size /\ n \in Nat /\ e.at + n \in Nat
  BY EnumeratorIs, EnumerationAssumption
<1>2. e = [of |-> e.of, size |-> e.size, at |-> e.at, given |-> e.given,
           passed |-> e.passed, lost |-> e.lost] /\ e.of \in {"candidates", "attributes"}
  BY EnumeratorIs
<1>3. SkipOver(e, n) = [e EXCEPT !.at = to, !.passed = @ \union way]
  BY <1>2 DEF SkipOver, SkipCandidates, SkipAttributes
<1>4. to \in Nat /\ e.at <= to /\ to <= e.size
  <2>1. CASE e.of = "candidates"
    BY <1>1, <2>1 DEF Lesser
  <2>2. CASE e.of = "attributes"
    <3>1. e.size = 2
      BY <2>2, EnumeratorIs DEF MaxDisplayAttributeInfo
    <3>2. sum = IF n + e.at < MaxULong + 1 THEN n + e.at ELSE n + e.at - (MaxULong + 1)
      <4> DEFINE m == MaxULong + 1
      <4> DEFINE a == n + e.at
      <4>1. m \in Nat /\ a \in Nat /\ m > 0 /\ a < 2 * m
        BY <1>1, <3>1, EnumerationAssumption
      <4>2. sum = a % m
        OBVIOUS
      <4> HIDE DEF m, a, sum
      <4>3. sum = IF a < m THEN a ELSE a - m
        BY <4>1, <4>2, SumGoesAround
      <4> QED BY <1>1, <4>3, EnumerationAssumption DEF m, a
    <3> HIDE DEF sum
    <3> QED BY <1>1, <2>2, <3>1, <3>2, EnumerationAssumption DEF MaxDisplayAttributeInfo
  <2> QED BY <1>2, <2>1, <2>2
<1> HIDE DEF to, way
<1>5. SkipOver(e, n) = [of |-> e.of, size |-> e.size, at |-> to, given |-> e.given \union {},
                        passed |-> e.passed \union way, lost |-> e.lost \union {}]
  BY <1>2, <1>3
<1>6. {} \union way \union {} = Way(e, to)
  BY DEF way
<1>7. [of |-> e.of, size |-> e.size, at |-> to, given |-> e.given \union {},
       passed |-> e.passed \union way, lost |-> e.lost \union {}] \in Enumerators
  BY <1>4, <1>6, ItemsGoBy
<1> QED BY <1>5, <1>7

\* The list is numbered, and every enumerator has been through it in turn.
EnumInv ==
  /\ strings \in Seq([index : Items, text : Items])
  /\ Len(strings) \in Items
  /\ \A i \in 1..Len(strings) : strings[i] = [index |-> i - 1, text |-> i - 1]
  /\ enums \in Seq(Enumerators)

LEMMA EnumBegins == EnumInit => EnumInv
<1> SUFFICES ASSUME EnumInit PROVE EnumInv
  OBVIOUS
<1>1. 0 \in Items
  BY EnumerationAssumption DEF Items, MaxDisplayAttributeInfo
<1> QED BY <1>1 DEF EnumInit, EnumInv

LEMMA AnswerIsNumbered ==
  ASSUME NEW count \in 0..MaxAnswer, GetSearchCandidates(count), UNCHANGED enums, EnumInv
  PROVE  EnumInv'
<1> DEFINE m == Lesser(count, FakeCandidateNumber)
<1>1. m \in 0..MaxAnswer /\ m \in Nat
  BY EnumerationAssumption DEF Lesser
<1>2. strings' = [i \in 1..m |-> [index |-> i - 1, text |-> i - 1]]
  BY DEF GetSearchCandidates
<1>3. m \in Items /\ \A i \in 1..m : i - 1 \in Items
  <2> HIDE DEF m
  <2> QED BY <1>1, EnumerationAssumption DEF Items, MaxDisplayAttributeInfo
<1> HIDE DEF m
<1>4. strings' \in Seq([index : Items, text : Items]) /\ Len(strings') = m
  BY <1>1, <1>2, <1>3
<1> QED BY <1>2, <1>3, <1>4 DEF EnumInv

LEMMA StartIsOne ==
  /\ \A size \in Items : Start("candidates", size) \in Enumerators
  /\ Start("attributes", MaxDisplayAttributeInfo) \in Enumerators
<1>1. MaxDisplayAttributeInfo \in Items /\ Items \subseteq Nat
  BY EnumerationAssumption DEF Items, MaxDisplayAttributeInfo
<1>2. ASSUME NEW of \in {"candidates", "attributes"}, NEW size \in Items,
             of = "attributes" => size = MaxDisplayAttributeInfo
      PROVE  Start(of, size) \in Enumerators
  <2> DEFINE f == Start(of, size)
  <2>1. f \in EnumType
    BY DEF Start, EnumType
  <2>2. /\ f.of = of /\ f.size = size /\ f.at = 0 /\ f.given = {} /\ f.passed = {} /\ f.lost = {}
    BY DEF Start
  <2> HIDE DEF f
  <2>3. 0..(0 - 1) = {} /\ 0 <= size
    BY <1>1
  <2>4. f \in Enumerators
    BY <1>2, <2>1, <2>2, <2>3 DEF Enumerators
  <2> QED BY <2>4 DEF f
<1> QED BY <1>1, <1>2

LEMMA UsedIsOne ==
  ASSUME EnumInv, NEW i \in DOMAIN enums, Use(i)
  PROVE  enums' \in Seq(Enumerators)
<1>1. enums \in Seq(Enumerators) /\ enums[i] \in Enumerators
  BY DEF EnumInv
<1>2. 0..MaxDisplayAttributeInfo \subseteq 0..MaxULong /\ MaxULong \in 0..MaxULong
  BY EnumerationAssumption DEF MaxDisplayAttributeInfo
<1>3. \E f \in Enumerators : enums' = [enums EXCEPT ![i] = f]
  <2>1. CASE \E n \in 0..MaxDisplayAttributeInfo : enums' = [enums EXCEPT ![i] = Fetch(@, n)]
    <3>1. PICK n \in 0..MaxDisplayAttributeInfo : enums' = [enums EXCEPT ![i] = Fetch(@, n)]
      BY <2>1
    <3>2. n \in Nat
      BY DEF MaxDisplayAttributeInfo
    <3>3. Fetch(enums[i], n) \in Enumerators
      BY <1>1, <3>2, FetchGoesOn
    <3> QED BY <1>1, <3>1, <3>3
  <2>2. CASE \E n \in 0..MaxDisplayAttributeInfo \union {MaxULong} :
               enums' = [enums EXCEPT ![i] = SkipOver(@, n)]
    BY <1>1, <1>2, <2>2, SkipGoesOn
  <2>3. CASE enums' = [enums EXCEPT ![i] = Reset(@)]
    <3>1. Reset(enums[i]) \in Enumerators
      <4>1. /\ enums[i].of \in {"candidates", "attributes"} /\ enums[i].size \in Items
            /\ enums[i].of = "attributes" => enums[i].size = MaxDisplayAttributeInfo
        BY <1>1, EnumeratorIs
      <4> QED BY <4>1, StartIsOne DEF Reset
    <3> QED BY <1>1, <2>3, <3>1
  <2> QED BY <2>1, <2>2, <2>3 DEF Use
<1> QED BY <1>1, <1>3

LEMMA EnumKeeps == ASSUME EnumInv, EnumStep PROVE EnumInv'
<1>1. CASE \E count \in 0..MaxAnswer : GetSearchCandidates(count) /\ UNCHANGED enums
  BY <1>1, AnswerIsNumbered
<1>2. ASSUME UNCHANGED strings, enums' \in Seq(Enumerators) PROVE EnumInv'
  BY <1>2 DEF EnumInv
<1>3. ASSUME NEW e \in Enumerators, Add(e) PROVE enums' \in Seq(Enumerators)
  BY <1>3 DEF Add, EnumInv
<1>4. CASE EnumCandidates /\ UNCHANGED strings
  <2>1. Start("candidates", Len(strings)) \in Enumerators
    BY StartIsOne DEF EnumInv
  <2> QED BY <1>2, <1>3, <1>4, <2>1 DEF EnumCandidates
<1>5. CASE EnumDisplayAttributeInfo /\ UNCHANGED strings
  BY <1>2, <1>3, <1>5, StartIsOne DEF EnumDisplayAttributeInfo
<1>6. ASSUME NEW i \in DOMAIN enums, Clone(i), UNCHANGED strings PROVE EnumInv'
  <2>1. enums[i] \in Enumerators
    BY DEF EnumInv
  <2> QED BY <1>2, <1>3, <1>6, <2>1 DEF Clone
<1>7. ASSUME NEW i \in DOMAIN enums, Use(i), UNCHANGED strings PROVE EnumInv'
  BY <1>2, <1>7, UsedIsOne
<1>8. ASSUME NEW i \in DOMAIN enums, Forget(i), UNCHANGED strings PROVE EnumInv'
  <2>1. /\ Len(enums) \in Nat /\ i \in 1..Len(enums)
        /\ \A j \in 1..Len(enums) : enums[j] \in Enumerators
    BY DEF EnumInv
  <2>2. Len(enums) - 1 \in Nat
    BY <2>1
  <2>3. \A j \in 1..(Len(enums) - 1) : (IF j < i THEN enums[j] ELSE enums[j + 1]) \in Enumerators
    BY <2>1
  <2>4. enums' \in Seq(Enumerators)
    BY <1>8, <2>2, <2>3 DEF Forget
  <2> QED BY <1>2, <1>8, <2>4
<1> QED BY <1>1, <1>4, <1>5, <1>6, <1>7, <1>8 DEF EnumStep

LEMMA EnumInvIsFound == EnumInv => EnumTypeOK /\ ItemsAreFound
<1> SUFFICES ASSUME EnumInv PROVE EnumTypeOK /\ ItemsAreFound
  OBVIOUS
<1>1. EnumTypeOK
  <2>1. Enumerators \subseteq EnumType
    BY DEF Enumerators
  <2>2. enums \in Seq(EnumType)
    BY <2>1 DEF EnumInv
  <2> QED BY <2>2 DEF EnumTypeOK, EnumInv
<1>2. EachInTurn
  <2> SUFFICES ASSUME NEW i \in DOMAIN enums
               PROVE  LET e == enums[i]
                      IN /\ e.given \union e.passed \union e.lost = 0..(e.at - 1) /\ e.at <= e.size
                         /\ e.given \cap e.passed = {} /\ e.lost \cap (e.given \union e.passed) = {}
                         /\ e.lost # {} => e.of = "candidates"
    BY DEF EachInTurn
  <2>1. enums[i] \in Enumerators
    BY DEF EnumInv
  <2> QED BY <2>1, EnumeratorIs
<1>3. FoundByIndex
  <2> SUFFICES ASSUME NEW n \in 0..(Len(strings) - 1)
               PROVE  GetCandidate(n) = {strings[n + 1].text}
    BY DEF FoundByIndex
  <2> DEFINE found == {i \in DOMAIN strings : strings[i].index = n}
  <2>1. Len(strings) \in Nat /\ DOMAIN strings = 1..Len(strings)
    BY DEF EnumInv
  <2>2. ASSUME NEW i \in 1..Len(strings) PROVE strings[i].index = i - 1
    <3>1. strings[i] = [index |-> i - 1, text |-> i - 1]
      BY DEF EnumInv
    <3> QED BY <3>1
  <2>3. found = {n + 1}
    BY <2>1, <2>2
  <2> DEFINE first == CHOOSE i \in found : \A j \in found : i <= j
  <2>4. first = n + 1
    BY <2>1, <2>3
  <2>5. n < Len(strings) /\ found # {}
    BY <2>1, <2>3
  <2>6. GetCandidate(n) = IF n < Len(strings) /\ found # {} THEN {strings[first].text} ELSE {}
    BY DEF GetCandidate
  <2> HIDE DEF found, first
  <2> QED BY <2>4, <2>5, <2>6
<1> QED BY <1>1, <1>2, <1>3 DEF ItemsAreFound

-----------------------------------------------------------------------------
(* The invariant.                                                          *)

\* Where the stack has its first callback of the conversion mode: at its
\* bottom, or on the callback of a mode that was written to from outside.
Root == IF calls[1].of = Conversion THEN 1 ELSE 2

\* The conversion mode that the stack, once it is so high, settles to.
Goal == calls[Root].read

AllModes == <<"width", "punct", "open">>
Todos == {AllModes, <<"punct", "open">>, <<"open">>, <<>>}

\* Every callback has its modes before it in their order, and a mode's,
\* when it has called, has none left.
FramesInOrder ==
  /\ calls \in Seq(Frames)
  /\ \A i \in DOMAIN calls :
       /\ calls[i].of = Conversion => calls[i].todo \in Todos
       /\ calls[i].of # Conversion => calls[i].todo \in {<<calls[i].of>>, <<>>}
       /\ calls[i].of # Conversion /\ i < Len(calls) => calls[i].todo = <<>>

\* Who may call whom.
Stacked ==
  calls # <<>> =>
    /\ Len(calls) <= Root + 3
    /\ Len(calls) >= Root => calls[Root].of = Conversion
    /\ Len(calls) > Root =>
         /\ calls[Root + 1].of \in Bits
         /\ calls[Root + 1].of = "width" => calls[Root].todo = <<"punct", "open">>
         /\ calls[Root + 1].of = "punct" => calls[Root].todo = <<"open">>
         /\ calls[Root + 1].of = "open"  => calls[Root].todo = <<>>
    /\ Len(calls) > Root + 1 =>
         calls[Root + 1].of # "open" /\ calls[Root + 2].of = Conversion /\ ~refuses
    /\ Len(calls) > Root + 2 => calls[Root + 3].of = "open"

\* The first callback of the conversion mode has made the modes it has looked
\* at follow; the conversion mode is what it read, but for the punctuation
\* in between, which a callback of the width may have made follow too early.
Settling ==
  calls # <<>> /\ Len(calls) >= Root =>
    /\ calls[Root].todo # AllModes => (flags["width"] <=> "width" \in Goal)
    /\ calls[Root].todo \in {<<"open">>, <<>>} => (flags["punct"] <=> "punct" \in Goal)
    /\ calls[Root].todo = <<>> => (flags["open"] <=> "open" \in Goal)
    /\ \A b \in {"width", "open"} : b \in conv <=> b \in Goal
    /\ \/ "punct" \in conv <=> "punct" \in Goal
       \/ /\ ~refuses
          /\ \/ calls[Root].todo = <<"punct", "open">> /\ ("punct" \in conv <=> flags["punct"])
             \/ Len(calls) = Root + 1 /\ calls[Root + 1].of = "punct" /\ calls[Root + 1].todo # <<>>
    /\ Len(calls) > Root + 1 =>
         /\ calls[Root + 2].read = conv
         /\ \A b \in {"width", "punct"} : flags[b] <=> b \in conv
    /\ Len(calls) > Root + 2 => (flags["open"] <=> "open" \in Goal)
    /\ Root = 2 => (flags[calls[1].of] <=> calls[1].of \in Goal)

\* What was asked for last is what the stack settles to.
WishInSight ==
  /\ calls = <<>> \/ stage # "up" => wish = NoWish
  /\ calls # <<>> /\ stage = "up" =>
       wish = [of |-> calls[1].of,
               is |-> IF Root = 1 THEN Goal ELSE flags[calls[1].of]]

\* Before the conversion mode is called, all others agree.
OthersAgree ==
  /\ stage = "up" /\ calls = <<>> => \A b \in agreed : flags[b] <=> b \in conv
  /\ stage = "up" /\ Len(calls) = 1 /\ calls[1].of # Conversion =>
       \A b \in agreed : (b = calls[1].of /\ calls[1].todo # <<>>) \/ (flags[b] <=> b \in conv)
  /\ stage = "down" => calls = <<>>

\* The icons are right also while callbacks run.
IconsFollow ==
  /\ buttons.sink \subseteq buttons.added
  /\ \A b \in buttons.asked \cap buttons.sink : buttons.icon[b] <=> GetIcon(b)

StackInv ==
  /\ flags \in Flags /\ conv \in SUBSET Bits /\ agreed \in SUBSET Bits
  /\ stage \in {"down", "up", "closing"}
  /\ FramesInOrder /\ Stacked /\ Settling /\ WishInSight /\ OthersAgree

ModeRest == closing \in Seq(Bits) /\ buttons \in LangBarItemButtons /\ refuses \in BOOLEAN

ModeIInv == StackInv /\ ModeRest /\ IconsFollow

-----------------------------------------------------------------------------
LEMMA TodosInOrder ==
  /\ Head(AllModes) = "width" /\ Tail(AllModes) = <<"punct", "open">>
  /\ Head(<<"punct", "open">>) = "punct" /\ Tail(<<"punct", "open">>) = <<"open">>
  /\ \A b \in Bits : Head(<<b>>) = b /\ Tail(<<b>>) = <<>> /\ <<b>> # <<>>
  /\ AllModes # <<"punct", "open">> /\ AllModes # <<"open">> /\ AllModes # <<>>
  /\ <<"punct", "open">> # <<"open">> /\ <<"punct", "open">> # <<>> /\ <<"open">> # <<>>
BY DEF AllModes, Bits

LEMMA BottomOf ==
  ASSUME calls \in Seq(Frames), calls # <<>>
  PROVE  /\ Bottom \in Seq(Frames) /\ Len(Bottom) = Len(calls) - 1
         /\ \A i \in 1..(Len(calls) - 1) : Bottom[i] = calls[i]
<1>1. Len(calls) \in Nat \ {0} /\ \A i \in 1..Len(calls) : calls[i] \in Frames
  OBVIOUS
<1>2. \A i \in 1..(Len(calls) - 1) : calls[i] \in Frames
  BY <1>1
<1> DEFINE n == Len(calls) - 1
<1>3. n \in Nat /\ \A i \in 1..n : calls[i] \in Frames
  BY <1>1, <1>2
<1> HIDE DEF n
<1>4. /\ SubSeq(calls, 1, n) \in Seq(Frames)
      /\ Len(SubSeq(calls, 1, n)) = IF 1 <= n THEN n - 1 + 1 ELSE 0
      /\ \A i \in 1..(n - 1 + 1) : SubSeq(calls, 1, n)[i] = calls[1 + i - 1]
  <2>1. n \in Int /\ 1 \in Int
    BY <1>3
  <2> QED BY <1>3, <2>1, SubSeqProperties
<1>5. Bottom = SubSeq(calls, 1, n)
  BY DEF Bottom, n
<1>6. n - 1 + 1 = n /\ (IF 1 <= n THEN n - 1 + 1 ELSE 0) = n /\ \A i \in 1..n : 1 + i - 1 = i
  BY <1>3
<1>7. n = Len(calls) - 1
  BY DEF n
<1> QED BY <1>4, <1>5, <1>6, <1>7

LEMMA PassedOn ==
  ASSUME calls \in Seq(Frames), calls # <<>>, Top.todo # <<>>
  PROVE  /\ Passed \in Seq(Frames) /\ Len(Passed) = Len(calls)
         /\ \A i \in 1..(Len(calls) - 1) : Passed[i] = calls[i]
         /\ Passed[Len(calls)].of = Top.of /\ Passed[Len(calls)].read = Top.read
         /\ Passed[Len(calls)].todo = Tail(Top.todo)
<1>1. Len(calls) \in Nat \ {0} /\ \A i \in 1..Len(calls) : calls[i] \in Frames
  OBVIOUS
<1>2. Top \in Frames /\ Tail(Top.todo) \in Seq(Bits)
  BY <1>1 DEF Top, Frames
<1>3. [Top EXCEPT !.todo = Tail(@)] \in Frames
  BY <1>2 DEF Frames
<1> DEFINE f == [Top EXCEPT !.todo = Tail(@)]
<1>4. /\ f \in Frames /\ f.of = Top.of /\ f.read = Top.read /\ f.todo = Tail(Top.todo)
      /\ Passed = Append(Bottom, f)
  BY <1>2, <1>3 DEF Passed, Frames
<1> HIDE DEF f
<1> QED BY <1>1, <1>4, BottomOf

LEMMA FrameOf ==
  ASSUME NEW c \in Bits \union {Conversion}, NEW mode \in SUBSET Bits
  PROVE  /\ Frame(c, mode) \in Frames /\ Frame(c, mode).of = c /\ Frame(c, mode).read = mode
         /\ Frame(c, mode).todo = IF c = Conversion THEN AllModes ELSE <<c>>
<1>1. AllModes \in Seq(Bits)
  BY DEF AllModes, Bits
<1>2. \A b \in Bits : <<b>> \in Seq(Bits)
  OBVIOUS
<1> QED BY <1>1, <1>2 DEF Frame, Frames, AllModes

\* Where in the stack the callback is that runs.
LEMMA StackPlaces ==
  ASSUME StackInv, calls # <<>>
  PROVE  /\ Len(calls) \in Nat \ {0} /\ calls \in Seq(Frames)
         /\ \A i \in 1..Len(calls) : calls[i] \in Frames
         /\ Root \in {1, 2} /\ (Root = 2 => calls[1].of \in Bits)
         /\ Len(calls) <= Root + 3 /\ (Len(calls) < Root => Root = 2 /\ Len(calls) = 1)
         /\ Top.of = Conversion <=> Len(calls) \in {Root, Root + 2}
         /\ stage # "down"
<1>1. Len(calls) \in Nat \ {0} /\ calls \in Seq(Frames) /\ \A i \in 1..Len(calls) : calls[i] \in Frames
  BY DEF StackInv, FramesInOrder
<1>2. Root \in {1, 2} /\ (Root = 2 => calls[1].of \in Bits)
  BY <1>1 DEF Root, Frames
<1>3. Len(calls) <= Root + 3 /\ (Len(calls) < Root => Root = 2 /\ Len(calls) = 1)
  <2>1. Len(calls) <= Root + 3
    BY DEF StackInv, Stacked
  <2> DEFINE n == Len(calls)
  <2>2. n \in Nat \ {0}
    BY <1>1
  <2> HIDE DEF n
  <2>3. n < Root => Root = 2 /\ n = 1
    BY <1>2, <2>2
  <2> QED BY <2>1, <2>3 DEF n
<1>4. Len(calls) \in {Root, Root + 2} => Top.of = Conversion
  BY <1>1, <1>2, <1>3 DEF StackInv, Stacked, Top
<1>5. Root = 2 => calls[1].of # Conversion
  BY DEF Root
<1>6. Len(calls) \in {Root + 1, Root + 3} => Top.of # Conversion
  <2>1. Len(calls) = Root + 1 => calls[Root + 1].of \in Bits
    BY <1>1, <1>2 DEF StackInv, Stacked
  <2>2. Len(calls) = Root + 3 => calls[Root + 3].of = "open"
    BY <1>1, <1>2 DEF StackInv, Stacked
  <2> QED BY <2>1, <2>2 DEF Top, Bits, Conversion
<1>7. Len(calls) < Root => Top.of # Conversion
  BY <1>3, <1>5 DEF Top
<1>8. Len(calls) \in {Root, Root + 2} \/ Len(calls) \in {Root + 1, Root + 3} \/ Len(calls) < Root
  BY <1>1, <1>2, <1>3
<1>9. Top.of = Conversion <=> Len(calls) \in {Root, Root + 2}
  BY <1>4, <1>6, <1>7, <1>8
<1> QED BY <1>1, <1>2, <1>3, <1>9 DEF StackInv, OthersAgree

Rest == <<flags, conv, stage, agreed, refuses>>

(* A callback that has looked at all its modes returns. *)
LEMMA ReturnKeeps ==
  ASSUME StackInv, calls # <<>>, Return, UNCHANGED refuses
  PROVE  StackInv'
<1>1. /\ calls' \in Seq(Frames) /\ Len(calls') = Len(calls) - 1
      /\ \A i \in 1..(Len(calls) - 1) : calls'[i] = calls[i]
      /\ Len(calls) \in Nat \ {0}
  BY BottomOf, StackPlaces DEF Return
<1>2. /\ UNCHANGED Rest /\ Top.todo = <<>>
      /\ wish' = IF calls' = <<>> THEN NoWish ELSE wish
  BY DEF Return, Rest
<1>3. CASE Len(calls) = 1
  <2>1. calls' = <<>>
    BY <1>1, <1>3
  <2>2. stage = "up" => \A b \in agreed : flags[b] <=> b \in conv
    <3>1. CASE Root = 2
      BY <1>2, <1>3, <3>1 DEF StackInv, OthersAgree, Root, Top
    <3>2. CASE Root = 1
      <4>1. \A b \in Bits : flags[b] <=> b \in conv
        BY <1>2, <1>3, <3>2, TodosInOrder DEF StackInv, Settling, Top, Bits
      <4> QED BY <4>1 DEF StackInv
    <3> QED BY <3>1, <3>2, StackPlaces
  <2> QED BY <1>2, <2>1, <2>2 DEF StackInv, FramesInOrder, Stacked, Settling, WishInSight, OthersAgree, Rest
<1>4. CASE Len(calls) # 1
  <2>1. calls' # <<>> /\ calls'[1] = calls[1] /\ Root' = Root /\ wish' = wish
    BY <1>1, <1>2, <1>4 DEF Root
  <2>2. FramesInOrder' /\ Stacked'
    <3>1. FramesInOrder'
      BY <1>1 DEF StackInv, FramesInOrder
    <3>2. \A i \in 1..Len(calls') : calls'[i] = calls[i]
      BY <1>1
    <3>3. Len(calls') < Len(calls) /\ Root \in 1..2 /\ Len(calls') \in Nat
      BY <1>1, StackPlaces
    <3>4. Stacked'
      BY SMTT(40), <1>2, <2>1, <3>2, <3>3 DEF StackInv, Stacked, Rest
    <3> QED BY <3>1, <3>4
  <2>3. CASE Len(calls) = Root
    <3>1. Root = 2 /\ Len(calls') = 1
      BY <1>1, <1>4, <2>3, StackPlaces
    <3>2. \A b \in Bits : flags[b] <=> b \in conv
      BY <1>2, <2>3, <1>1, StackPlaces, TodosInOrder DEF StackInv, Settling, Top, Bits
    <3> QED BY <1>2, <2>1, <2>2, <3>1, <3>2, <1>1 DEF StackInv, Settling, WishInSight, OthersAgree, Rest
  <2>4. CASE Len(calls) # Root
    <3>1. /\ Len(calls') >= Root /\ calls'[Root] = calls[Root] /\ Goal' = Goal
          /\ Len(calls') > Root => calls'[Root + 1] = calls[Root + 1]
          /\ Len(calls') > Root + 1 => calls'[Root + 2] = calls[Root + 2]
      <4>1. Len(calls) > Root /\ Root \in {1, 2}
        BY <1>4, <2>4, StackPlaces
      <4>2. Len(calls') >= Root /\ \A i \in 1..Len(calls') : calls'[i] = calls[i]
        BY <1>1, <4>1
      <4> QED BY <1>1, <2>1, <4>1, <4>2 DEF Goal
    <3>2. Settling'
      BY <1>1, <1>2, <2>1, <3>1, StackPlaces DEF StackInv, Settling, Rest, Top
    <3>3. Len(calls') = 1 => calls'[1].of = Conversion
      <4>1. Len(calls') = 1 => Root = 1
        BY <3>1, StackPlaces
      <4> QED BY <2>1, <4>1 DEF Root
    <3> QED BY <1>1, <1>2, <2>1, <2>2, <3>1, <3>2, <3>3, StackPlaces DEF StackInv, WishInSight, OthersAgree, Rest
  <2> QED BY <2>3, <2>4
<1> QED BY <1>3, <1>4

\* The stack after a callback has looked at one of its modes,
LEMMA AfterPass ==
  ASSUME StackInv, calls # <<>>, Top.todo # <<>>, calls' = Passed
  PROVE  /\ calls' \in Seq(Frames) /\ Len(calls') = Len(calls) /\ calls' # <<>>
         /\ \A i \in 1..(Len(calls) - 1) : calls'[i] = calls[i]
         /\ \A i \in 1..Len(calls) : calls'[i].of = calls[i].of /\ calls'[i].read = calls[i].read
         /\ calls'[Len(calls)].todo = Tail(Top.todo)
         /\ Root' = Root /\ (Len(calls) >= Root => Goal' = Goal)
<1>1. Len(calls) \in Nat \ {0} /\ calls \in Seq(Frames) /\ Root \in 1..2
  BY StackPlaces
<1>2. /\ calls' \in Seq(Frames) /\ Len(calls') = Len(calls)
      /\ \A i \in 1..(Len(calls) - 1) : calls'[i] = calls[i]
      /\ calls'[Len(calls)].of = Top.of /\ calls'[Len(calls)].read = Top.read
      /\ calls'[Len(calls)].todo = Tail(Top.todo)
  BY <1>1, PassedOn
<1>3. calls' # <<>>
  BY <1>1, <1>2
<1>4. \A i \in 1..Len(calls) : calls'[i].of = calls[i].of /\ calls'[i].read = calls[i].read
  BY <1>1, <1>2 DEF Top
<1>5. Root' = Root
  BY <1>1, <1>4 DEF Root
<1>6. Len(calls) >= Root => Goal' = Goal
  BY <1>1, <1>4, <1>5 DEF Goal
<1> QED BY <1>2, <1>3, <1>4, <1>5, <1>6

\* What stays below a callback that is told of something.
LEMMA StaysBelow ==
  ASSUME StackInv, calls # <<>>, Len(calls') >= Len(calls), calls' \in Seq(Frames),
         \A i \in 1..(Len(calls) - 1) : calls'[i] = calls[i],
         calls'[Len(calls)].of = Top.of, calls'[Len(calls)].read = Top.read
  PROVE  /\ calls' # <<>> /\ \A i \in 1..Len(calls) : calls'[i].of = calls[i].of /\ calls'[i].read = calls[i].read
         /\ Root' = Root /\ (Len(calls) >= Root => Goal' = Goal)
<1>1. Len(calls) \in Nat \ {0} /\ calls \in Seq(Frames) /\ Root \in 1..2
  BY StackPlaces
<1>3. calls' # <<>>
  BY <1>1
<1>4. \A i \in 1..Len(calls) : calls'[i].of = calls[i].of /\ calls'[i].read = calls[i].read
  BY <1>1 DEF Top
<1>5. Root' = Root
  BY <1>1, <1>4 DEF Root
<1>6. Len(calls) >= Root => Goal' = Goal
  BY <1>1, <1>4, <1>5 DEF Goal
<1> QED BY <1>3, <1>4, <1>5, <1>6

\* and after it has called another.
LEMMA AfterCall ==
  ASSUME StackInv, calls # <<>>, Top.todo # <<>>, NEW f \in Frames, calls' = Append(Passed, f)
  PROVE  /\ calls' \in Seq(Frames) /\ Len(calls') = Len(calls) + 1 /\ calls' # <<>>
         /\ \A i \in 1..(Len(calls) - 1) : calls'[i] = calls[i]
         /\ \A i \in 1..Len(calls) : calls'[i].of = calls[i].of /\ calls'[i].read = calls[i].read
         /\ calls'[Len(calls)].todo = Tail(Top.todo) /\ calls'[Len(calls) + 1] = f
         /\ Root' = Root /\ (Len(calls) >= Root => Goal' = Goal)
<1>1. Len(calls) \in Nat \ {0} /\ calls \in Seq(Frames) /\ Root \in 1..2
  BY StackPlaces
<1>2. /\ Passed \in Seq(Frames) /\ Len(Passed) = Len(calls)
      /\ \A i \in 1..(Len(calls) - 1) : Passed[i] = calls[i]
      /\ Passed[Len(calls)].of = Top.of /\ Passed[Len(calls)].read = Top.read
      /\ Passed[Len(calls)].todo = Tail(Top.todo)
  BY <1>1, PassedOn
<1>3. /\ calls' \in Seq(Frames) /\ Len(calls') = Len(calls) + 1
      /\ \A i \in 1..Len(calls) : calls'[i] = Passed[i]
      /\ calls'[Len(calls) + 1] = f
  BY <1>2, AppendProperties
<1>4. /\ \A i \in 1..(Len(calls) - 1) : calls'[i] = calls[i]
      /\ calls'[Len(calls)].of = Top.of /\ calls'[Len(calls)].read = Top.read
      /\ calls'[Len(calls)].todo = Tail(Top.todo)
  BY <1>1, <1>2, <1>3
<1>5. Len(calls') >= Len(calls)
  BY <1>1, <1>3
<1> QED BY <1>3, <1>4, <1>5, StaysBelow

\* What the invariant says of a stack so high.
LEMMA Settled ==
  ASSUME StackInv, calls # <<>>, Len(calls) >= Root
  PROVE  /\ calls[Root].of = Conversion /\ calls[Root].todo \in Todos
         /\ calls[Root].todo # AllModes => (flags["width"] <=> "width" \in Goal)
         /\ calls[Root].todo \in {<<"open">>, <<>>} => (flags["punct"] <=> "punct" \in Goal)
         /\ calls[Root].todo = <<>> => (flags["open"] <=> "open" \in Goal)
         /\ \A b \in {"width", "open"} : b \in conv <=> b \in Goal
         /\ Root = 2 => (flags[calls[1].of] <=> calls[1].of \in Goal)
         /\ Goal \in SUBSET Bits
<1>1. Len(calls) \in Nat \ {0} /\ calls \in Seq(Frames) /\ Root \in 1..2
  BY StackPlaces
<1>2. calls[Root].of = Conversion
  BY DEF StackInv, Stacked
<1>3. Root \in DOMAIN calls /\ calls[Root] \in Frames
  BY <1>1
<1>4. calls[Root].todo \in Todos
  BY <1>2, <1>3 DEF StackInv, FramesInOrder
<1>5. Goal \in SUBSET Bits
  BY <1>3 DEF Goal, Frames
<1> QED BY <1>2, <1>4, <1>5 DEF StackInv, Settling

LEMMA SettledPunct ==
  ASSUME StackInv, calls # <<>>, Len(calls) >= Root
  PROVE  \/ "punct" \in conv <=> "punct" \in Goal
         \/ /\ ~refuses
            /\ \/ calls[Root].todo = <<"punct", "open">> /\ ("punct" \in conv <=> flags["punct"])
               \/ Len(calls) = Root + 1 /\ calls[Root + 1].of = "punct" /\ calls[Root + 1].todo # <<>>
BY DEF StackInv, Settling

LEMMA SettledAbove ==
  ASSUME StackInv, calls # <<>>, Len(calls) >= Root
  PROVE  /\ Len(calls) > Root =>
              /\ calls[Root + 1].of \in Bits
              /\ calls[Root + 1].of = "width" => calls[Root].todo = <<"punct", "open">>
              /\ calls[Root + 1].of = "punct" => calls[Root].todo = <<"open">>
              /\ calls[Root + 1].of = "open"  => calls[Root].todo = <<>>
         /\ Len(calls) > Root + 1 =>
              /\ calls[Root + 1].of # "open" /\ calls[Root + 2].of = Conversion /\ ~refuses
              /\ calls[Root + 2].read = conv
              /\ \A b \in {"width", "punct"} : flags[b] <=> b \in conv
         /\ Len(calls) > Root + 2 => calls[Root + 3].of = "open" /\ (flags["open"] <=> "open" \in Goal)
<1>1. Len(calls) > Root + 1 => /\ calls[Root + 2].read = conv
                               /\ \A b \in {"width", "punct"} : flags[b] <=> b \in conv
  BY DEF StackInv, Settling
<1>2. Len(calls) > Root + 2 => (flags["open"] <=> "open" \in Goal)
  BY DEF StackInv, Settling
<1> QED BY <1>1, <1>2 DEF StackInv, Stacked

LEMMA TodoOf ==
  ASSUME StackInv, NEW i \in 1..Len(calls)
  PROVE  /\ calls[i] \in Frames
         /\ calls[i].of = Conversion => calls[i].todo \in Todos
         /\ calls[i].of # Conversion => calls[i].todo \in {<<calls[i].of>>, <<>>}
         /\ calls[i].of # Conversion /\ i < Len(calls) => calls[i].todo = <<>>
<1>1. calls \in Seq(Frames) /\ DOMAIN calls = 1..Len(calls)
  BY DEF StackInv, FramesInOrder
<1> QED BY <1>1 DEF StackInv, FramesInOrder

\* What a stack must be like after a step, one thing at a time.
LEMMA SettlingNext ==
  ASSUME NEW r, r = Root', NEW m, m = Len(calls'), NEW g, g = Goal',
         m >= r =>
           /\ calls'[r].todo # AllModes => (flags'["width"] <=> "width" \in g)
           /\ calls'[r].todo \in {<<"open">>, <<>>} => (flags'["punct"] <=> "punct" \in g)
           /\ calls'[r].todo = <<>> => (flags'["open"] <=> "open" \in g)
           /\ \A b \in {"width", "open"} : b \in conv' <=> b \in g,
         m >= r =>
           \/ "punct" \in conv' <=> "punct" \in g
           \/ /\ ~refuses'
              /\ \/ calls'[r].todo = <<"punct", "open">> /\ ("punct" \in conv' <=> flags'["punct"])
                 \/ m = r + 1 /\ calls'[r + 1].of = "punct" /\ calls'[r + 1].todo # <<>>,
         m >= r =>
           /\ m > r + 1 =>
                /\ calls'[r + 2].read = conv'
                /\ \A b \in {"width", "punct"} : flags'[b] <=> b \in conv'
           /\ m > r + 2 => (flags'["open"] <=> "open" \in g)
           /\ r = 2 => (flags'[calls'[1].of] <=> calls'[1].of \in g)
  PROVE  Settling'
BY DEF Settling

\* Not higher than the callback of a mode.
LEMMA SettlingLow ==
  ASSUME NEW r, r = Root', NEW m, m = Len(calls'), ~ (m > r + 1), ~ (m > r + 2), NEW g, g = Goal',
         calls'[r].todo # AllModes => (flags'["width"] <=> "width" \in g),
         calls'[r].todo \in {<<"open">>, <<>>} => (flags'["punct"] <=> "punct" \in g),
         calls'[r].todo = <<>> => (flags'["open"] <=> "open" \in g),
         \A b \in {"width", "open"} : b \in conv' <=> b \in g,
         \/ "punct" \in conv' <=> "punct" \in g
         \/ /\ ~refuses'
            /\ \/ calls'[r].todo = <<"punct", "open">> /\ ("punct" \in conv' <=> flags'["punct"])
               \/ m = r + 1 /\ calls'[r + 1].of = "punct" /\ calls'[r + 1].todo # <<>>,
         r = 2 => (flags'[calls'[1].of] <=> calls'[1].of \in g)
  PROVE  Settling'
BY DEF Settling

\* Higher.
LEMMA SettlingHigh ==
  ASSUME NEW r, r = Root', NEW m, m = Len(calls'), NEW g, g = Goal',
         calls'[r].todo # AllModes => (flags'["width"] <=> "width" \in g),
         calls'[r].todo \in {<<"open">>, <<>>} => (flags'["punct"] <=> "punct" \in g),
         calls'[r].todo = <<>> => (flags'["open"] <=> "open" \in g),
         \A b \in {"width", "open"} : b \in conv' <=> b \in g,
         \/ "punct" \in conv' <=> "punct" \in g
         \/ /\ ~refuses'
            /\ calls'[r].todo = <<"punct", "open">> /\ ("punct" \in conv' <=> flags'["punct"]),
         calls'[r + 2].read = conv',
         \A b \in {"width", "punct"} : flags'[b] <=> b \in conv',
         m > r + 2 => (flags'["open"] <=> "open" \in g),
         r = 2 => (flags'[calls'[1].of] <=> calls'[1].of \in g)
  PROVE  Settling'
BY DEF Settling

\* How high a stack is that has come so far.
LEMMA Heights ==
  ASSUME NEW r \in 1..2, NEW m \in Nat
  PROVE  /\ m = r \/ m = r + 1 => ~ (m > r + 1) /\ ~ (m > r + 2) /\ m >= r
         /\ m = r + 2 \/ m = r + 3 => m >= r /\ m > r /\ m > r + 1 /\ m # r + 1
         /\ m = r + 2 => ~ (m > r + 2)
         /\ m = r + 3 => m > r + 2
         /\ m = r => ~ (m > r) /\ m # r + 1
         /\ m = r + 1 => m > r
OBVIOUS

LEMMA StackedNext ==
  ASSUME NEW r, r = Root', NEW m, m = Len(calls'),
         m <= r + 3, m >= r => calls'[r].of = Conversion,
         m > r =>
           /\ calls'[r + 1].of \in Bits
           /\ calls'[r + 1].of = "width" => calls'[r].todo = <<"punct", "open">>
           /\ calls'[r + 1].of = "punct" => calls'[r].todo = <<"open">>
           /\ calls'[r + 1].of = "open"  => calls'[r].todo = <<>>,
         m > r + 1 => calls'[r + 1].of # "open" /\ calls'[r + 2].of = Conversion /\ ~refuses',
         m > r + 2 => calls'[r + 3].of = "open"
  PROVE  Stacked'
BY DEF Stacked

(* A mode's callback finds that the conversion mode follows, or may not    *)
(* write to it.                                                            *)
LEMMA ModeStays ==
  ASSUME StackInv, calls # <<>>, Top.of \in Bits, Top.todo # <<>>,
         calls' = Passed, UNCHANGED Rest, UNCHANGED wish,
         \/ flags[Top.of] <=> Top.of \in conv
         \/ refuses /\ \E i \in DOMAIN calls : calls[i].of = Conversion
  PROVE  StackInv'
<1> DEFINE n == Len(calls)
<1>1. /\ n \in Nat \ {0} /\ calls \in Seq(Frames) /\ Root \in 1..2
      /\ n <= Root + 3 /\ n # Root /\ n # Root + 2 /\ (n < Root => Root = 2 /\ n = 1)
  BY StackPlaces DEF Bits, Conversion
<1>2. /\ calls' \in Seq(Frames) /\ Len(calls') = n /\ calls' # <<>>
      /\ \A i \in 1..(n - 1) : calls'[i] = calls[i]
      /\ \A i \in 1..n : calls'[i].of = calls[i].of /\ calls'[i].read = calls[i].read
      /\ calls'[n].todo = <<>> /\ Root' = Root /\ (n >= Root => Goal' = Goal)
  <2>1. Top = calls[n] /\ n \in 1..Len(calls)
    BY <1>1 DEF Top
  <2>2. Top.of # Conversion
    BY DEF Bits, Conversion
  <2>3. Top.todo = <<Top.of>>
    BY <2>1, <2>2, TodoOf
  <2>4. Tail(Top.todo) = <<>>
    BY <2>3, TodosInOrder
  <2> QED BY <2>4, AfterPass
<1>3. FramesInOrder'
  BY SMTT(40), <1>1, <1>2 DEF StackInv, FramesInOrder, Top, Conversion, Bits
<1>4. Stacked'
  BY <1>1, <1>2 DEF StackInv, Stacked, Rest
<1>5. Settling'
  <2>1. CASE n < Root
    <3>1. ~ (Len(calls') >= Root')
      BY <1>1, <1>2, <2>1
    <3> QED BY <3>1 DEF Settling
  <2>2. CASE n = Root + 1
    <3>1. /\ Len(calls') = Root + 1 /\ calls'[Root] = calls[Root] /\ Goal' = Goal
          /\ calls'[Root + 1].of = calls[Root + 1].of /\ calls[Root + 1] = Top
          /\ calls'[1].of = calls[1].of /\ Len(calls) = Root + 1
      BY <1>1, <1>2, <2>2 DEF Top
    <3>2. \/ "punct" \in conv <=> "punct" \in Goal
          \/ calls[Root].todo = <<"punct", "open">> /\ ~refuses /\ ("punct" \in conv <=> flags["punct"])
      BY <1>1, <1>2, <3>1, SettledPunct, Settled, SettledAbove, TodosInOrder
    <3>3. Root = Root' /\ Len(calls) >= Root
      BY <1>1, <1>2, <3>1
    <3>4. ~ (Len(calls') > Root + 1) /\ ~ (Len(calls') > Root + 2)
      BY <1>1, <1>2, <2>2, Heights
    <3> QED BY <3>1, <3>2, <3>3, <3>4, Settled, SettlingLow DEF Rest
  <2>3. CASE n = Root + 3
    <3>1. /\ Len(calls') = Root + 3 /\ calls'[Root] = calls[Root] /\ Goal' = Goal
          /\ calls'[Root + 1] = calls[Root + 1] /\ calls'[Root + 2] = calls[Root + 2]
          /\ calls'[1].of = calls[1].of /\ Len(calls) = Root + 3
      BY <1>1, <1>2, <2>3
    <3>2. Len(calls) >= Root /\ Len(calls) # Root + 1 /\ Len(calls) > Root + 1 /\ Len(calls) > Root + 2
      BY <1>1, <2>3
    <3> QED BY <1>2, <3>1, <3>2, Settled, SettledPunct, SettledAbove, SettlingHigh DEF Rest
  <2> QED BY <1>1, <2>1, <2>2, <2>3
<1>6. WishInSight'
  BY <1>1, <1>2 DEF StackInv, WishInSight, Rest
<1>7. OthersAgree'
  BY <1>1, <1>2 DEF StackInv, OthersAgree, Rest, Top
<1> QED BY <1>3, <1>4, <1>5, <1>6, <1>7 DEF StackInv, Rest

LEMMA FollowingIs ==
  ASSUME flags \in Flags, NEW mode \in SUBSET Bits, NEW b \in Bits
  PROVE  /\ Following(mode, b) \in SUBSET Bits
         /\ b \in Following(mode, b) <=> flags[b]
         /\ \A c \in Bits \ {b} : c \in Following(mode, b) <=> c \in mode
BY DEF Following, Flags

\* What the callback of a mode wants the conversion mode to be.
Wanted == IF Top.of = "open" THEN Following(conv, "open")
                             ELSE Following(Following(conv, "width"), "punct")

LEMMA WantedIs ==
  ASSUME flags \in Flags, conv \in SUBSET Bits
  PROVE  /\ Wanted \in SUBSET Bits
         /\ Top.of = "open" => /\ "open" \in Wanted <=> flags["open"]
                               /\ \A b \in {"width", "punct"} : b \in Wanted <=> b \in conv
         /\ Top.of # "open" => /\ "open" \in Wanted <=> "open" \in conv
                               /\ \A b \in {"width", "punct"} : b \in Wanted <=> flags[b]
<1>1. Following(conv, "width") \in SUBSET Bits /\ {"open", "width", "punct"} = Bits
  BY FollowingIs DEF Bits
<1>2. CASE Top.of = "open"
  BY <1>1, <1>2, FollowingIs DEF Wanted
<1>3. CASE Top.of # "open"
  <2> DEFINE w == Following(conv, "width")
  <2>1. w \in SUBSET Bits /\ ("width" \in w <=> flags["width"]) /\ ("open" \in w <=> "open" \in conv)
    BY <1>1, FollowingIs
  <2> HIDE DEF w
  <2>2. /\ Following(w, "punct") \in SUBSET Bits /\ ("punct" \in Following(w, "punct") <=> flags["punct"])
        /\ ("width" \in Following(w, "punct") <=> "width" \in w)
        /\ ("open" \in Following(w, "punct") <=> "open" \in w)
    BY <1>1, <2>1, FollowingIs
  <2> QED BY <1>3, <2>1, <2>2 DEF Wanted, w
<1> QED BY <1>2, <1>3

\* A callback has called another.
LEMMA FramesNext ==
  ASSUME NEW n \in Nat \ {0}, n = Len(calls), calls' \in Seq(Frames), Len(calls') = n + 1,
         \A i \in 1..(n - 1) :
           /\ calls'[i] = calls[i]
           /\ calls[i].of = Conversion => calls[i].todo \in Todos
           /\ calls[i].of # Conversion => calls[i].todo = <<>>,
         calls'[n].of = Conversion => calls'[n].todo \in Todos,
         calls'[n].of # Conversion => calls'[n].todo = <<>>,
         calls'[n + 1].of = Conversion => calls'[n + 1].todo \in Todos,
         calls'[n + 1].of # Conversion => calls'[n + 1].todo \in {<<calls'[n + 1].of>>, <<>>}
  PROVE  FramesInOrder'
<1>1. DOMAIN calls' = 1..(n + 1)
  OBVIOUS
<1>2. ASSUME NEW i \in DOMAIN calls'
      PROVE  /\ calls'[i].of = Conversion => calls'[i].todo \in Todos
             /\ calls'[i].of # Conversion => calls'[i].todo \in {<<calls'[i].of>>, <<>>}
             /\ calls'[i].of # Conversion /\ i < Len(calls') => calls'[i].todo = <<>>
  <2>1. i \in 1..(n - 1) \/ i = n \/ i = n + 1
    BY <1>1
  <2>2. i = n + 1 => ~ (i < Len(calls'))
    OBVIOUS
  <2> QED BY <2>1, <2>2
<1> QED BY <1>2 DEF FramesInOrder

(* A mode's callback writes the conversion mode: it agrees with what it    *)
(* was told, and nothing that was settled is lost.                         *)
LEMMA ModeTells ==
  ASSUME StackInv, calls # <<>>, Top.of \in Bits, Top.todo # <<>>, Wanted # conv,
         ~ (refuses /\ \E i \in DOMAIN calls : calls[i].of = Conversion),
         calls' = Append(Passed, Frame(Conversion, Wanted)), conv' = Wanted,
         UNCHANGED <<flags, stage, agreed, refuses, wish>>
  PROVE  StackInv'
<1> DEFINE n == Len(calls)
<1>1. /\ n \in Nat \ {0} /\ calls \in Seq(Frames) /\ Root \in 1..2
      /\ n <= Root + 3 /\ n # Root /\ n # Root + 2 /\ (n < Root => Root = 2 /\ n = 1)
      /\ stage # "down" /\ flags \in Flags /\ conv \in SUBSET Bits
  BY StackPlaces DEF Bits, Conversion, StackInv
<1>2. /\ Wanted \in SUBSET Bits
      /\ Top.of = "open" => /\ "open" \in Wanted <=> flags["open"]
                            /\ \A b \in {"width", "punct"} : b \in Wanted <=> b \in conv
      /\ Top.of # "open" => /\ "open" \in Wanted <=> "open" \in conv
                            /\ \A b \in {"width", "punct"} : b \in Wanted <=> flags[b]
  BY <1>1, WantedIs
<1>3. Top.of = "open" => ~ (flags["open"] <=> "open" \in conv)
  <2> SUFFICES ASSUME Top.of = "open", flags["open"] <=> "open" \in conv PROVE Wanted = conv
    OBVIOUS
  <2>1. \A b \in Bits : b \in Wanted <=> b \in conv
    BY <1>2 DEF Bits
  <2>2. Wanted \subseteq Bits /\ conv \subseteq Bits
    BY <1>1, <1>2
  <2> QED BY <2>1, <2>2
<1>4. PICK f \in Frames : /\ f = Frame(Conversion, Wanted) /\ f.of = Conversion
                          /\ f.read = Wanted /\ f.todo = AllModes
  BY <1>2, FrameOf
<1>5. Tail(Top.todo) = <<>>
  <2>1. Top = calls[n] /\ n \in 1..Len(calls) /\ Top.of # Conversion
    BY <1>1 DEF Top, Bits, Conversion
  <2>2. Top.todo = <<Top.of>>
    BY <2>1, TodoOf
  <2> QED BY <2>2, TodosInOrder
<1>6. /\ calls' \in Seq(Frames) /\ Len(calls') = n + 1 /\ calls' # <<>>
      /\ \A i \in 1..(n - 1) : calls'[i] = calls[i]
      /\ \A i \in 1..n : calls'[i].of = calls[i].of /\ calls'[i].read = calls[i].read
      /\ calls'[n].todo = <<>> /\ calls'[n + 1] = f
      /\ Root' = Root /\ (n >= Root => Goal' = Goal)
  BY <1>4, <1>5, AfterCall
<1>7. FramesInOrder'
  <2>1. f.todo \in Todos
    BY <1>4 DEF Todos
  <2>2. calls'[n].of # Conversion
    BY <1>1, <1>6 DEF Top, Conversion, Bits
  <2>3. \A i \in 1..(n - 1) :
           /\ calls'[i] = calls[i]
           /\ calls[i].of = Conversion => calls[i].todo \in Todos
           /\ calls[i].of # Conversion => calls[i].todo = <<>>
    BY <1>1, <1>6, TodoOf
  <2> QED BY <1>4, <2>1, <2>2, <2>3, <1>1, <1>6, FramesNext
<1>8. WishInSight'
  BY <1>1, <1>6 DEF StackInv, WishInSight
<1>9. OthersAgree'
  BY <1>1, <1>6 DEF StackInv, OthersAgree
<1>10. CASE n < Root
  <2>1. /\ Root = 2 /\ n = 1 /\ Len(calls') = 2 /\ calls'[2] = f /\ Goal' = Wanted
        /\ calls'[1].of = Top.of /\ ~ (2 > 2 + 1) /\ ~ (2 > 2 + 2) /\ ~ (2 > 2)
    BY <1>1, <1>4, <1>6, <1>10 DEF Goal, Top
  <2>2. flags[Top.of] <=> Top.of \in Wanted
    BY <1>2 DEF Bits
  <2>3. Settling'
    BY <1>4, <1>6, <2>1, <2>2, TodosInOrder, SettlingLow
  <2>4. Stacked'
    BY <1>4, <1>6, <2>1 DEF Stacked
  <2> QED BY <1>2, <1>7, <1>8, <1>9, <2>3, <2>4 DEF StackInv
<1>11. CASE n = Root + 1
  <2>1. /\ Len(calls) = Root + 1 /\ Len(calls) > Root /\ Len(calls) >= Root /\ calls[Root + 1] = Top
        /\ calls'[Root] = calls[Root] /\ Goal' = Goal /\ Len(calls') = Root + 2
        /\ calls'[Root + 1].of = Top.of /\ calls'[Root + 2] = f /\ calls'[1].of = calls[1].of
    BY <1>1, <1>6, <1>11 DEF Top
  <2>2. Top.of # "open"
    BY <1>3, <2>1, SettledAbove, Settled
  <2>3. ~ refuses
    <3>1. Root \in DOMAIN calls
      BY <1>1, <1>11
    <3> QED BY <2>1, <3>1, Settled
  <2>4. /\ Top.of = "width" => calls[Root].todo = <<"punct", "open">>
        /\ Top.of = "punct" => calls[Root].todo = <<"open">>
        /\ Top.of \in {"width", "punct"}
    BY <2>1, <2>2, SettledAbove DEF Bits
  <2>5. ~ (Root + 2 > Root + 2) /\ Root + 2 > Root + 1 /\ Root + 2 > Root /\ Root + 2 <= Root + 3
    BY <1>1
  <2>6. Settling'
    <3>1. "width" \in Wanted <=> "width" \in Goal
      BY <1>2, <2>1, <2>2, <2>4, Settled, TodosInOrder
    <3>2. "open" \in Wanted <=> "open" \in Goal
      BY <1>2, <2>1, <2>2, Settled
    <3>3. "punct" \in Wanted <=> flags["punct"]
      BY <1>2, <2>2
    <3>4. \/ "punct" \in Wanted <=> "punct" \in Goal
          \/ calls[Root].todo = <<"punct", "open">>
      BY <2>1, <2>4, <3>3, Settled
    <3>5. \A b \in {"width", "punct"} : flags[b] <=> b \in Wanted
      BY <1>2, <2>2
    <3>6. /\ calls[Root].todo # AllModes => (flags["width"] <=> "width" \in Goal)
          /\ calls[Root].todo \in {<<"open">>, <<>>} => (flags["punct"] <=> "punct" \in Goal)
          /\ calls[Root].todo = <<>> => (flags["open"] <=> "open" \in Goal)
          /\ Root = 2 => (flags[calls[1].of] <=> calls[1].of \in Goal)
      BY <2>1, Settled
    <3>7. calls'[Root + 2].read = Wanted /\ ~ (Len(calls') > Root + 2)
      BY <1>4, <2>1, <2>5
    <3>8. flags' = flags /\ conv' = Wanted /\ refuses' = refuses /\ Root' = Root
      BY <1>6
    <3>9. /\ calls'[Root].todo # AllModes => (flags'["width"] <=> "width" \in Goal)
          /\ calls'[Root].todo \in {<<"open">>, <<>>} => (flags'["punct"] <=> "punct" \in Goal)
          /\ calls'[Root].todo = <<>> => (flags'["open"] <=> "open" \in Goal)
          /\ \A b \in {"width", "open"} : b \in conv' <=> b \in Goal
      BY <2>1, <3>1, <3>2, <3>6, <3>8
    <3>10. \/ "punct" \in conv' <=> "punct" \in Goal
           \/ /\ ~refuses'
              /\ calls'[Root].todo = <<"punct", "open">> /\ ("punct" \in conv' <=> flags'["punct"])
      BY <2>1, <2>3, <3>3, <3>4, <3>8
    <3>11. /\ calls'[Root + 2].read = conv'
           /\ \A b \in {"width", "punct"} : flags'[b] <=> b \in conv'
           /\ Len(calls') > Root + 2 => (flags'["open"] <=> "open" \in Goal)
           /\ Root = 2 => (flags'[calls'[1].of] <=> calls'[1].of \in Goal)
      BY <2>1, <3>5, <3>6, <3>7, <3>8
    <3> HIDE DEF n
    <3> QED BY <2>1, <3>8, <3>9, <3>10, <3>11, SettlingHigh
  <2>7. Stacked'
    BY <1>4, <1>6, <2>1, <2>2, <2>3, <2>4, <2>5, Settled DEF Stacked
  <2> QED BY <1>2, <1>7, <1>8, <1>9, <2>6, <2>7 DEF StackInv
<1>12. CASE n = Root + 3
  <2>1. /\ Len(calls) >= Root /\ Len(calls) > Root + 2 /\ Top = calls[Root + 3]
    BY <1>1, <1>12 DEF Top
  <2> QED BY <1>3, <2>1, SettledAbove, Settled
<1> QED BY <1>1, <1>10, <1>11, <1>12

\* The next mode the conversion mode's callback looks at.
LEMMA NextMode ==
  ASSUME StackInv, calls # <<>>, Top.of = Conversion, Top.todo # <<>>
  PROVE  /\ Head(Top.todo) \in Bits /\ Tail(Top.todo) \in Todos /\ Tail(Top.todo) # AllModes
         /\ \/ Top.todo = AllModes /\ Head(Top.todo) = "width" /\ Tail(Top.todo) = <<"punct", "open">>
            \/ Top.todo = <<"punct", "open">> /\ Head(Top.todo) = "punct" /\ Tail(Top.todo) = <<"open">>
            \/ Top.todo = <<"open">> /\ Head(Top.todo) = "open" /\ Tail(Top.todo) = <<>>
<1>1. Top = calls[Len(calls)] /\ Len(calls) \in 1..Len(calls)
  <2>1. Len(calls) \in Nat \ {0}
    BY StackPlaces
  <2> QED BY <2>1 DEF Top
<1>2. Top.todo \in Todos
  BY <1>1, TodoOf
<1>3. "open" \in Bits
  BY DEF Bits
<1> QED BY <1>2, <1>3, TodosInOrder DEF Todos, Bits

\* Who a mode of the conversion mode's first callback is not told by: one
\* that agrees with it already.
LEMMA AgreesBelow ==
  ASSUME StackInv, calls # <<>>, Len(calls) = Root, NEW b \in Bits,
         NEW i \in DOMAIN calls, calls[i].of = b
  PROVE  Root = 2 /\ b = calls[1].of /\ (flags[b] <=> b \in Goal)
<1>1. /\ Len(calls) \in Nat \ {0} /\ calls \in Seq(Frames) /\ Root \in 1..2 /\ Len(calls) >= Root
      /\ calls[Root].of = Conversion /\ (Root = 2 => (flags[calls[1].of] <=> calls[1].of \in Goal))
  <2>1. Len(calls) \in Nat \ {0} /\ calls \in Seq(Frames) /\ Root \in 1..2
    BY StackPlaces
  <2>2. Len(calls) >= Root
    BY <2>1
  <2> QED BY <2>1, <2>2, Settled
<1>2. i \in 1..Len(calls) /\ i # Root
  BY <1>1 DEF Bits, Conversion
<1> DEFINE r == Root
<1>3. r \in 1..2 /\ i \in 1..r /\ i # r
  BY <1>1, <1>2
<1> HIDE DEF r
<1>4. r = 2 /\ i = 1
  BY <1>3
<1> QED BY <1>1, <1>4 DEF r

(* The conversion mode's callback finds a mode that agrees, or may not     *)
(* write to it.                                                            *)
LEMMA ConvPasses ==
  ASSUME StackInv, calls # <<>>, Top.of = Conversion, Top.todo # <<>>,
         LET b == Head(Top.todo)
         IN  (flags[b] <=> b \in Top.read) \/ (refuses /\ \E i \in DOMAIN calls : calls[i].of = b),
         calls' = Passed, UNCHANGED Rest, UNCHANGED wish
  PROVE  StackInv'
<1> DEFINE n == Len(calls)
<1> DEFINE b == Head(Top.todo)
<1>1. /\ n \in Nat \ {0} /\ calls \in Seq(Frames) /\ Root \in 1..2
      /\ n \in {Root, Root + 2}
  BY StackPlaces
<1>2. /\ b \in Bits /\ Tail(Top.todo) \in Todos /\ Tail(Top.todo) # AllModes
      /\ \/ Top.todo = AllModes /\ b = "width" /\ Tail(Top.todo) = <<"punct", "open">>
         \/ Top.todo = <<"punct", "open">> /\ b = "punct" /\ Tail(Top.todo) = <<"open">>
         \/ Top.todo = <<"open">> /\ b = "open" /\ Tail(Top.todo) = <<>>
  BY NextMode
<1> HIDE DEF b
<1>3. /\ calls' \in Seq(Frames) /\ Len(calls') = n /\ calls' # <<>>
      /\ \A i \in 1..(n - 1) : calls'[i] = calls[i]
      /\ \A i \in 1..n : calls'[i].of = calls[i].of /\ calls'[i].read = calls[i].read
      /\ calls'[n].todo = Tail(Top.todo)
      /\ Root' = Root /\ Goal' = Goal
  <2>1. n >= Root
    BY <1>1
  <2> QED BY <2>1, AfterPass
<1>4. FramesInOrder'
  <2>1. \A i \in 1..(n - 1) :
           /\ calls'[i] = calls[i]
           /\ calls[i].of = Conversion => calls[i].todo \in Todos
           /\ calls[i].of # Conversion => calls[i].todo = <<>>
    BY <1>1, <1>3, TodoOf
  <2>2. calls'[n].of = Conversion /\ calls'[n].todo \in Todos
    BY <1>1, <1>2, <1>3 DEF Top
  <2> QED BY <1>1, <1>3, <2>1, <2>2 DEF FramesInOrder
<1>5. WishInSight'
  BY <1>1, <1>3 DEF StackInv, WishInSight, Rest
<1>6. OthersAgree'
  <2>1. calls'[1].of = calls[1].of
    BY <1>1, <1>3
  <2>2. Len(calls') = 1 => calls'[1].of = Conversion
    BY <1>1, <1>3, <2>1 DEF Top
  <2> QED BY <1>3, <2>2 DEF StackInv, OthersAgree, Rest
<1>7. flags' = flags /\ conv' = conv /\ refuses' = refuses /\ calls'[1].of = calls[1].of
  BY <1>1, <1>3 DEF Rest
<1>8. CASE n = Root
  <2>1. /\ Len(calls) = Root /\ Len(calls) >= Root /\ Len(calls') = Root /\ Top = calls[Root]
        /\ calls'[Root].of = Conversion /\ calls'[Root].todo = Tail(Top.todo) /\ Top.read = Goal
        /\ ~ (Len(calls') > Root + 1) /\ ~ (Len(calls') > Root + 2) /\ ~ (Len(calls') > Root)
        /\ Len(calls') <= Root + 3
    BY <1>1, <1>3, <1>8 DEF Top, Goal
  <2>2. flags[b] <=> b \in Goal
    BY <1>2, <2>1, AgreesBelow DEF b
  <2>3. Stacked'
    BY <1>3, <2>1, StackedNext
  <2>4. /\ calls'[Root].todo # AllModes => (flags'["width"] <=> "width" \in Goal)
        /\ calls'[Root].todo \in {<<"open">>, <<>>} => (flags'["punct"] <=> "punct" \in Goal)
        /\ calls'[Root].todo = <<>> => (flags'["open"] <=> "open" \in Goal)
        /\ \A c \in {"width", "open"} : c \in conv' <=> c \in Goal
        /\ Root = 2 => (flags'[calls'[1].of] <=> calls'[1].of \in Goal)
    BY <1>2, <1>7, <2>1, <2>2, Settled, TodosInOrder
  <2>5. "punct" \in conv' <=> "punct" \in Goal
    <3>1. Len(calls) # Root + 1
      BY <1>1, <2>1
    <3>2. \/ "punct" \in conv <=> "punct" \in Goal
          \/ Top.todo = <<"punct", "open">> /\ ("punct" \in conv <=> flags["punct"])
      BY <2>1, <3>1, SettledPunct
    <3>3. Top.todo = <<"punct", "open">> => b = "punct"
      BY <1>2, TodosInOrder
    <3> QED BY <1>7, <2>2, <3>2, <3>3
  <2>6. Settling'
    <3>1. /\ ~ (Len(calls') > Root + 1) /\ ~ (Len(calls') > Root + 2)
          /\ Root' = Root /\ Goal' = Goal
      BY <1>3, <2>1
    <3> HIDE DEF n
    <3> QED BY <3>1, <2>4, <2>5, SettlingLow
  <2> QED BY <1>4, <1>5, <1>6, <2>3, <2>6 DEF StackInv, Rest
<1>9. CASE n = Root + 2
  <2>1. /\ Len(calls') = Root + 2 /\ calls'[Root] = calls[Root]
        /\ calls'[Root + 1] = calls[Root + 1] /\ Len(calls) = Root + 2
        /\ calls'[Root + 2].of = calls[Root + 2].of /\ calls'[Root + 2].read = calls[Root + 2].read
    BY <1>1, <1>3, <1>9
  <2>2. Len(calls) >= Root /\ Len(calls) # Root + 1 /\ Len(calls) > Root + 1 /\ Len(calls) > Root
        /\ ~ (Len(calls') > Root + 2) /\ Len(calls') <= Root + 3
    BY <1>1, <2>1
  <2>3. Stacked'
    BY <1>3, <1>7, <2>1, <2>2, Settled, SettledAbove, StackedNext
  <2>4. Settling'
    <3> HIDE DEF n
    <3> QED BY <1>3, <1>7, <2>1, <2>2, Settled, SettledPunct, SettledAbove, SettlingHigh
  <2> QED BY <1>4, <1>5, <1>6, <2>3, <2>4 DEF StackInv, Rest
<1> QED BY <1>1, <1>8, <1>9

(* The conversion mode's callback writes a mode. *)
LEMMA ConvSetsMode ==
  ASSUME StackInv, calls # <<>>, Top.of = Conversion, NEW b \in Bits, NEW t, t \in Todos, t # AllModes,
         \/ Top.todo = AllModes /\ b = "width" /\ t = <<"punct", "open">>
         \/ Top.todo = <<"punct", "open">> /\ b = "punct" /\ t = <<"open">>
         \/ Top.todo = <<"open">> /\ b = "open" /\ t = <<>>,
         ~ (flags[b] <=> b \in Top.read), NEW f \in Frames, f.of = b, f.todo = <<b>>,
         calls' \in Seq(Frames), Len(calls') = Len(calls) + 1, calls' # <<>>,
         \A i \in 1..(Len(calls) - 1) : calls'[i] = calls[i],
         \A i \in 1..Len(calls) : calls'[i].of = calls[i].of /\ calls'[i].read = calls[i].read,
         calls'[Len(calls)].todo = t, calls'[Len(calls) + 1] = f, Root' = Root, Goal' = Goal,
         flags' \in Flags, flags'[b] <=> b \in Top.read, \A c \in Bits \ {b} : flags'[c] = flags[c],
         conv' = conv, stage' = stage, agreed' = agreed, refuses' = refuses, wish' = wish
  PROVE  StackInv'
<1> DEFINE n == Len(calls)
<1>1. /\ n \in Nat \ {0} /\ calls \in Seq(Frames) /\ Root \in 1..2
      /\ n \in {Root, Root + 2} /\ stage # "down"
      /\ flags \in Flags /\ conv \in SUBSET Bits
  BY StackPlaces DEF StackInv
<1>2. /\ b # Conversion /\ <<b>> # <<>>
  BY TodosInOrder DEF Bits, Conversion
<1>3. n \in 1..n /\ (n > 1 => 1 \in 1..(n - 1))
  BY <1>1
<1>4. calls'[1].of = calls[1].of
  BY <1>1
<1>5. FramesInOrder'
  <2>1. calls'[n].of = Conversion
    BY <1>1 DEF Top
  <2>2. \A i \in 1..(n - 1) :
           /\ calls'[i] = calls[i]
           /\ calls[i].of = Conversion => calls[i].todo \in Todos
           /\ calls[i].of # Conversion => calls[i].todo = <<>>
    BY <1>1, TodoOf
  <2>3. \A i \in 1..(n + 1) :
           /\ calls'[i].of = Conversion => calls'[i].todo \in Todos
           /\ calls'[i].of # Conversion => calls'[i].todo \in {<<calls'[i].of>>, <<>>}
           /\ calls'[i].of # Conversion /\ i < n + 1 => calls'[i].todo = <<>>
    <3> SUFFICES ASSUME NEW i \in 1..(n + 1)
                 PROVE  /\ calls'[i].of = Conversion => calls'[i].todo \in Todos
                        /\ calls'[i].of # Conversion => calls'[i].todo \in {<<calls'[i].of>>, <<>>}
                        /\ calls'[i].of # Conversion /\ i < n + 1 => calls'[i].todo = <<>>
      OBVIOUS
    <3>1. i \in 1..(n - 1) \/ i = n \/ (i = n + 1 /\ ~ (i < n + 1))
      BY <1>1
    <3>2. calls'[n + 1].of = b /\ calls'[n + 1].todo = <<b>> /\ calls'[n].todo \in Todos
      OBVIOUS
    <3> QED BY ZenonT(40), <1>2, <2>1, <2>2, <3>1, <3>2
  <2>4. DOMAIN calls' = 1..(n + 1)
    BY <1>1
  <2> HIDE DEF n
  <2> QED BY <2>3, <2>4 DEF FramesInOrder, n
<1>6. OthersAgree'
  <2>1. Len(calls') # 1
    BY <1>1
  <2> QED BY <1>1, <2>1 DEF OthersAgree
\* The mode that was asked for is not written to.
<1>8. (Root = 2 => flags'[calls[1].of] = flags[calls[1].of]) => WishInSight'
  BY <1>1, <1>4 DEF StackInv, WishInSight
<1>9. Root = 2 => calls[1].of \in Bits
  BY StackPlaces
<1>10. CASE n = Root
  <2>1. /\ Len(calls) = Root /\ Len(calls) >= Root /\ Len(calls') = Root + 1 /\ Top = calls[Root]
        /\ calls'[Root].of = Conversion /\ calls'[Root].todo = t /\ Top.read = Goal
        /\ calls'[Root + 1] = f
        /\ ~ (Len(calls') > Root + 1) /\ ~ (Len(calls') > Root + 2)
        /\ Len(calls') <= Root + 3
    BY <1>1, <1>4, <1>10 DEF Top, Goal
  <2>2. Root = 2 => calls[1].of # b
    BY <1>1, <1>2, <1>10, <2>1, Settled
  <2>3. Root = 2 => flags'[calls[1].of] = flags[calls[1].of]
    BY <1>9, <2>2
  <2>4. flags'[b] <=> b \in Goal
    BY <2>1
  <2>5. Stacked'
    <3>1. /\ b = "width" => t = <<"punct", "open">>
          /\ b = "punct" => t = <<"open">>
          /\ b = "open" => t = <<>>
      BY <1>2
    <3> HIDE DEF n
    <3> QED BY <1>2, <1>3, <1>4, <2>1, <3>1, StackedNext
  <2>6. /\ calls'[Root].todo # AllModes => (flags'["width"] <=> "width" \in Goal)
        /\ calls'[Root].todo \in {<<"open">>, <<>>} => (flags'["punct"] <=> "punct" \in Goal)
        /\ calls'[Root].todo = <<>> => (flags'["open"] <=> "open" \in Goal)
    <3>1. /\ calls[Root].todo # AllModes => (flags["width"] <=> "width" \in Goal)
          /\ calls[Root].todo \in {<<"open">>, <<>>} => (flags["punct"] <=> "punct" \in Goal)
      BY <2>1, Settled
    <3>2. \A c \in {"width", "punct", "open"} : c # b => flags'[c] = flags[c]
      BY DEF Bits
    <3> QED BY SMTT(40), <1>2, <2>1, <2>4, <3>1, <3>2, TodosInOrder
  <2>7. /\ \A c \in {"width", "open"} : c \in conv' <=> c \in Goal
        /\ Root = 2 => (flags'[calls'[1].of] <=> calls'[1].of \in Goal)
    BY <2>1, <2>3, Settled
  <2>8. \/ "punct" \in conv' <=> "punct" \in Goal
        \/ /\ ~refuses'
           /\ Len(calls') = Root + 1 /\ calls'[Root + 1].of = "punct" /\ calls'[Root + 1].todo # <<>>
    <3>1. Len(calls) # Root + 1
      BY <1>1, <2>1
    <3>2. \/ "punct" \in conv <=> "punct" \in Goal
          \/ Top.todo = <<"punct", "open">> /\ ~refuses
      BY <2>1, <3>1, SettledPunct
    <3>3. Top.todo = <<"punct", "open">> => b = "punct"
      BY <1>2, TodosInOrder
    <3>4. <<b>> # <<>>
      BY <1>2, TodosInOrder
    <3> QED BY <1>3, <2>1, <3>2, <3>3, <3>4
  <2>9. Settling'
    <3> HIDE DEF n
    <3> QED BY <1>4, <2>1, <2>6, <2>7, <2>8, SettlingLow
  <2> QED BY <1>5, <1>6, <1>8, <2>3, <2>5, <2>9 DEF StackInv
<1>11. CASE n = Root + 2
  <2>1. /\ Len(calls') = Root + 3 /\ calls'[Root] = calls[Root]
        /\ calls'[Root + 1] = calls[Root + 1] /\ Len(calls) = Root + 2 /\ Top = calls[Root + 2]
        /\ calls'[Root + 2].of = calls[Root + 2].of /\ calls'[Root + 2].read = calls[Root + 2].read
        /\ calls'[Root + 3] = f
    BY <1>1, <1>4, <1>11 DEF Top
  <2>2. Len(calls) >= Root /\ Len(calls) # Root + 1 /\ Len(calls) > Root + 1 /\ Len(calls) > Root
        /\ Len(calls') <= Root + 3
    BY <1>1, <2>1
  <2>3. /\ Top.read = conv /\ \A c \in {"width", "punct"} : flags[c] <=> c \in conv
    BY <2>1, <2>2, SettledAbove
  <2>4. b = "open" /\ \A c \in {"width", "punct"} : flags'[c] = flags[c]
    BY <1>2, <2>3 DEF Bits
  <2>5. "open" \in conv <=> "open" \in Goal
    BY <2>2, Settled
  <2>6. flags'["open"] <=> "open" \in Goal
    BY <2>3, <2>4, <2>5
  <2>7. Root = 2 => flags'[calls[1].of] = flags[calls[1].of]
    <3>1. Root = 2 => (flags[calls[1].of] <=> calls[1].of \in Goal)
      BY <2>2, Settled
    <3>2. Root = 2 => calls[1].of # "open"
      BY <2>3, <2>4, <2>5, <3>1
    <3> QED BY <1>9, <2>4, <3>2
  <2>8. Stacked'
    <3> HIDE DEF n
    <3> QED BY <1>3, <1>4, <2>1, <2>2, <2>4, Settled, SettledAbove, StackedNext
  <2>9. /\ calls[Root].todo # AllModes => (flags'["width"] <=> "width" \in Goal)
        /\ calls[Root].todo \in {<<"open">>, <<>>} => (flags'["punct"] <=> "punct" \in Goal)
        /\ Root = 2 => (flags'[calls[1].of] <=> calls[1].of \in Goal)
        /\ \A c \in {"width", "punct"} : flags'[c] <=> c \in conv
    BY <2>2, <2>3, <2>4, <2>7, Settled
  <2>10. \/ "punct" \in conv <=> "punct" \in Goal
         \/ /\ ~refuses
            /\ calls[Root].todo = <<"punct", "open">> /\ ("punct" \in conv <=> flags'["punct"])
    BY <2>2, <2>4, SettledPunct
  <2>11. \A c \in {"width", "open"} : c \in conv <=> c \in Goal
    BY <2>2, Settled
  <2>12. Settling'
    <3> HIDE DEF n
    <3> QED BY <1>4, <2>1, <2>3, <2>6, <2>9, <2>10, <2>11, SettlingHigh
  <2> QED BY <1>5, <1>6, <1>8, <2>7, <2>8, <2>12 DEF StackInv
<1> QED BY <1>1, <1>10, <1>11

LEMMA ConvSets ==
  ASSUME StackInv, calls # <<>>, Top.of = Conversion, Top.todo # <<>>, NEW b, b = Head(Top.todo),
         ~ (flags[b] <=> b \in Top.read),
         flags' = [flags EXCEPT ![b] = b \in Top.read], calls' = Append(Passed, Frame(b, conv)),
         UNCHANGED <<conv, stage, agreed, refuses, wish>>
  PROVE  StackInv'
<1>1. /\ b \in Bits /\ Tail(Top.todo) \in Todos /\ Tail(Top.todo) # AllModes
      /\ \/ Top.todo = AllModes /\ b = "width" /\ Tail(Top.todo) = <<"punct", "open">>
         \/ Top.todo = <<"punct", "open">> /\ b = "punct" /\ Tail(Top.todo) = <<"open">>
         \/ Top.todo = <<"open">> /\ b = "open" /\ Tail(Top.todo) = <<>>
  BY NextMode
<1>2. PICK f \in Frames : f = Frame(b, conv) /\ f.of = b /\ f.todo = <<b>>
  <2>1. b \in Bits /\ b # Conversion /\ conv \in SUBSET Bits
    BY <1>1 DEF Bits, Conversion, StackInv
  <2>2. Frame(b, conv) \in Frames /\ Frame(b, conv).of = b /\ Frame(b, conv).todo = <<b>>
    BY ZenonT(40), <2>1, FrameOf
  <2> QED BY <2>2
<1>3. Len(calls) >= Root
  BY StackPlaces
<1>4. /\ calls' \in Seq(Frames) /\ Len(calls') = Len(calls) + 1 /\ calls' # <<>>
      /\ \A i \in 1..(Len(calls) - 1) : calls'[i] = calls[i]
      /\ \A i \in 1..Len(calls) : calls'[i].of = calls[i].of /\ calls'[i].read = calls[i].read
      /\ calls'[Len(calls)].todo = Tail(Top.todo) /\ calls'[Len(calls) + 1] = f
      /\ Root' = Root /\ Goal' = Goal
  BY <1>2, <1>3, AfterCall
<1>5. flags' \in Flags /\ (flags'[b] <=> b \in Top.read) /\ \A c \in Bits \ {b} : flags'[c] = flags[c]
  <2> DEFINE x == b \in Top.read
  <2>1. x \in BOOLEAN /\ flags \in [Bits -> BOOLEAN] /\ flags' = [flags EXCEPT ![b] = x]
    BY DEF StackInv, Flags
  <2> HIDE DEF x
  <2>2. flags' \in [Bits -> BOOLEAN] /\ flags'[b] = x /\ \A c \in Bits \ {b} : flags'[c] = flags[c]
    BY <1>1, <2>1
  <2> QED BY <2>2 DEF Flags, x
<1> DEFINE t == Tail(Top.todo)
<1>6. /\ t \in Todos /\ t # AllModes /\ calls'[Len(calls)].todo = t
      /\ \/ Top.todo = AllModes /\ b = "width" /\ t = <<"punct", "open">>
         \/ Top.todo = <<"punct", "open">> /\ b = "punct" /\ t = <<"open">>
         \/ Top.todo = <<"open">> /\ b = "open" /\ t = <<>>
  BY <1>1, <1>4
<1>7. UNCHANGED conv /\ UNCHANGED stage /\ UNCHANGED agreed /\ UNCHANGED refuses /\ UNCHANGED wish
  OBVIOUS
<1>8. b \in Bits
  BY <1>1
<1> HIDE DEF t
<1> QED BY ZenonT(40), <1>2, <1>4, <1>5, <1>6, <1>7, <1>8, ConvSetsMode

LEMMA WriteKeeps ==
  ASSUME StackInv, calls # <<>>, Top.of \in Bits, Top.todo # <<>>, Write(Wanted),
         UNCHANGED <<wish, stage, agreed, refuses>>
  PROVE  StackInv'
<1>1. stage # "down"
  BY StackPlaces
<1>2. CASE Wanted = conv
  <2>1. flags \in Flags /\ conv \in SUBSET Bits
    BY DEF StackInv
  <2>2. flags[Top.of] <=> Top.of \in conv
    BY <1>2, <2>1, WantedIs DEF Bits
  <2>3. calls' = Passed /\ UNCHANGED Rest /\ UNCHANGED wish
    BY <1>2 DEF Write, Rest
  <2> QED BY <2>2, <2>3, ModeStays
<1>3. CASE Wanted # conv /\ Refused(Conversion)
  <2>1. calls' = Passed /\ UNCHANGED Rest /\ UNCHANGED wish
    BY <1>3 DEF Write, SetConversion, Rest
  <2> QED BY <1>3, <2>1, ModeStays DEF Refused
<1>4. CASE Wanted # conv /\ ~ Refused(Conversion)
  <2>1. calls' = Append(Passed, Frame(Conversion, Wanted)) /\ conv' = Wanted /\ UNCHANGED flags
    BY <1>1, <1>4 DEF Write, SetConversion, Call
  <2>2. UNCHANGED <<flags, stage, agreed, refuses, wish>>
    BY <2>1
  <2> QED BY <1>4, <2>1, <2>2, ModeTells DEF Refused
<1> QED BY <1>2, <1>3, <1>4

(* Whatever callback runs, and whoever it calls. *)
LEMMA CallbackKeeps ==
  ASSUME StackInv, CompartmentCallback, UNCHANGED refuses
  PROVE  StackInv'
<1>1. calls # <<>>
  BY DEF CompartmentCallback
<1>2. CASE Return
  BY <1>1, <1>2, ReturnKeeps
<1>3. CASE PrivateCompartmentsUpdated /\ UNCHANGED <<wish, stage, closing, agreed>>
  <2>1. Top.of \in Bits /\ Top.todo # <<>> /\ Write(Wanted)
    BY <1>3 DEF PrivateCompartmentsUpdated, Wanted, Bits
  <2> QED BY <1>1, <1>3, <2>1, WriteKeeps
<1>4. CASE KeyboardOpenCompartmentUpdated /\ UNCHANGED <<wish, stage, closing, agreed>>
  <2>1. Top.of \in Bits /\ Top.todo # <<>> /\ Write(Wanted)
    BY <1>4 DEF KeyboardOpenCompartmentUpdated, Wanted, Bits
  <2> QED BY <1>1, <1>4, <2>1, WriteKeeps
<1>5. CASE ConversionModeCompartmentUpdated /\ UNCHANGED <<wish, stage, closing, agreed>>
  <2> DEFINE b == Head(Top.todo)
  <2>1. /\ Top.of = Conversion /\ Top.todo # <<>> /\ b \in Bits /\ stage # "down"
        /\ flags \in Flags
    BY <1>1, <1>5, NextMode, StackPlaces DEF ConversionModeCompartmentUpdated, StackInv
  <2>2. (flags[b] # (b \in Top.read)) <=> ~ (flags[b] <=> b \in Top.read)
    BY <2>1 DEF Flags
  <2> HIDE DEF b
  <2>3. CASE flags[b] <=> b \in Top.read
    <3>1. calls' = Passed /\ UNCHANGED Rest /\ UNCHANGED wish
      BY <1>5, <2>2, <2>3 DEF ConversionModeCompartmentUpdated, b, Rest
    <3> QED BY <1>1, <2>1, <2>3, <3>1, ConvPasses DEF b
  <2>4. CASE ~ (flags[b] <=> b \in Top.read) /\ Refused(b)
    <3>1. calls' = Passed /\ UNCHANGED Rest /\ UNCHANGED wish
      BY <1>5, <2>2, <2>4 DEF ConversionModeCompartmentUpdated, SetFlag, b, Rest
    <3> QED BY <1>1, <2>1, <2>4, <3>1, ConvPasses DEF b, Refused
  <2>5. CASE ~ (flags[b] <=> b \in Top.read) /\ ~ Refused(b)
    <3>1. /\ flags' = [flags EXCEPT ![b] = b \in Top.read] /\ calls' = Append(Passed, Frame(b, conv))
          /\ UNCHANGED <<conv, stage, agreed, refuses, wish>>
      BY <1>5, <2>1, <2>2, <2>5 DEF ConversionModeCompartmentUpdated, SetFlag, Call, b
    <3>2. b = Head(Top.todo)
      BY DEF b
    <3> QED BY <1>1, <2>1, <2>5, <3>1, <3>2, ConvSets
  <2> QED BY <2>3, <2>4, <2>5
<1> QED BY <1>2, <1>3, <1>4, <1>5 DEF CompartmentCallback

-----------------------------------------------------------------------------
(* From outside. *)

LEMMA OneCall ==
  ASSUME NEW f \in Frames, calls' = <<f>>
  PROVE  /\ calls' \in Seq(Frames) /\ Len(calls') = 1 /\ calls' # <<>> /\ calls'[1] = f
         /\ DOMAIN calls' = {1}
OBVIOUS

LEMMA NothingCalled ==
  ASSUME flags' \in Flags, conv' \in SUBSET Bits, agreed' \in SUBSET Bits,
         stage' \in {"down", "up", "closing"}, calls' = <<>>, wish' = NoWish,
         stage' = "up" => \A b \in agreed' : flags'[b] <=> b \in conv'
  PROVE  StackInv'
<1>1. calls' \in Seq(Frames) /\ DOMAIN calls' = {} /\ Len(calls') # 1
  OBVIOUS
<1> QED BY <1>1 DEF StackInv, FramesInOrder, Stacked, Settling, WishInSight, OthersAgree

LEMMA ModeCalled ==
  ASSUME flags' \in Flags, conv' \in SUBSET Bits, agreed' \in SUBSET Bits,
         stage' \in {"up", "closing"}, NEW b \in Bits, calls' = <<Frame(b, conv')>>,
         wish' = IF stage' = "up" THEN [of |-> b, is |-> flags'[b]] ELSE NoWish,
         stage' = "up" => \A c \in agreed' \ {b} : flags'[c] <=> c \in conv'
  PROVE  StackInv'
<1> DEFINE f == Frame(b, conv')
<1>1. f \in Frames /\ f.of = b /\ f.todo = <<b>> /\ <<b>> # <<>> /\ b # Conversion
  BY FrameOf, TodosInOrder DEF Bits, Conversion
<1>2. calls' = <<f>>
  OBVIOUS
<1> HIDE DEF f
<1>3. calls' \in Seq(Frames) /\ Len(calls') = 1 /\ calls' # <<>> /\ calls'[1] = f /\ DOMAIN calls' = {1}
  BY <1>1, <1>2, OneCall
<1>4. Root' = 2 /\ ~ (1 >= 2) /\ ~ (1 > 2) /\ ~ (1 > 2 + 1) /\ ~ (1 > 2 + 2) /\ 1 <= 2 + 3
  BY <1>1, <1>3 DEF Root
<1>5. FramesInOrder'
  BY <1>1, <1>3 DEF FramesInOrder
<1>6. Stacked' /\ Settling'
  BY <1>3, <1>4 DEF Stacked, Settling
<1>7. WishInSight'
  BY <1>1, <1>3, <1>4 DEF WishInSight
<1>8. OthersAgree'
  BY <1>1, <1>3 DEF OthersAgree
<1> QED BY <1>5, <1>6, <1>7, <1>8 DEF StackInv

LEMMA SetModeKeeps ==
  ASSUME StackInv, NEW b \in Bits, NEW value \in BOOLEAN, SetMode(b, value), UNCHANGED refuses
  PROVE  StackInv'
<1>1. /\ calls = <<>> /\ stage \in {"down", "up"} /\ flags \in Flags
      /\ conv \in SUBSET Bits /\ agreed \in SUBSET Bits /\ ~ Refused(b)
      /\ stage = "up" => \A c \in agreed : flags[c] <=> c \in conv
  <2>1. calls = <<>> => ~ Refused(b)
    BY DEF Refused
  <2> QED BY <2>1 DEF StackInv, OthersAgree, SetMode
<1>2. /\ flags' = [flags EXCEPT ![b] = value] /\ conv' = conv /\ stage' = stage
      /\ agreed' = agreed \union {b} /\ calls' = IF stage = "down" THEN calls ELSE Append(calls, Frame(b, conv))
      /\ wish' = IF stage = "up" THEN [of |-> b, is |-> value] ELSE NoWish
  BY <1>1 DEF SetMode, SetFlag, Asked, Call
<1>3. /\ flags' \in Flags /\ flags'[b] = value /\ \A c \in Bits \ {b} : flags'[c] = flags[c]
      /\ agreed' \in SUBSET Bits
  BY <1>1, <1>2 DEF Flags
<1>4. CASE stage = "down"
  BY <1>1, <1>2, <1>3, <1>4, NothingCalled
<1>5. CASE stage = "up"
  <2>1. calls' = <<Frame(b, conv')>>
    BY <1>1, <1>2, <1>5
  <2>2. \A c \in agreed' \ {b} : flags'[c] <=> c \in conv'
    BY <1>1, <1>2, <1>3, <1>5
  <2>3. wish' = [of |-> b, is |-> flags'[b]] /\ stage' = "up" /\ conv' \in SUBSET Bits
    BY <1>1, <1>2, <1>3, <1>5
  <2> QED BY <1>3, <2>1, <2>2, <2>3, ModeCalled
<1> QED BY <1>1, <1>4, <1>5

LEMMA SetConversionModeKeeps ==
  ASSUME StackInv, NEW mode \in SUBSET Bits, SetConversionMode(mode), UNCHANGED refuses
  PROVE  StackInv'
<1>1. /\ calls = <<>> /\ stage \in {"down", "up"} /\ flags \in Flags /\ ~ Refused(Conversion)
  <2>1. calls = <<>> => ~ Refused(Conversion)
    BY DEF Refused
  <2> QED BY <2>1 DEF StackInv, OthersAgree, SetConversionMode
<1>2. /\ flags' = flags /\ conv' = mode /\ stage' = stage
      /\ agreed' = Bits
      /\ calls' = IF stage = "down" THEN calls ELSE Append(calls, Frame(Conversion, mode))
      /\ wish' = IF stage = "up" THEN [of |-> Conversion, is |-> mode] ELSE NoWish
  BY <1>1 DEF SetConversionMode, SetConversion, Asked, Call
<1>3. CASE stage = "down"
  BY <1>1, <1>2, <1>3, NothingCalled
<1>4. CASE stage = "up"
  <2> DEFINE f == Frame(Conversion, mode)
  <2>1. f \in Frames /\ f.of = Conversion /\ f.read = mode /\ f.todo = AllModes /\ calls' = <<f>>
    <3>1. calls' = <<Frame(Conversion, mode)>>
      BY <1>1, <1>2, <1>4
    <3> QED BY <3>1, FrameOf
  <2> HIDE DEF f
  <2>2. calls' \in Seq(Frames) /\ Len(calls') = 1 /\ calls' # <<>> /\ calls'[1] = f /\ DOMAIN calls' = {1}
    BY <2>1, OneCall
  <2>3. /\ Root' = 1 /\ Goal' = mode /\ ~ (1 > 1 + 1) /\ ~ (1 > 1 + 2) /\ ~ (1 > 1)
        /\ 1 <= 1 + 3
    BY <2>1, <2>2 DEF Root, Goal
  <2>4. FramesInOrder'
    BY <2>1, <2>2 DEF FramesInOrder, Todos
  <2>5. Stacked'
    BY <2>1, <2>2, <2>3 DEF Stacked
  <2>6. Settling'
    <3>1. ~ (Len(calls') > 1 + 1) /\ ~ (Len(calls') > 1 + 2) /\ calls'[1].todo = AllModes
      BY <2>1, <2>2
    <3> QED BY <1>2, <2>3, <3>1, TodosInOrder, SettlingLow
  <2>7. WishInSight'
    BY <1>2, <1>4, <2>1, <2>2, <2>3 DEF WishInSight
  <2>8. OthersAgree'
    BY <1>2, <1>4, <2>1, <2>2 DEF OthersAgree
  <2> QED BY <1>1, <1>2, <1>4, <2>4, <2>5, <2>6, <2>7, <2>8 DEF StackInv
<1> QED BY <1>1, <1>3, <1>4

LEMMA StackUntouched ==
  ASSUME StackInv, UNCHANGED <<flags, conv, calls, stage, wish, agreed, refuses>>
  PROVE  StackInv'
BY SMTT(40) DEF StackInv, FramesInOrder, Stacked, Settling, WishInSight, OthersAgree, Root, Goal

LEMMA LifeKeeps ==
  ASSUME StackInv, closing \in Seq(Bits), UNCHANGED refuses,
         (\E added \in SUBSET Bits : Setup(added)) \/ BeginTeardown \/ CleanUp \/ EndTeardown
  PROVE  StackInv' /\ closing' \in Seq(Bits)
<1>1. /\ flags \in Flags /\ conv \in SUBSET Bits /\ agreed \in SUBSET Bits
      /\ stage = "down" => calls = <<>>
      /\ calls = <<>> \/ stage # "up" => wish = NoWish
  BY DEF StackInv, OthersAgree, WishInSight
<1>2. ASSUME NEW added \in SUBSET Bits, Setup(added)
      PROVE  StackInv' /\ closing' \in Seq(Bits)
  <2>1. InitializeSampleIMECompartment \in Flags
    BY DEF InitializeSampleIMECompartment, Flags
  <2> QED BY <1>1, <1>2, <2>1, NothingCalled DEF Setup
<1>3. CASE BeginTeardown
  <2>1. <<"open", "width", "punct">> \in Seq(Bits)
    BY DEF Bits
  <2> QED BY <1>1, <1>3, <2>1, NothingCalled DEF BeginTeardown
<1>4. CASE CleanUp
  <2> DEFINE b == Head(closing)
  <2> DEFINE cleared == b \in buttons.added /\ b # "open"
  <2>1. b \in Bits /\ closing' \in Seq(Bits)
    BY <1>4 DEF CleanUp
  <2>2. /\ calls = <<>> /\ stage = "closing" /\ conv' = conv /\ stage' = stage /\ agreed' = agreed
        /\ wish' = wish
    BY <1>4 DEF CleanUp
  <2>3. /\ flags' = IF cleared THEN [flags EXCEPT ![b] = FALSE] ELSE flags
        /\ calls' = calls \/ calls' = Append(calls, Frame(b, conv))
    BY <1>4, <2>2 DEF CleanUp, Call
  <2> HIDE DEF b, cleared
  <2>4. flags' \in Flags
    BY <1>1, <2>1, <2>3 DEF Flags
  <2>5. CASE calls' = calls
    BY <1>1, <2>1, <2>2, <2>4, <2>5, NothingCalled
  <2>6. CASE calls' = Append(calls, Frame(b, conv))
    <3>1. calls' = <<Frame(b, conv')>>
      BY <2>2, <2>6
    <3>2. stage' \in {"up", "closing"} /\ stage' # "up" /\ wish' = NoWish /\ conv' \in SUBSET Bits /\ agreed' \in SUBSET Bits
      BY <1>1, <2>2
    <3> QED BY <2>1, <2>4, <3>1, <3>2, ModeCalled
  <2> QED BY <2>3, <2>5, <2>6
<1>5. CASE EndTeardown
  <2>1. [flags EXCEPT !["width"] = FALSE] \in Flags
    BY <1>1 DEF Flags
  <2> QED BY <1>1, <1>5, <2>1, NothingCalled DEF EndTeardown
<1> QED BY <1>2, <1>3, <1>4, <1>5

-----------------------------------------------------------------------------
(* The icons.                                                              *)

LEMMA OnUpdateOf ==
  ASSUME NEW btns \in LangBarItemButtons, NEW changed \in SUBSET Bits
  PROVE  /\ OnUpdate(btns, changed) \in LangBarItemButtons
         /\ OnUpdate(btns, changed).added = btns.added /\ OnUpdate(btns, changed).sink = btns.sink
         /\ OnUpdate(btns, changed).asked = btns.asked \ (changed \cap btns.sink)
         /\ OnUpdate(btns, changed).icon = btns.icon /\ OnUpdate(btns, changed).disabled = btns.disabled
BY DEF OnUpdate, LangBarItemButtons

LEMMA SetFlagIcons ==
  ASSUME flags \in Flags, ModeRest, IconsFollow, NEW frames, NEW b \in Bits, NEW value \in BOOLEAN,
         SetFlag(frames, b, value)
  PROVE  buttons' \in LangBarItemButtons /\ IconsFollow'
<1>1. CASE Refused(b)
  BY <1>1 DEF SetFlag, ModeRest, IconsFollow, GetIcon
<1>2. CASE ~ Refused(b)
  <2>1. buttons' = OnUpdate(buttons, {b} \cap buttons.added) /\ flags' = [flags EXCEPT ![b] = value]
    BY <1>2 DEF SetFlag
  <2>2. /\ buttons' \in LangBarItemButtons /\ buttons'.added = buttons.added /\ buttons'.sink = buttons.sink
        /\ buttons'.asked = buttons.asked \ (({b} \cap buttons.added) \cap buttons.sink)
        /\ buttons'.icon = buttons.icon /\ buttons'.disabled = buttons.disabled
    BY <2>1, OnUpdateOf DEF ModeRest, LangBarItemButtons
  <2>3. buttons.sink \subseteq Bits /\ \A c \in Bits \ {b} : flags'[c] = flags[c]
    BY <2>1 DEF ModeRest, LangBarItemButtons, Flags
  <2> QED BY <2>2, <2>3 DEF IconsFollow, GetIcon
<1> QED BY <1>1, <1>2

LEMMA SetConversionIcons ==
  ASSUME ModeRest, IconsFollow, NEW frames, NEW mode, SetConversion(frames, mode)
  PROVE  buttons' \in LangBarItemButtons /\ IconsFollow'
BY DEF SetConversion, ModeRest, IconsFollow, GetIcon

(* Nothing that is written leaves an icon behind that says otherwise, in   *)
(* the middle of the callbacks too.                                        *)
LEMMA CallbackIcons ==
  ASSUME StackInv, ModeRest, IconsFollow, CompartmentCallback
  PROVE  buttons' \in LangBarItemButtons /\ IconsFollow'
<1>1. flags \in Flags /\ calls # <<>>
  BY DEF StackInv, CompartmentCallback
<1>2. CASE UNCHANGED <<flags, buttons>>
  BY <1>2 DEF ModeRest, IconsFollow, GetIcon
<1>3. \A mode : Write(mode) => UNCHANGED <<flags, buttons>>
  BY DEF Write, SetConversion
<1>4. CASE Return \/ PrivateCompartmentsUpdated \/ KeyboardOpenCompartmentUpdated
  BY <1>2, <1>3, <1>4 DEF Return, PrivateCompartmentsUpdated, KeyboardOpenCompartmentUpdated
<1>5. CASE ConversionModeCompartmentUpdated
  <2> DEFINE b == Head(Top.todo)
  <2> DEFINE value == b \in Top.read
  <2>1. b \in Bits /\ value \in BOOLEAN
    BY <1>1, <1>5, NextMode DEF ConversionModeCompartmentUpdated
  <2>2. SetFlag(Passed, b, value) \/ UNCHANGED <<flags, conv, buttons>>
    BY <1>5 DEF ConversionModeCompartmentUpdated
  <2> HIDE DEF b, value
  <2> QED BY <1>1, <1>2, <2>1, <2>2, SetFlagIcons
<1> QED BY <1>4, <1>5 DEF CompartmentCallback

LEMMA BarIcons ==
  ASSUME flags \in Flags, ModeRest, IconsFollow,
         \/ BarNext
         \/ \E added \in SUBSET Bits : Setup(added)
         \/ BeginTeardown \/ EndTeardown
  PROVE  buttons' \in LangBarItemButtons /\ IconsFollow'
<1>1. /\ buttons \in LangBarItemButtons /\ buttons.sink \subseteq buttons.added
      /\ \A c \in buttons.asked \cap buttons.sink : buttons.icon[c] <=> GetIcon(c)
  BY DEF ModeRest, IconsFollow
<1>2. ASSUME NEW b \in Bits, FetchIcon(b)
      PROVE  buttons' \in LangBarItemButtons /\ IconsFollow'
  <2> DEFINE i == [buttons.icon EXCEPT ![b] = GetIcon(b)]
  <2>1. buttons' = [buttons EXCEPT !.asked = buttons.asked \union {b}, !.icon = i] /\ flags' = flags
    BY <1>1, <1>2 DEF FetchIcon, LangBarItemButtons
  <2>2. i \in Flags /\ i[b] = GetIcon(b) /\ \A c \in Bits \ {b} : i[c] = buttons.icon[c]
    BY <1>1 DEF LangBarItemButtons, Flags, GetIcon
  <2> HIDE DEF i
  <2>3. /\ buttons' \in LangBarItemButtons /\ buttons'.added = buttons.added /\ buttons'.sink = buttons.sink
        /\ buttons'.asked = buttons.asked \union {b} /\ buttons'.icon = i /\ buttons'.disabled = buttons.disabled
    BY <1>1, <2>1, <2>2 DEF LangBarItemButtons
  <2>4. buttons.sink \subseteq Bits
    BY <1>1 DEF LangBarItemButtons
  <2> QED BY <1>1, <2>1, <2>2, <2>3, <2>4 DEF IconsFollow, GetIcon
<1>3. ASSUME NEW b \in Bits, AdviseSink(b)
      PROVE  buttons' \in LangBarItemButtons /\ IconsFollow'
  <2>1. buttons' = [buttons EXCEPT !.sink = buttons.sink \union {b}, !.asked = buttons.asked \ {b}]
        /\ flags' = flags /\ b \in buttons.added
    BY <1>1, <1>3 DEF AdviseSink, LangBarItemButtons
  <2>2. /\ buttons' \in LangBarItemButtons /\ buttons'.added = buttons.added /\ buttons'.sink = buttons.sink \union {b}
        /\ buttons'.asked = buttons.asked \ {b} /\ buttons'.icon = buttons.icon /\ buttons'.disabled = buttons.disabled
    BY <1>1, <2>1 DEF LangBarItemButtons
  <2> QED BY <1>1, <2>1, <2>2 DEF IconsFollow, GetIcon
<1>4. ASSUME NEW b \in Bits, UnadviseSink(b)
      PROVE  buttons' \in LangBarItemButtons /\ IconsFollow'
  <2>1. buttons' = [buttons EXCEPT !.sink = buttons.sink \ {b}, !.asked = buttons.asked \ {b}]
        /\ flags' = flags
    BY <1>1, <1>4 DEF UnadviseSink, LangBarItemButtons
  <2>2. /\ buttons' \in LangBarItemButtons /\ buttons'.added = buttons.added /\ buttons'.sink = buttons.sink \ {b}
        /\ buttons'.asked = buttons.asked \ {b} /\ buttons'.icon = buttons.icon /\ buttons'.disabled = buttons.disabled
    BY <1>1, <2>1 DEF LangBarItemButtons
  <2> QED BY <1>1, <2>1, <2>2 DEF IconsFollow, GetIcon
<1>5. ASSUME NEW hasContext \in BOOLEAN, UpdateLanguageBarOnSetFocus(hasContext)
      PROVE  buttons' \in LangBarItemButtons /\ IconsFollow'
  <2> DEFINE d == [buttons EXCEPT !.disabled = ~hasContext]
  <2>1. d \in LangBarItemButtons /\ d.added = buttons.added /\ d.sink = buttons.sink /\ d.asked = buttons.asked
    BY <1>1 DEF LangBarItemButtons
  <2>2. buttons' = (IF buttons.disabled = ~hasContext THEN buttons ELSE OnUpdate(d, Bits)) /\ flags' = flags
    BY <1>5 DEF UpdateLanguageBarOnSetFocus, SetStatus
  <2> HIDE DEF d
  <2>3. CASE buttons' = buttons
    BY <1>1, <2>2, <2>3 DEF IconsFollow, GetIcon
  <2>4. CASE buttons' = OnUpdate(d, Bits)
    <3>1. /\ buttons' \in LangBarItemButtons /\ buttons'.added = buttons.added /\ buttons'.sink = buttons.sink
          /\ buttons'.asked = buttons.asked \ (Bits \cap buttons.sink)
      BY <2>1, <2>4, OnUpdateOf
    <3>2. buttons.sink \subseteq Bits
      BY <1>1 DEF LangBarItemButtons
    <3> QED BY <1>1, <3>1, <3>2 DEF IconsFollow
  <2> QED BY <2>2, <2>3, <2>4
<1>6. NoButtons \in LangBarItemButtons /\ NoButtons.sink = {} /\ NoButtons.asked = {}
  BY DEF NoButtons, LangBarItemButtons, Flags
<1>7. ASSUME NEW added \in SUBSET Bits, Setup(added)
      PROVE  buttons' \in LangBarItemButtons /\ IconsFollow'
  <2>1. buttons' \in LangBarItemButtons /\ buttons'.sink = {}
    <3>1. buttons' = [NoButtons EXCEPT !.added = added]
      BY <1>7 DEF Setup, InitLanguageBar
    <3> QED BY <1>6, <3>1 DEF LangBarItemButtons
  <2> QED BY <2>1 DEF IconsFollow
<1>8. CASE BeginTeardown
  BY <1>1, <1>8 DEF BeginTeardown, IconsFollow, GetIcon
<1>9. CASE EndTeardown
  BY <1>6, <1>9 DEF EndTeardown, IconsFollow
<1> QED BY <1>2, <1>3, <1>4, <1>5, <1>7, <1>8, <1>9 DEF BarNext

LEMMA CleanUpIcons ==
  ASSUME flags \in Flags, ModeRest, IconsFollow, CleanUp
  PROVE  buttons' \in LangBarItemButtons /\ IconsFollow'
<1>1. /\ buttons \in LangBarItemButtons /\ buttons.sink \subseteq buttons.added
      /\ \A c \in buttons.asked \cap buttons.sink : buttons.icon[c] <=> GetIcon(c)
  BY DEF ModeRest, IconsFollow
<1> DEFINE b == Head(closing)
<1> DEFINE cleared == b \in buttons.added /\ b # "open"
<1>2. b \in Bits
  BY DEF CleanUp, ModeRest
<1>3. /\ flags' = IF cleared THEN [flags EXCEPT ![b] = FALSE] ELSE flags
      /\ buttons' = [buttons EXCEPT !.added = buttons.added \ {b}, !.sink = buttons.sink \ {b},
                                    !.asked = buttons.asked \ {b}]
  BY <1>1 DEF CleanUp, LangBarItemButtons
<1> HIDE DEF b, cleared
<1>4. /\ buttons' \in LangBarItemButtons /\ buttons'.added = buttons.added \ {b}
      /\ buttons'.sink = buttons.sink \ {b}
      /\ buttons'.asked = buttons.asked \ {b} /\ buttons'.icon = buttons.icon /\ buttons'.disabled = buttons.disabled
  BY <1>1, <1>3 DEF LangBarItemButtons
<1>5. buttons.sink \subseteq Bits /\ \A c \in Bits \ {b} : flags'[c] = flags[c]
  BY <1>1, <1>2, <1>3 DEF LangBarItemButtons, Flags
<1> QED BY <1>1, <1>4, <1>5 DEF IconsFollow, GetIcon

-----------------------------------------------------------------------------
(* The invariant holds, and what it says at the end.                       *)

LEMMA ModeInitHolds == ModeInit => ModeIInv
<1> SUFFICES ASSUME ModeInit PROVE ModeIInv
  OBVIOUS
<1>1. NoButtons \in LangBarItemButtons /\ NoButtons.sink = {} /\ NoButtons.asked = {}
  BY DEF NoButtons, LangBarItemButtons, Flags
<1>2. ModeRest /\ IconsFollow
  BY <1>1 DEF ModeInit, ModeRest, IconsFollow
<1>3. calls \in Seq(Frames) /\ DOMAIN calls = {} /\ Len(calls) # 1
  BY DEF ModeInit
<1>4. StackInv
  BY <1>3 DEF ModeInit, StackInv, FramesInOrder, Stacked, Settling, WishInSight, OthersAgree
<1> QED BY <1>2, <1>4 DEF ModeIInv

LEMMA ModeNextKeeps == ModeIInv /\ [ModeNext]_modeVars => ModeIInv'
<1> SUFFICES ASSUME ModeIInv, [ModeNext]_modeVars PROVE ModeIInv'
  OBVIOUS
<1>1. StackInv /\ ModeRest /\ IconsFollow /\ flags \in Flags /\ closing \in Seq(Bits) /\ refuses \in BOOLEAN
  BY DEF ModeIInv, StackInv, ModeRest
<1>2. ASSUME NEW b \in Bits, NEW value \in BOOLEAN, SetMode(b, value), UNCHANGED refuses
      PROVE  ModeIInv'
  <2>1. StackInv'
    BY <1>1, <1>2, SetModeKeeps
  <2>2. buttons' \in LangBarItemButtons /\ IconsFollow'
    BY <1>1, <1>2, SetFlagIcons DEF SetMode
  <2> QED BY <1>1, <1>2, <2>1, <2>2 DEF ModeIInv, ModeRest, SetMode
<1>3. CASE CompartmentCallback /\ UNCHANGED refuses
  <2>1. StackInv' /\ buttons' \in LangBarItemButtons /\ IconsFollow'
    BY <1>1, <1>3, CallbackKeeps, CallbackIcons
  <2>2. UNCHANGED closing
    BY <1>3 DEF CompartmentCallback, Return
  <2> QED BY <1>1, <1>3, <2>1, <2>2 DEF ModeIInv, ModeRest
<1>4. ASSUME NEW b \in Bits, OnPreservedKey(b) \/ OnClick(b), UNCHANGED refuses
      PROVE  ModeIInv'
  <2> DEFINE value == ~flags[b]
  <2>2. value \in BOOLEAN /\ SetMode(b, value)
    BY <1>4 DEF OnPreservedKey, OnClick
  <2> HIDE DEF value
  <2> QED BY <1>2, <1>4, <2>2
<1>5. ASSUME NEW mode \in SUBSET Bits, SetConversionMode(mode), UNCHANGED refuses
      PROVE  ModeIInv'
  <2>1. StackInv'
    BY <1>1, <1>5, SetConversionModeKeeps
  <2>2. buttons' \in LangBarItemButtons /\ IconsFollow'
    BY <1>1, <1>5, SetConversionIcons DEF SetConversionMode
  <2> QED BY <1>1, <1>5, <2>1, <2>2 DEF ModeIInv, ModeRest, SetConversionMode
<1>6. CASE BarNext /\ UNCHANGED refuses
  <2>1. UNCHANGED <<flags, conv, calls, stage, closing, wish, agreed, refuses>>
    BY <1>6 DEF BarNext, FetchIcon, AdviseSink, UnadviseSink, UpdateLanguageBarOnSetFocus
  <2>2. StackInv'
    BY <1>1, <2>1, StackUntouched
  <2>3. buttons' \in LangBarItemButtons /\ IconsFollow'
    BY <1>1, <1>6, BarIcons
  <2> QED BY <1>1, <2>1, <2>2, <2>3 DEF ModeIInv, ModeRest
<1>7. CASE ((\E added \in SUBSET Bits : Setup(added)) \/ BeginTeardown \/ CleanUp \/ EndTeardown) /\ UNCHANGED refuses
  <2>1. StackInv' /\ closing' \in Seq(Bits)
    BY <1>1, <1>7, LifeKeeps
  <2>2. buttons' \in LangBarItemButtons /\ IconsFollow'
    BY <1>1, <1>7, BarIcons, CleanUpIcons
  <2> QED BY <1>1, <1>7, <2>1, <2>2 DEF ModeIInv, ModeRest
<1>8. CASE UNCHANGED modeVars
  <2>1. StackInv'
    BY <1>1, <1>8, StackUntouched DEF modeVars
  <2> QED BY <1>1, <1>8, <2>1 DEF ModeIInv, ModeRest, IconsFollow, GetIcon, modeVars
<1> QED BY <1>2, <1>3, <1>4, <1>5, <1>6, <1>7, <1>8 DEF ModeNext, ModeStep

LEMMA ModeInvHolds == ModeSpec => []ModeIInv
BY ModeInitHolds, ModeNextKeeps, PTL DEF ModeSpec

\* The stack's first callback holds what was asked for.
LEMMA WishIsOne == ASSUME ModeIInv PROVE wish \in Wishes
<1>1. CASE calls = <<>> \/ stage # "up"
  BY <1>1 DEF ModeIInv, StackInv, WishInSight, Wishes
<1>2. CASE ~(calls = <<>> \/ stage # "up")
  <2>1. calls \in Seq(Frames) /\ Len(calls) \in Nat /\ Len(calls) # 0
    BY <1>2 DEF ModeIInv, StackInv, FramesInOrder
  <2>2. calls[1] \in Frames
    BY <2>1
  <2>3. wish = [of |-> calls[1].of, is |-> IF Root = 1 THEN Goal ELSE flags[calls[1].of]]
    BY <1>2 DEF ModeIInv, StackInv, WishInSight
  <2>4. CASE calls[1].of = Conversion
    <3>1. Root = 1 /\ Goal \in SUBSET Bits
      BY <2>2, <2>4 DEF Root, Goal, Frames
    <3> QED BY <2>3, <2>4, <3>1 DEF Wishes
  <2>5. CASE calls[1].of # Conversion
    <3>1. Root = 2 /\ calls[1].of \in Bits
      BY <2>2, <2>5 DEF Root, Frames
    <3>2. flags[calls[1].of] \in BOOLEAN
      BY <3>1 DEF ModeIInv, StackInv, Flags
    <3> QED BY <2>3, <3>1, <3>2 DEF Wishes
  <2> QED BY <2>4, <2>5
<1> QED BY <1>1, <1>2

(* The callbacks on the stack, the icons and what was asked for last are   *)
(* of their types, through every nesting (Compartments).                   *)
THEOREM ModesAreTyped == ModeSpec => []ModeTypeOK
<1>1. ModeIInv => ModeTypeOK
  BY WishIsOne DEF ModeIInv, StackInv, FramesInOrder, ModeRest, ModeTypeOK
<1> QED BY <1>1, ModeInvHolds, PTL

LEMMA ModesAgreeHolds ==
  ASSUME ModeIInv
  PROVE  ModesAgree
BY DEF ModeIInv, StackInv, OthersAgree, ModesAgree

LEMMA IconIsTrueHolds ==
  ASSUME ModeIInv
  PROVE  IconIsTrue
<1>1. /\ flags \in Flags /\ buttons.icon \in Flags /\ buttons.disabled \in BOOLEAN
      /\ buttons.asked \subseteq Bits
      /\ \A b \in buttons.asked \cap buttons.sink : buttons.icon[b] <=> GetIcon(b)
  BY DEF ModeIInv, StackInv, ModeRest, LangBarItemButtons, IconsFollow
<1>2. \A b \in Bits : GetIcon(b) \in BOOLEAN /\ buttons.icon[b] \in BOOLEAN
  BY <1>1 DEF GetIcon, Flags
<1> QED BY <1>1, <1>2 DEF IconIsTrue

(* The third callback of the conversion mode never comes. *)
LEMMA NestingEndsHolds ==
  ASSUME ModeIInv
  PROVE  NestingEnds
<1> DEFINE S == {i \in DOMAIN calls : calls[i].of = Conversion}
<1>1. StackInv /\ calls \in Seq(Frames)
  BY DEF ModeIInv, StackInv, FramesInOrder
<1>2. S \subseteq {Root, Root + 2}
  <2> SUFFICES ASSUME NEW i \in DOMAIN calls, calls[i].of = Conversion
               PROVE  i \in {Root, Root + 2}
    OBVIOUS
  <2>1. i \in 1..Len(calls) /\ calls # <<>>
    BY <1>1
  <2>2. /\ Len(calls) \in Nat \ {0} /\ Root \in 1..2 /\ (Root = 2 => calls[1].of \in Bits)
        /\ Len(calls) <= Root + 3
    BY <1>1, <2>1, StackPlaces
  <2>3. /\ Len(calls) >= Root /\ Len(calls) > Root => calls[Root + 1].of \in Bits
        /\ Len(calls) >= Root /\ Len(calls) > Root + 2 => calls[Root + 3].of = "open"
    BY <1>1, <2>1, SettledAbove
  <2> DEFINE n == Len(calls)
  <2> DEFINE r == Root
  <2>4. n \in Nat /\ r \in 1..2 /\ i \in 1..n /\ n <= r + 3
    BY <2>1, <2>2
  <2>5. /\ i = 1 /\ r = 2 => calls[i].of # Conversion
        /\ n >= r /\ n > r /\ i = r + 1 => calls[i].of # Conversion
        /\ n >= r /\ n > r + 2 /\ i = r + 3 => calls[i].of # Conversion
    BY <2>2, <2>3 DEF Bits, Conversion
  <2> HIDE DEF n, r
  <2>6. i \in {r, r + 2} \/ (i = 1 /\ r = 2) \/ (n > r /\ i = r + 1) \/ (n > r + 2 /\ i = r + 3)
    BY <2>4
  <2>7. n > r + 2 => n > r /\ n >= r
    BY <2>4
  <2>8. n > r => n >= r
    BY <2>4
  <2>9. i \in {r, r + 2}
    BY <2>5, <2>6, <2>7, <2>8
  <2> QED BY <2>9 DEF r
<1>3. IsFiniteSet({Root, Root + 2}) /\ Cardinality({Root, Root + 2}) <= 2
  <2>1. IsFiniteSet({Root}) /\ Cardinality({Root}) = 1
    BY FS_Singleton
  <2>2. IsFiniteSet({Root} \union {Root + 2})
        /\ Cardinality({Root} \union {Root + 2}) = IF Root + 2 \in {Root} THEN 1 ELSE 1 + 1
    BY <2>1, FS_AddElement
  <2>3. {Root} \union {Root + 2} = {Root, Root + 2}
    OBVIOUS
  <2> QED BY <2>2, <2>3
<1>4. IsFiniteSet(S) /\ Cardinality(S) <= Cardinality({Root, Root + 2})
  BY <1>2, <1>3, FS_Subset
<1>5. Cardinality(S) \in Nat /\ Cardinality({Root, Root + 2}) \in Nat
  BY <1>3, <1>4, FS_CardinalityType
<1> DEFINE k == Cardinality(S)
<1> DEFINE l == Cardinality({Root, Root + 2})
<1>6. k \in Nat /\ l \in Nat /\ k <= l /\ l <= 2
  BY <1>3, <1>4, <1>5
<1> HIDE DEF k, l
<1>7. k <= 2
  BY <1>6
<1> QED BY <1>7 DEF NestingEnds, k

(* Once everything has been told that is to be told, everything that shows *)
(* a mode shows the same, and the telling has come to an end.              *)
THEOREM ModesSettleHolds == ModeSpec => []ModesSettle
<1>1. ModeIInv => ModesSettle
  BY ModesAgreeHolds, IconIsTrueHolds, NestingEndsHolds DEF ModesSettle
<1> QED BY <1>1, ModeInvHolds, PTL

\* Only the last return empties the stack.
LEMMA LastReturn ==
  ASSUME ModeIInv, [ModeNext]_modeVars, calls # <<>>, calls' = <<>>
  PROVE  Return /\ Len(calls) = 1
<1>1. StackInv /\ stage # "down" /\ calls \in Seq(Frames) /\ Len(calls) \in Nat \ {0}
  BY StackPlaces DEF ModeIInv
<1>2. CompartmentCallback
  <2>1. ~ \E b \in Bits, value \in BOOLEAN : SetMode(b, value)
    BY DEF SetMode
  <2>2. ~ \E b \in Bits : OnPreservedKey(b) \/ OnClick(b)
    BY DEF SetMode, OnPreservedKey, OnClick
  <2>3. ~ \E mode \in SUBSET Bits : SetConversionMode(mode)
    BY DEF SetConversionMode
  <2>4. ~ BarNext
    BY DEF BarNext, FetchIcon, AdviseSink, UnadviseSink, UpdateLanguageBarOnSetFocus
  <2>5. ~ ((\E added \in SUBSET Bits : Setup(added)) \/ BeginTeardown \/ CleanUp \/ EndTeardown)
    BY <1>1 DEF Setup, BeginTeardown, CleanUp, EndTeardown
  <2>6. ~ UNCHANGED modeVars
    BY DEF modeVars
  <2> QED BY <2>1, <2>2, <2>3, <2>4, <2>5, <2>6 DEF ModeNext, ModeStep
<1>3. ASSUME Top.todo # <<>>, NEW f \in Frames
      PROVE  calls' # Passed /\ calls' # Append(Passed, f)
  <2>1. Passed \in Seq(Frames) /\ Len(Passed) # 0
    BY <1>1, <1>3, PassedOn
  <2>2. Passed # <<>> /\ Append(Passed, f) # <<>>
    BY <2>1
  <2> QED BY <2>2
<1>4. \A mode : mode \in SUBSET Bits => Frame(Conversion, mode) \in Frames
  BY FrameOf
<1>5. ASSUME Top.todo # <<>>
      PROVE  ~ Write(Wanted)
  <2>1. Wanted \in SUBSET Bits
    BY <1>1, WantedIs DEF StackInv
  <2> QED BY <1>1, <1>3, <1>4, <1>5, <2>1 DEF Write, SetConversion, Call
<1>6. ~ (PrivateCompartmentsUpdated \/ KeyboardOpenCompartmentUpdated)
  BY <1>5 DEF PrivateCompartmentsUpdated, KeyboardOpenCompartmentUpdated, Wanted
<1>7. ~ ConversionModeCompartmentUpdated
  <2> SUFFICES ASSUME ConversionModeCompartmentUpdated PROVE FALSE
    OBVIOUS
  <2> DEFINE b == Head(Top.todo)
  <2>1. Top.todo # <<>> /\ b \in Bits
    BY <1>1, NextMode DEF ConversionModeCompartmentUpdated
  <2>2. Frame(b, conv) \in Frames
    BY <1>1, <2>1, FrameOf DEF StackInv
  <2>3. calls' = Passed \/ calls' = Append(Passed, Frame(b, conv))
    BY <1>1 DEF ConversionModeCompartmentUpdated, SetFlag, Call
  <2> QED BY <1>3, <2>1, <2>2, <2>3
<1>8. Return
  BY <1>2, <1>6, <1>7 DEF CompartmentCallback
<1>9. Len(Bottom) = 0 /\ Len(Bottom) = Len(calls) - 1
  <2>1. Bottom = <<>>
    BY <1>8 DEF Return
  <2> QED BY <1>1, <2>1, BottomOf
<1> QED BY <1>1, <1>8, <1>9

(* No callback undoes the last wish with what it read too early. *)
LEMMA WishGranted ==
  ASSUME ModeIInv, [ModeNext]_modeVars, calls # <<>>, calls' = <<>>
  PROVE  Granted(wish)
<1>1. StackInv /\ Return /\ Len(calls) = 1 /\ conv \in SUBSET Bits
  BY LastReturn DEF ModeIInv, StackInv
<1>2. conv' = conv /\ flags' = flags /\ Top.todo = <<>> /\ Top = calls[1]
  BY <1>1 DEF Return, Top
<1>3. Root \in 1..2 /\ (Root = 2 => calls[1].of \in Bits) /\ (Root = 1 => calls[1].of = Conversion)
  BY <1>1, StackPlaces DEF Root
<1>4. CASE stage # "up"
  <2>1. wish = NoWish
    BY <1>1, <1>4 DEF StackInv, WishInSight
  <2> QED BY <2>1 DEF Granted, NoWish, Conversion, Bits
<1>5. CASE stage = "up" /\ Root = 2
  <2>1. wish.of = calls[1].of /\ wish.is = flags[calls[1].of]
    BY <1>1, <1>5 DEF StackInv, WishInSight
  <2> QED BY <1>2, <1>3, <1>5, <2>1 DEF Granted, Conversion, Bits
<1>6. CASE stage = "up" /\ Root = 1
  <2>1. wish.of = Conversion /\ wish.is = Goal
    BY <1>1, <1>3, <1>6 DEF StackInv, WishInSight
  <2>2. Len(calls) >= Root /\ Len(calls) # Root + 1
    BY <1>1, <1>6
  <2>3. calls[Root].todo = <<>>
    BY <1>2, <1>6
  <2>4. "punct" \in conv <=> "punct" \in Goal
    BY <1>1, <2>2, <2>3, SettledPunct, TodosInOrder
  <2>5. /\ \A b \in {"width", "open"} : b \in conv <=> b \in Goal
        /\ Goal \in SUBSET Bits
    BY <1>1, <2>2, Settled
  <2>6. \A b \in Bits : b \in conv <=> b \in Goal
    BY <2>4, <2>5 DEF Bits
  <2>7. conv = Goal
    BY <1>1, <2>5, <2>6
  <2> QED BY <1>2, <2>1, <2>7 DEF Granted, Conversion, Bits
<1> QED BY <1>3, <1>4, <1>5, <1>6

(* The last value asked for is the one that stays when all have returned,  *)
(* whichever callbacks came in between and whatever they had read.         *)
THEOREM LastWishStaysHolds == ModeSpec => LastWishStays
<1>1. ModeIInv /\ [ModeNext]_modeVars => [calls # <<>> /\ calls' = <<>> => Granted(wish)]_modeVars
  BY WishGranted
<1> QED BY <1>1, ModeInvHolds, PTL DEF ModeSpec, LastWishStays
==============================================================================
