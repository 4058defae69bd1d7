------------------------------- MODULE WsConn -------------------------------
(***************************************************************************)
(* One WebSocket connection of the router (pkg/router/handler_ws.go).      *)
(*                                                                         *)
(* Goroutines: the read loop, and for every subscription its handler       *)
(* goroutine, its producer and its bridge (module SubBridge).  They share  *)
(* the registry wc.subs (under subsMu) and the connection (under mu).  The *)
(* client sends starts, stops and messages the server only answers with an *)
(* error; it may stop reading, and it may disconnect.                      *)
(*                                                                         *)
(* A critical section is one step, as is one write of a frame under mu.    *)
(* What the client observes is what is put on the wire: every frame moves  *)
(* `view` or `got`, and one that has no place where it arrives breaks the  *)
(* view for good.                                                          *)
(***************************************************************************)
EXTENDS SubBridge, Sequences, FiniteSets

CONSTANTS
  Ids,        \* request ids of the client
  NoId, None, \* no request id; no subscription instance
  Patient,    \* the client sends "subscription.stop" only after "started"
  Reuse,      \* the client may use an id again once its stream has ended
  GateCancels,\* a middleware cancels the context it passes on when it returns
  InboxCap    \* bound: frames sent by the client and not yet read

\* Instances are numbered in the order their start messages are sent.
ASSUME WsAssumption ==
  /\ Subs \subseteq Nat
  /\ NoId \notin Ids
  /\ None \notin Subs
  /\ Patient \in BOOLEAN /\ Reuse \in BOOLEAN /\ GateCancels \in BOOLEAN
  /\ InboxCap \in Nat

VARIABLES
  inbox,      \* frames in flight from the client
  loop,       \* control of readLoop
  target,     \* the cancel function handleSubscriptionStop looked up
  subs,       \* wc.subs
  pc,         \* control of each handleSubscriptionStart
  sid,        \* the id each instance was started under
  taken,      \* number of the value each instance last received from `out`
  panicked,   \* the instance is unwinding from a panic
  cancelled,  \* cancel() of the instance's context was called
  connDone,   \* the request's context is cancelled
  connOpen,   \* the client has not disconnected
  stalled,    \* the client reads nothing more, and writes to it block
  view, got,  \* the client's side of every id, see SubStream
  stopReq,    \* history: started instances a stop message was handled for
  late        \* history: values sent to the client after the cancellation

\* What the client is promised, see StreamContract.
Stream == INSTANCE SubStream WITH Keys <- Ids

clientVars == <<view, got>>
vars == <<bridgeVars, inbox, loop, target, subs, pc, sid, taken, panicked,
          cancelled, connDone, connOpen, stalled, view, got, stopReq, late>>

Frames ==
  [method : {"subscription"}, id : Ids, sub : Subs]
    \cup [method : {"subscription.stop"}, id : Ids] \cup [method : {"other"}]

LoopStates == {"read", "cancel", "reply", "sweep", "close", "return", "done"}

\* The handler goroutine runs from "parse" to "recover"; from "call" to
\* "delete" its cancel function is in the registry.
Registered == {"call", "fail", "starting", "check", "wait", "write",
               "stopping", "cancel", "delete"}
Running == {"parse", "register", "recover"} \cup Registered
Ending == {"stopping", "cancel", "delete", "recover", "done"}

TypeOK ==
  /\ BridgeTypeOK
  /\ inbox \in Seq(Frames)
  /\ Len(inbox) <= InboxCap
  /\ loop \in LoopStates
  /\ target \in Subs \cup {None}
  /\ subs \in [Ids -> Subs \cup {None}]
  /\ pc \in [Subs -> {"unused", "sent", "done"} \cup Running]
  /\ sid \in [Subs -> Ids \cup {NoId}]
  /\ taken \in [Subs -> 0..MaxEvents]
  /\ panicked \in [Subs -> BOOLEAN]
  /\ cancelled \in [Subs -> BOOLEAN]
  /\ connDone \in BOOLEAN /\ connOpen \in BOOLEAN /\ stalled \in BOOLEAN
  /\ view \in [Ids -> {"idle", "pending", "open", "ended", "failed", "broken"}]
  /\ got \in [Ids -> 0..MaxEvents]
  /\ stopReq \subseteq Subs
  /\ late \in [Subs -> Nat]

Init ==
  /\ BridgeInit
  /\ inbox = <<>>
  /\ loop = "read" /\ target = None
  /\ subs = [i \in Ids |-> None]
  /\ pc = [g \in Subs |-> "unused"]
  /\ sid = [g \in Subs |-> NoId]
  /\ taken = [g \in Subs |-> 0]
  /\ panicked = [g \in Subs |-> FALSE]
  /\ cancelled = [g \in Subs |-> FALSE]
  /\ connDone = FALSE /\ connOpen = TRUE /\ stalled = FALSE
  /\ view = [i \in Ids |-> "idle"]
  /\ got = [i \in Ids |-> 0]
  /\ stopReq = {}
  /\ late = [g \in Subs |-> 0]

-----------------------------------------------------------------------------
(* Contexts and writes *)

\* Mutation: the context of a subscription is not derived from the connection's.
DoneDetached(g) == cancelled[g]

\* subCtx.Done(): the context is derived from the connection's.
Done(g) == connDone \/ cancelled[g]

\* The context the middlewares pass on to the handler, its producer and the
\* bridge is derived from subCtx.
HandlerDone(g) == Done(g) \/ GateCancels

\* writeJSON has no deadline: it blocks while the peer does not read, and
\* fails, which is only logged, once the connection is closed.
CanWrite == connOpen => ~stalled

\* What a client makes of a frame, from what it knows of the stream.
Receive(state, frame) ==
  CASE state = "pending" /\ frame = "started"           -> "open"
    [] state = "open"    /\ frame = "data"              -> "open"
    [] state = "open"    /\ frame = "stopped"           -> "ended"
    [] state \in {"pending", "ended"} /\ frame = "error" -> "failed"
    [] OTHER                                             -> "broken"

\* A frame is written under an id, and the client receives it.
Announce(id, frame) ==
  /\ CanWrite
  /\ view' = IF connOpen THEN [view EXCEPT ![id] = Receive(@, frame)] ELSE view

-----------------------------------------------------------------------------
(* The client *)

\* What no step of the client changes.
serverVars == <<bridgeVars, loop, target, subs, taken, panicked, cancelled,
                connDone, stopReq, late>>

Submit(f) ==
  /\ connOpen
  /\ Len(inbox) < InboxCap
  /\ inbox' = Append(inbox, f)
  /\ UNCHANGED <<serverVars, connOpen, stalled>>

MayStart(id) == view[id] = "idle" \/ (Reuse /\ view[id] \in Stream!Over)

MayStop(id) == view[id] = "open" \/ (~Patient /\ view[id] = "pending")

ClientStart(g, id) ==
  /\ MayStart(id)
  /\ pc[g] = "unused"
  /\ \A h \in Subs : h < g => pc[h] # "unused"
  /\ Submit([method |-> "subscription", id |-> id, sub |-> g])
  /\ pc' = [pc EXCEPT ![g] = "sent"]
  /\ sid' = [sid EXCEPT ![g] = id]
  /\ view' = [view EXCEPT ![id] = "pending"]
  /\ got' = [got EXCEPT ![id] = 0]

ClientStop(id) ==
  /\ MayStop(id)
  /\ Submit([method |-> "subscription.stop", id |-> id])
  /\ UNCHANGED <<pc, sid, clientVars>>

\* A frame that does not parse, or one with an unknown method.
ClientOther ==
  /\ Submit([method |-> "other"])
  /\ UNCHANGED <<pc, sid, clientVars>>

Stall ==
  /\ connOpen /\ ~stalled
  /\ stalled' = TRUE
  /\ UNCHANGED <<serverVars, inbox, pc, sid, connOpen, clientVars>>

Disconnect ==
  /\ connOpen
  /\ connOpen' = FALSE
  /\ UNCHANGED <<serverVars, inbox, pc, sid, stalled, clientVars>>

Client ==
  \/ \E g \in Subs, id \in Ids : ClientStart(g, id)
  \/ \E id \in Ids : ClientStop(id)
  \/ ClientOther \/ Stall \/ Disconnect

-----------------------------------------------------------------------------
(* readLoop *)

\* A step of the loop, and what none of them changes.
LoopStep(from, to) ==
  /\ loop = from
  /\ loop' = to
  /\ UNCHANGED <<bridgeVars, sid, taken, panicked, stalled, clientVars, late>>

ReadFrame(method) ==
  /\ inbox # <<>>
  /\ Head(inbox).method = method
  /\ inbox' = Tail(inbox)
  /\ UNCHANGED <<subs, cancelled, connDone, connOpen>>

\* go wc.handleSubscriptionStart(ctx, req)
LoopSpawn ==
  /\ LoopStep("read", "read")
  /\ ReadFrame("subscription")
  /\ pc' = [pc EXCEPT ![Head(inbox).sub] = "parse"]
  /\ UNCHANGED <<target, stopReq>>

StartedUnder(id) == {g \in Subs : sid[g] = id /\ pc[g] \notin {"unused", "sent"}}

\* handleSubscriptionStop looks the id up under subsMu ...
LoopStop ==
  LET id == Head(inbox).id IN
    /\ ReadFrame("subscription.stop")
    /\ LoopStep("read", IF subs[id] = None THEN "read" ELSE "cancel")
    /\ target' = subs[id]
    /\ stopReq' = stopReq \cup StartedUnder(id)
    /\ UNCHANGED pc

\* ... and calls the cancel function after unlocking.
LoopCancel ==
  /\ LoopStep("cancel", "read")
  /\ cancelled' = [cancelled EXCEPT ![target] = TRUE]
  /\ target' = None
  /\ UNCHANGED <<inbox, subs, pc, connDone, connOpen, stopReq>>

LoopOther ==
  /\ LoopStep("read", "reply")
  /\ ReadFrame("other")
  /\ UNCHANGED <<target, pc, stopReq>>

\* The error reply belongs to no stream.
LoopReply ==
  /\ LoopStep("reply", "read")
  /\ CanWrite
  /\ UNCHANGED <<inbox, target, subs, pc, cancelled, connDone, connOpen, stopReq>>

\* conn.Read fails; frames that were still in flight are lost.
LoopReadError ==
  /\ LoopStep("read", "sweep")
  /\ ~connOpen
  /\ UNCHANGED <<inbox, target, subs, pc, cancelled, connDone, connOpen, stopReq>>

\* The deferred function cancels and forgets every registered subscription ...
LoopSweep ==
  /\ LoopStep("sweep", "close")
  /\ cancelled' = [g \in Subs |-> cancelled[g] \/ \E id \in Ids : subs[id] = g]
  /\ subs' = [id \in Ids |-> None]
  /\ UNCHANGED <<inbox, target, pc, connDone, connOpen, stopReq>>

\* ... and closes the connection.
LoopClose ==
  /\ LoopStep("close", "return")
  /\ connOpen' = FALSE
  /\ UNCHANGED <<inbox, target, subs, pc, cancelled, connDone, stopReq>>

\* ServeHTTP returns: net/http cancels the context of the request.
ServeReturn ==
  /\ LoopStep("return", "done")
  /\ connDone' = TRUE
  /\ UNCHANGED <<inbox, target, subs, pc, cancelled, connOpen, stopReq>>

Loop ==
  \/ LoopSpawn \/ LoopStop \/ LoopCancel \/ LoopOther \/ LoopReply
  \/ LoopReadError \/ LoopSweep \/ LoopClose \/ ServeReturn

-----------------------------------------------------------------------------
(* handleSubscriptionStart *)

\* A step of g's handler goroutine, and what none of them changes ...
HandlerStep(g, from, to) ==
  /\ pc[g] = from
  /\ pc' = [pc EXCEPT ![g] = to]
  /\ UNCHANGED <<inbox, loop, target, sid, connDone, connOpen, stalled, stopReq>>

\* ... one that only moves on, and one that writes a frame of its stream.
Moves(g, from, to) ==
  /\ HandlerStep(g, from, to)
  /\ UNCHANGED <<bridgeVars, subs, taken, panicked, cancelled, clientVars, late>>

Writes(g, from, frame, to) ==
  /\ HandlerStep(g, from, to)
  /\ Announce(sid[g], frame)
  /\ UNCHANGED <<bridgeVars, subs, taken, panicked, cancelled, got, late>>

ParseOk(g) == Moves(g, "parse", "register")

\* Bad params, no such procedure, not a subscription, or a transformer that
\* fails or panics: one error frame, and the goroutine is gone.
ParseReject(g) == Writes(g, "parse", "error", "done")

\* Mutation: the cancel function is never stored.
RegisterForgotten(g) == Moves(g, "register", "call")

Register(g) ==
  /\ HandlerStep(g, "register", "call")
  /\ subs' = [subs EXCEPT ![sid[g]] = g]
  /\ UNCHANGED <<bridgeVars, taken, panicked, cancelled, clientVars, late>>

\* callSubscription: a middleware, the validation or the handler refuses, or
\* one of them panics and the panic becomes an error ...
CallFails(g) == Moves(g, "call", "fail")

\* Mutation: the error return is taken before the cleanup is deferred.
WriteErrorNoCleanup(g) == Writes(g, "fail", "error", "done")

WriteError(g) == Writes(g, "fail", "error", "cancel")

\* ... or the handler returns its channel and the bridge starts.
CallOpens(g) ==
  /\ HandlerStep(g, "call", "starting")
  /\ OpenPipe(g)
  /\ UNCHANGED <<subs, taken, panicked, cancelled, clientVars, late>>

WriteStarted(g) == Writes(g, "starting", "started", "check")

\* Mutation: no priority select.
CheckNothing(g) == Moves(g, "check", "wait")

\* The first select: the context alone.
Check(g) == Moves(g, "check", IF Done(g) THEN "stopping" ELSE "wait")

\* Mutation: "stopped" is not deferred, and missing on the way out.
WaitEndsSilently(g) == (Done(g) \/ OutClosed(g)) /\ Moves(g, "wait", "cancel")

\* Mutation: "stopped" is written on the way out, besides the deferred one.
WaitEndsTwice(g) ==
  (Done(g) \/ OutClosed(g)) /\ Writes(g, "wait", "stopped", "stopping")

\* The second select: the context, the closed channel, or a value.
WaitEnds(g) == (Done(g) \/ OutClosed(g)) /\ Moves(g, "wait", "stopping")

WaitValue(g) ==
  /\ HandlerStep(g, "wait", "write")
  /\ HandOver(g)
  /\ taken' = [taken EXCEPT ![g] = LastRanged(g)]
  /\ UNCHANGED <<subs, panicked, cancelled, clientVars, late>>

\* A value that is not newer than the last one has no place in a stream.
WriteData(g) ==
  /\ HandlerStep(g, "write", "check")
  /\ Announce(sid[g], IF taken[g] > got[sid[g]] THEN "data" ELSE "repeat")
  /\ got' = IF connOpen THEN [got EXCEPT ![sid[g]] = taken[g]] ELSE got
  /\ late' = IF connOpen /\ Done(g) THEN [late EXCEPT ![g] = @ + 1] ELSE late
  /\ UNCHANGED <<bridgeVars, subs, taken, panicked, cancelled>>

\* json.Marshal fails: the value is logged and skipped.
SkipData(g) == Moves(g, "write", "check")

\* A MarshalJSON method of the value panics: the deferred functions run.
PanicData(g) ==
  /\ HandlerStep(g, "write", "stopping")
  /\ panicked' = [panicked EXCEPT ![g] = TRUE]
  /\ UNCHANGED <<bridgeVars, subs, taken, cancelled, clientVars, late>>

\* The deferred functions, last registered first: "stopped", ...
WriteStopped(g) == Writes(g, "stopping", "stopped", "cancel")

\* ... cancel(), ...
CancelSelf(g) ==
  /\ HandlerStep(g, "cancel", "delete")
  /\ cancelled' = [cancelled EXCEPT ![g] = TRUE]
  /\ UNCHANGED <<bridgeVars, subs, taken, panicked, clientVars, late>>

\* ... delete(wc.subs, req.ID), ...
DeleteSelf(g) ==
  /\ HandlerStep(g, "delete", IF panicked[g] THEN "recover" ELSE "done")
  /\ subs' = [subs EXCEPT ![sid[g]] = None]
  /\ UNCHANGED <<bridgeVars, taken, panicked, cancelled, clientVars, late>>

\* ... and the recover, whose error frame follows "stopped".
WriteRecovered(g) == Writes(g, "recover", "error", "done")

Handler(g) ==
  \/ ParseOk(g) \/ ParseReject(g) \/ Register(g)
  \/ CallFails(g) \/ WriteError(g) \/ CallOpens(g) \/ WriteStarted(g)
  \/ Check(g) \/ WaitEnds(g) \/ WaitValue(g)
  \/ WriteData(g) \/ SkipData(g) \/ PanicData(g)
  \/ WriteStopped(g) \/ CancelSelf(g) \/ DeleteSelf(g) \/ WriteRecovered(g)

-----------------------------------------------------------------------------
(* The producer and the bridge of a subscription *)

restVars == <<inbox, loop, target, subs, pc, sid, taken, panicked, cancelled,
              connDone, connOpen, stalled, view, got, stopReq, late>>

ProducerSends(g) == Produce(g) /\ UNCHANGED restVars

ProducerCloses(g) == CloseChan(g) /\ UNCHANGED restVars

\* What docs/cancellation.md asks of a producer: it selects on its context.
ProducerHeedsDone(g) == HandlerDone(g) /\ ProducerCloses(g)

BridgeAbandons(g) == HandlerDone(g) /\ Abandon(g)

Bridge(g) ==
  /\ RangeNext(g) \/ RangeEnds(g) \/ BridgeAbandons(g)
  /\ UNCHANGED restVars

\* Nothing of the subscription runs (any more).
Gone(g) == pc[g] \in {"unused", "sent", "done"} /\ PipeGone(g)

Terminated ==
  /\ loop = "done"
  /\ \A g \in Subs : Gone(g)
  /\ UNCHANGED vars

Server == Loop \/ \E g \in Subs : Handler(g) \/ Bridge(g)

Next ==
  \/ Client
  \/ Server
  \/ \E g \in Subs : ProducerSends(g) \/ ProducerCloses(g)
  \/ Terminated

\* Goroutines that can run eventually run, calls return, and producers heed
\* their context.  The client and what producers send are not fair.
Fairness ==
  /\ WF_vars(Loop)
  /\ \A g \in Subs : WF_vars(Handler(g)) /\ WF_vars(Bridge(g))
                       /\ WF_vars(ProducerHeedsDone(g))

Spec == Init /\ [][Next]_vars

FairSpec == Spec /\ Fairness

-----------------------------------------------------------------------------
(* Properties *)

\* wc.subs holds exactly the subscriptions between their registration and
\* their deferred delete, each under its own id, until the read loop's sweep:
\* neither an early stop nor the end of another subscription disturbs it.
RegistryExact ==
  /\ loop \notin {"close", "return", "done"} =>
       \A g \in Subs : pc[g] \in Registered => subs[sid[g]] = g
  /\ \A id \in Ids : subs[id] # None =>
       pc[subs[id]] \in Registered /\ sid[subs[id]] = id

\* A stop message that was handled cancels the subscription of its id, unless
\* that is already winding down ("subscription.stop message - cancels a
\* specific subscription", docs/cancellation.md).
StopCancels ==
  \A g \in stopReq :
    Done(g) \/ pc[g] \in Ending \/ (loop = "cancel" /\ target = g)

\* The priority select: after its cancellation a subscription sends at most
\* the one value it may already have received.
AtMostOneLate == \A g \in Subs : late[g] <= 1

\* A stream that ends without a cancellation ends because the producer closed
\* its channel, and only after every value it sent was received.
CloseDrains ==
  [][\A g \in Subs :
       pc[g] = "wait" /\ pc'[g] = "stopping" /\ ~HandlerDone(g)
         => prod[g] = "closed" /\ taken[g] = emitted[g]]_vars

\* Every id carries streams as SubStream describes them: one answer, ordered
\* data without duplicates, one "stopped", and nothing afterwards but one
\* error frame, which a panic over a value adds.
StreamContract == Stream!StreamSpec

\* Once the client is gone every goroutine of the connection ends, those of a
\* subscription that registers after the sweep included, and the registry is
\* left empty.
Teardown ==
  ~connOpen ~> loop = "done" /\ (\A g \in Subs : Gone(g))
                 /\ (\A id \in Ids : subs[id] = None)

\* A handled stop, like the close of the producer's channel, ends the stream
\* for the client, unless the client went away or stopped reading.
StopAnswered ==
  \A g \in Subs, id \in Ids :
    sid[g] = id /\ (g \in stopReq \/ prod[g] = "closed")
      ~> view[id] \in Stream!Over \/ ~connOpen \/ stalled
=============================================================================
