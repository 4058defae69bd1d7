------------------------------ MODULE SseConn ------------------------------
(***************************************************************************)
(* One EventSource and the SSE requests it makes (handleSubscription in    *)
(* pkg/router/handler_sse.go), over a tracked subscription that replays a  *)
(* finite log from the event after Last-Event-ID, as the "messages"        *)
(* procedure of examples/subscription/main.go does.                        *)
(*                                                                         *)
(* Every request has a handler goroutine, a producer and a bridge          *)
(* (SubBridge); the handler of a request that was cut may still run while  *)
(* the client has reconnected.  Events are the numbers 1..MaxEvents, and   *)
(* an event's number is its id.                                            *)
(***************************************************************************)
EXTENDS SubBridge

CONSTANTS
  Bad,         \* the events json.Marshal fails on
  Tracked,     \* the handler yields TrackedEvents, not plain values
  GateCancels, \* a middleware cancels the context it passes on when it returns
  None         \* no request

\* Requests are numbered in the order they are made.
ASSUME SseAssumption ==
  /\ Subs \subseteq Nat
  /\ None \notin Subs
  /\ Bad \subseteq 1..MaxEvents
  /\ Tracked \in BOOLEAN /\ GateCancels \in BOOLEAN

VARIABLES
  pc,       \* control of the handler of each request
  base,     \* Last-Event-ID of each request, 0 if it has none
  taken,    \* id of the event each handler last received
  up,       \* the connection of the request still reaches the client
  ctxDone,  \* req.Context() is cancelled
  es,       \* the EventSource
  cur,      \* its current request
  lastId,   \* the id it last received
  seen      \* history: how often the client received each event

reqVars == <<pc, base, taken, up, ctxDone>>
clientVars == <<es, cur, lastId, seen>>
vars == <<bridgeVars, reqVars, clientVars>>

Events == 1..MaxEvents

Streaming == {"connected", "select", "write", "return"}

TypeOK ==
  /\ BridgeTypeOK
  /\ pc \in [Subs -> {"unused", "call", "exit", "done"} \cup Streaming]
  /\ base \in [Subs -> 0..MaxEvents]
  /\ taken \in [Subs -> 0..MaxEvents]
  /\ up \in [Subs -> BOOLEAN]
  /\ ctxDone \in [Subs -> BOOLEAN]
  /\ es \in {"idle", "connecting", "open", "waiting", "returned", "failed", "closed"}
  /\ cur \in Subs \cup {None}
  /\ lastId \in 0..MaxEvents
  /\ seen \in [Events -> Nat]

Init ==
  /\ BridgeInit
  /\ pc = [g \in Subs |-> "unused"]
  /\ base = [g \in Subs |-> 0]
  /\ taken = [g \in Subs |-> 0]
  /\ up = [g \in Subs |-> FALSE]
  /\ ctxDone = [g \in Subs |-> FALSE]
  /\ es = "idle" /\ cur = None /\ lastId = 0
  /\ seen = [e \in Events |-> 0]

HandlerDone(g) == ctxDone[g] \/ GateCancels

\* What the client does with the stream it reads; nothing once it is cut.
Reads(g) == cur = g /\ up[g]

-----------------------------------------------------------------------------
(* The client and the network *)

\* Mutation: the header is not found.
NoLastEventID == 0

\* The Last-Event-ID header the EventSource sends when it reconnects.
GetLastEventID == lastId

\* The EventSource connects, or reconnects with the last id it received.
Connect(g) ==
  /\ es \in {"idle", "waiting"}
  /\ pc[g] = "unused"
  /\ \A h \in Subs : h < g => pc[h] # "unused"
  /\ es' = IF es = "idle" THEN "connecting" ELSE "open"
  /\ cur' = g
  /\ pc' = [pc EXCEPT ![g] = "call"]
  /\ base' = [base EXCEPT ![g] = GetLastEventID]
  /\ up' = [up EXCEPT ![g] = TRUE]
  /\ UNCHANGED <<bridgeVars, taken, ctxDone, lastId, seen>>

\* The connection is lost; a connection that never opened is retried as well.
Cut(g) ==
  /\ up[g]
  /\ up' = [up EXCEPT ![g] = FALSE]
  /\ es' = IF cur # g \/ es \notin {"connecting", "open"} THEN es
           ELSE IF es = "open" THEN "waiting" ELSE "idle"
  /\ UNCHANGED <<bridgeVars, pc, base, taken, ctxDone, cur, lastId, seen>>

\* EventSource.close()
Close ==
  /\ es \in {"connecting", "open", "waiting"}
  /\ es' = "closed"
  /\ up' = [g \in Subs |-> FALSE]
  /\ UNCHANGED <<bridgeVars, pc, base, taken, ctxDone, cur, lastId, seen>>

\* net/http notices that the client of a running request is gone.
NoticeGone(g) ==
  /\ ~up[g]
  /\ pc[g] \in {"call"} \cup Streaming
  /\ ~ctxDone[g]
  /\ ctxDone' = [ctxDone EXCEPT ![g] = TRUE]
  /\ UNCHANGED <<bridgeVars, pc, base, taken, up, clientVars>>

-----------------------------------------------------------------------------
(* handleSubscription *)

Goto(g, from, to) == pc[g] = from /\ pc' = [pc EXCEPT ![g] = to]

\* The procedure, the input or the middlewares are refused, or the handler
\* fails: the response is an HTTP error, and an EventSource gives up on one.
Reject(g) ==
  /\ Goto(g, "call", "exit")
  /\ es' = IF Reads(g) THEN "failed" ELSE es
  /\ UNCHANGED <<bridgeVars, base, taken, up, ctxDone, cur, lastId, seen>>

\* Mutation: the "connected" event is not sent.
CallOpensSilently(g) ==
  /\ Goto(g, "call", "select")
  /\ OpenPipe(g)
  /\ UNCHANGED <<base, taken, up, ctxDone, clientVars>>

\* The handler returned its channel.
CallOpens(g) ==
  /\ Goto(g, "call", "connected")
  /\ OpenPipe(g)
  /\ UNCHANGED <<base, taken, up, ctxDone, clientVars>>

\* Headers and the "connected" event; its write error is ignored.
WriteConnected(g) ==
  /\ Goto(g, "connected", "select")
  /\ es' = IF Reads(g) THEN "open" ELSE es
  /\ UNCHANGED <<bridgeVars, base, taken, up, ctxDone, cur, lastId, seen>>

\* The select has no priority: a value may be taken after the cancellation.
SelectDone(g) ==
  /\ ctxDone[g]
  /\ Goto(g, "select", "exit")
  /\ UNCHANGED <<bridgeVars, base, taken, up, ctxDone, clientVars>>

SelectClosed(g) ==
  /\ OutClosed(g)
  /\ Goto(g, "select", "return")
  /\ UNCHANGED <<bridgeVars, base, taken, up, ctxDone, clientVars>>

SelectValue(g) ==
  /\ HandOver(g)
  /\ Goto(g, "select", "write")
  /\ taken' = [taken EXCEPT ![g] = base[g] + LastRanged(g)]
  /\ UNCHANGED <<base, up, ctxDone, clientVars>>

\* The "id:" field makes the event the one to resume after.  A write to a
\* connection that was cut may still succeed, and its bytes are lost.
WriteEvent(g) ==
  /\ taken[g] \notin Bad
  /\ Goto(g, "write", "select")
  /\ IF Reads(g) THEN /\ seen' = [seen EXCEPT ![taken[g]] = @ + 1]
                      /\ lastId' = IF Tracked THEN taken[g] ELSE lastId
                 ELSE UNCHANGED <<seen, lastId>>
  /\ UNCHANGED <<bridgeVars, base, taken, up, ctxDone, es, cur>>

\* A marshal error skips the event.
SkipEvent(g) ==
  /\ taken[g] \in Bad
  /\ Goto(g, "write", "select")
  /\ UNCHANGED <<bridgeVars, base, taken, up, ctxDone, clientVars>>

\* The "return" event: the client closes the EventSource for good.
WriteReturn(g) ==
  /\ Goto(g, "return", "exit")
  /\ es' = IF Reads(g) THEN "returned" ELSE es
  /\ UNCHANGED <<bridgeVars, base, taken, up, ctxDone, cur, lastId, seen>>

\* Mutation: a failed write is taken for the end of the channel.
WriteFailsOpen(g) ==
  /\ pc[g] \in {"write", "return"}
  /\ Goto(g, pc[g], "return")
  /\ UNCHANGED <<bridgeVars, base, taken, up, ctxDone, clientVars>>

\* A write fails: the peer is gone, or the server's WriteTimeout has passed.
WriteFails(g) ==
  /\ pc[g] \in {"write", "return"}
  /\ Goto(g, pc[g], "exit")
  /\ UNCHANGED <<bridgeVars, base, taken, up, ctxDone, clientVars>>

\* The handler has returned: net/http ends the response and cancels the
\* context; a client that is still there sees the stream end, and reconnects
\* unless it was told not to.
Exit(g) ==
  /\ Goto(g, "exit", "done")
  /\ ctxDone' = [ctxDone EXCEPT ![g] = TRUE]
  /\ up' = [up EXCEPT ![g] = FALSE]
  /\ es' = IF ~Reads(g) \/ es \notin {"connecting", "open"} THEN es
           ELSE IF es = "open" THEN "waiting" ELSE "idle"
  /\ UNCHANGED <<bridgeVars, base, taken, cur, lastId, seen>>

Handler(g) ==
  \/ Reject(g) \/ CallOpens(g) \/ WriteConnected(g)
  \/ SelectDone(g) \/ SelectClosed(g) \/ SelectValue(g)
  \/ WriteEvent(g) \/ SkipEvent(g) \/ WriteReturn(g) \/ WriteFails(g)
  \/ Exit(g)

-----------------------------------------------------------------------------
(* The producer, which replays the log from base, and the bridge *)

\* Mutation: the replay runs past the end of the log.
ProducerOverruns(g) == Produce(g)

ProducerSends(g) ==
  /\ base[g] + emitted[g] < MaxEvents
  /\ Produce(g)

ProducerCloses(g) ==
  /\ base[g] + emitted[g] = MaxEvents \/ HandlerDone(g)
  /\ CloseChan(g)

\* Mutation: the bridge's send does not select on the context.
BridgeIgnoresContext(g) == FALSE /\ Abandon(g)

BridgeAbandons(g) == HandlerDone(g) /\ Abandon(g)

Pipe(g) ==
  /\ \/ ProducerSends(g) \/ ProducerCloses(g)
     \/ RangeNext(g) \/ RangeEnds(g) \/ BridgeAbandons(g)
  /\ UNCHANGED <<reqVars, clientVars>>

\* No request runs and the client makes no more.
Terminated ==
  /\ es \notin {"connecting", "open"}
  /\ \A g \in Subs : pc[g] \in {"unused", "done"} /\ PipeGone(g)
  /\ UNCHANGED vars

Next ==
  \/ \E g \in Subs : Connect(g) \/ Cut(g) \/ NoticeGone(g) \/ Handler(g) \/ Pipe(g)
  \/ Close
  \/ Terminated

\* The server's goroutines run; the client reconnects, but nothing makes it
\* close or keeps the network from cutting connections.
Fairness ==
  \A g \in Subs : /\ WF_vars(Handler(g)) /\ WF_vars(Pipe(g))
                  /\ WF_vars(NoticeGone(g)) /\ WF_vars(Connect(g))

Spec == Init /\ [][Next]_vars

FairSpec == Spec /\ Fairness

-----------------------------------------------------------------------------
(* Properties *)

\* Tracked events reach the client exactly once and in order across all its
\* reconnections: it has every event up to the last id, and none twice.
ResumeExact ==
  \A e \in Events : seen[e] = IF e <= lastId /\ e \notin Bad THEN 1 ELSE 0

\* The client is told not to reconnect only when it has the whole log.
ReturnedComplete ==
  es = "returned" => \A e \in Events \ Bad : seen[e] >= 1

\* The view of the single stream of this client, across its requests.
Stream == INSTANCE SubStream
  WITH Keys <- {"es"},
       view <- [k \in {"es"} |->
                  CASE es = "idle" -> IF cur = None THEN "idle" ELSE "pending"
                    [] es = "connecting" -> "pending"
                    [] es \in {"open", "waiting"} -> "open"
                    [] es = "returned" -> "ended"
                    [] es = "failed" -> "failed"
                    [] OTHER -> "left"],
       got <- [k \in {"es"} |-> lastId]
StreamContract == Stream!StreamSpec

\* Every request of a client that is gone ends, with its producer and bridge.
RequestsEnd ==
  \A g \in Subs :
    pc[g] # "unused" /\ ~up[g] ~> pc[g] = "done" /\ PipeGone(g)

\* A stream that opened is not left hanging: the client gets the whole log,
\* or it was cut off on its last request, refused, or closed by itself.
StreamEnds ==
  es = "open" ~> \/ es \in {"returned", "failed", "closed"}
                 \/ es = "waiting" /\ \A g \in Subs : pc[g] # "unused"
=============================================================================
