----------------------------- MODULE SubBridge -----------------------------
(***************************************************************************)
(* The channel pipeline every subscription runs on, whatever its transport.*)
(*                                                                         *)
(* router.Subscription (pkg/router/register.go) wraps the user's handler:  *)
(* the handler returns a channel `ch` fed by a producer goroutine, and a   *)
(* bridge goroutine copies `ch` to an unbuffered channel `out` that the    *)
(* SSE or WebSocket loop consumes.  The bridge selects on the handler's    *)
(* context only while it offers a value; while it ranges over `ch` nothing *)
(* but a value or the close of `ch` wakes it.                              *)
(*                                                                         *)
(* The k-th value a producer sends is represented by the number k.  The    *)
(* transport module conjoins these operators with its own control steps    *)
(* and supplies the context conditions.                                    *)
(***************************************************************************)
EXTENDS Naturals

CONSTANTS
  Subs,       \* subscription instances, one handler goroutine each
  MaxEvents,  \* bound: values a producer sends before it only may close
  ChanCap     \* values the producer may have sent that the bridge has not
              \* ranged over; 1 also covers an unbuffered channel, whose
              \* sender stands in its send

ASSUME BridgeAssumption ==
  /\ MaxEvents \in Nat
  /\ ChanCap \in Nat \ {0}

VARIABLES
  prod,       \* producer of each subscription: "none", "open" or "closed"
  queue,      \* values in `ch`
  bridge,     \* bridge goroutine: "none", "recv", "send" or "exited"
  emitted     \* values the producer has sent so far

bridgeVars == <<prod, queue, bridge, emitted>>

BridgeTypeOK ==
  /\ prod \in [Subs -> {"none", "open", "closed"}]
  /\ queue \in [Subs -> 0..ChanCap]
  /\ bridge \in [Subs -> {"none", "recv", "send", "exited"}]
  /\ emitted \in [Subs -> 0..MaxEvents]

BridgeInit ==
  /\ prod = [s \in Subs |-> "none"]
  /\ queue = [s \in Subs |-> 0]
  /\ bridge = [s \in Subs |-> "none"]
  /\ emitted = [s \in Subs |-> 0]

\* The handler returned `ch`: its producer runs and the bridge is started.
OpenPipe(s) ==
  /\ prod' = [prod EXCEPT ![s] = "open"]
  /\ bridge' = [bridge EXCEPT ![s] = "recv"]
  /\ UNCHANGED <<queue, emitted>>

\* ch <- v in the producer.
Produce(s) ==
  /\ prod[s] = "open"
  /\ emitted[s] < MaxEvents
  /\ queue[s] < ChanCap
  /\ emitted' = [emitted EXCEPT ![s] = @ + 1]
  /\ queue' = [queue EXCEPT ![s] = @ + 1]
  /\ UNCHANGED <<prod, bridge>>

\* close(ch) in the producer.
CloseChan(s) ==
  /\ prod[s] = "open"
  /\ prod' = [prod EXCEPT ![s] = "closed"]
  /\ UNCHANGED <<queue, bridge, emitted>>

\* Mutation: the receive does not wait for a value.
RangeNextUnguarded(s) ==
  /\ bridge[s] = "recv"
  /\ queue' = [queue EXCEPT ![s] = @ - 1]
  /\ bridge' = [bridge EXCEPT ![s] = "send"]
  /\ UNCHANGED <<prod, emitted>>

\* for v := range ch: the bridge takes the next value ...
RangeNext(s) ==
  /\ bridge[s] = "recv"
  /\ queue[s] > 0
  /\ queue' = [queue EXCEPT ![s] = @ - 1]
  /\ bridge' = [bridge EXCEPT ![s] = "send"]
  /\ UNCHANGED <<prod, emitted>>

\* Mutation: the bridge stops at the close without draining the channel.
RangeEndsEarly(s) ==
  /\ bridge[s] = "recv"
  /\ prod[s] = "closed"
  /\ bridge' = [bridge EXCEPT ![s] = "exited"]
  /\ UNCHANGED <<prod, queue, emitted>>

\* Mutation: the bridge returns without closing `out`.
RangeEndsSilently(s) ==
  /\ bridge[s] = "recv"
  /\ queue[s] = 0
  /\ prod[s] = "closed"
  /\ bridge' = [bridge EXCEPT ![s] = "none"]
  /\ UNCHANGED <<prod, queue, emitted>>

\* ... or the drained channel is closed and the deferred close(out) runs.
RangeEnds(s) ==
  /\ bridge[s] = "recv"
  /\ queue[s] = 0
  /\ prod[s] = "closed"
  /\ bridge' = [bridge EXCEPT ![s] = "exited"]
  /\ UNCHANGED <<prod, queue, emitted>>

\* case <-ctx.Done(): the held value is lost and close(out) runs.
Abandon(s) ==
  /\ bridge[s] = "send"
  /\ bridge' = [bridge EXCEPT ![s] = "exited"]
  /\ UNCHANGED <<prod, queue, emitted>>

\* case out <- v: a rendezvous with the consumer's receive.
HandOver(s) ==
  /\ bridge[s] = "send"
  /\ bridge' = [bridge EXCEPT ![s] = "recv"]
  /\ UNCHANGED <<prod, queue, emitted>>

\* The number of the value the bridge took last.
LastRanged(s) == emitted[s] - queue[s]

OutClosed(s) == bridge[s] = "exited"

\* The producer and the bridge have both returned, or never ran.
PipeGone(s) ==
  /\ prod[s] \in {"none", "closed"}
  /\ bridge[s] \in {"none", "exited"}
=============================================================================
