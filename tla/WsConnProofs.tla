---------------------------- MODULE WsConnProofs ----------------------------
(***************************************************************************)
(* Invariants of WsConn, and that it implements the stream of SubStream,   *)
(* for every value of its constants.                                       *)
(***************************************************************************)
EXTENDS WsConn, TLAPS

USE DEF bridgeVars, clientVars, serverVars, restVars

-----------------------------------------------------------------------------
(* Type correctness *)

\* The type invariant is inductive once the bridge is known never to have
\* received more values than the producer sent.
TInv == TypeOK /\ \A g \in Subs : queue[g] <= emitted[g]

\* What a frame of each method carries.
LEMMA FrameTypes ==
  ASSUME NEW f \in Frames
  PROVE  /\ f.method \in {"subscription", "subscription.stop", "other"}
         /\ f.method = "subscription" => f.id \in Ids /\ f.sub \in Subs
         /\ f.method = "subscription.stop" => f.id \in Ids
  BY DEF Frames

\* The first frame and the rest of a nonempty inbox.
LEMMA HeadTail ==
  ASSUME TypeOK, inbox # <<>>
  PROVE  /\ Head(inbox) \in Frames
         /\ Tail(inbox) \in Seq(Frames)
         /\ Len(Tail(inbox)) = Len(inbox) - 1
         /\ \A k \in 1..Len(Tail(inbox)) :
              k + 1 \in 1..Len(inbox) /\ Tail(inbox)[k] = inbox[k + 1]
         /\ 1 \in 1..Len(inbox) /\ Head(inbox) = inbox[1]
  BY DEF TypeOK

\* A connection starts well typed.
LEMMA InitTyped == Init => TInv
<1> SUFFICES ASSUME Init PROVE TInv
  OBVIOUS
<1>1. BridgeTypeOK /\ \A g \in Subs : queue[g] <= emitted[g]
  BY BridgeAssumption DEF Init, BridgeInit, BridgeTypeOK
<1>2. inbox \in Seq(Frames) /\ Len(inbox) <= InboxCap
  BY WsAssumption DEF Init
<1>3. /\ subs \in [Ids -> Subs \cup {None}]
      /\ pc \in [Subs -> {"unused", "sent", "done"} \cup Running]
      /\ sid \in [Subs -> Ids \cup {NoId}]
      /\ panicked \in [Subs -> BOOLEAN] /\ cancelled \in [Subs -> BOOLEAN]
      /\ view \in [Ids -> {"idle", "pending", "open", "ended", "failed", "broken"}]
  BY DEF Init
<1>4. /\ taken \in [Subs -> 0..MaxEvents] /\ got \in [Ids -> 0..MaxEvents]
      /\ late \in [Subs -> Nat]
  BY BridgeAssumption DEF Init
<1>5. /\ loop \in LoopStates /\ target \in Subs \cup {None} /\ stopReq \subseteq Subs
      /\ connDone \in BOOLEAN /\ connOpen \in BOOLEAN /\ stalled \in BOOLEAN
  BY DEF Init, LoopStates
<1> QED BY <1>1, <1>2, <1>3, <1>4, <1>5 DEF TInv, TypeOK

\* The steps of the client keep the types ...
LEMMA ClientTyped == TInv /\ Client => TInv'
<1> SUFFICES ASSUME TInv, Client PROVE TInv'
  OBVIOUS
<1> USE DEF TInv, TypeOK, BridgeTypeOK
<1>0. \A f \in Frames : Submit(f) =>
        inbox' \in Seq(Frames) /\ Len(inbox') <= InboxCap
  BY WsAssumption DEF Submit
<1>1. ASSUME NEW g \in Subs, NEW id \in Ids, ClientStart(g, id) PROVE TInv'
  <2>1. [method |-> "subscription", id |-> id, sub |-> g] \in Frames
    BY DEF Frames
  <2>2. 0 \in 0..MaxEvents
    BY BridgeAssumption
  <2> QED BY <1>0, <1>1, <2>1, <2>2 DEF ClientStart, Submit
<1>2. ASSUME NEW id \in Ids, ClientStop(id) PROVE TInv'
  <2>1. [method |-> "subscription.stop", id |-> id] \in Frames
    BY DEF Frames
  <2> QED BY <1>0, <1>2, <2>1 DEF ClientStop, Submit
<1>3. CASE ClientOther
  <2>1. [method |-> "other"] \in Frames
    BY DEF Frames
  <2> QED BY <1>0, <1>3, <2>1 DEF ClientOther, Submit
<1>4. CASE Stall
  BY <1>4 DEF Stall
<1>5. CASE Disconnect
  BY <1>5 DEF Disconnect
<1> QED BY <1>1, <1>2, <1>3, <1>4, <1>5 DEF Client

\* ... and those of the read loop, ...
LEMMA LoopTyped == TInv /\ Loop => TInv'
<1> SUFFICES ASSUME TInv, Loop PROVE TInv'
  OBVIOUS
<1> USE DEF TInv, TypeOK, BridgeTypeOK, LoopStates, LoopStep
<1>0. ASSUME NEW m, ReadFrame(m)
      PROVE  /\ inbox' \in Seq(Frames) /\ Len(inbox') <= InboxCap
             /\ Head(inbox) \in Frames
  BY <1>0, HeadTail, WsAssumption DEF ReadFrame
<1>1. CASE LoopSpawn
  BY <1>0, <1>1 DEF LoopSpawn, ReadFrame, Running
<1>2. CASE LoopStop
  <2>1. Head(inbox).id \in Ids
    BY <1>0, <1>2, FrameTypes DEF LoopStop, ReadFrame
  <2> QED BY <1>0, <1>2, <2>1 DEF LoopStop, ReadFrame, StartedUnder
<1>3. CASE LoopCancel
  BY <1>3 DEF LoopCancel
<1>4. CASE LoopOther
  BY <1>0, <1>4 DEF LoopOther, ReadFrame
<1>5. CASE LoopReply
  BY <1>5 DEF LoopReply
<1>6. CASE LoopReadError
  BY <1>6 DEF LoopReadError
<1>7. CASE LoopSweep
  BY <1>7 DEF LoopSweep
<1>8. CASE LoopClose
  BY <1>8 DEF LoopClose
<1>9. CASE ServeReturn
  BY <1>9 DEF ServeReturn
<1> QED BY <1>1, <1>2, <1>3, <1>4, <1>5, <1>6, <1>7, <1>8, <1>9 DEF Loop

\* ... of a handler goroutine, ...
LEMMA HandlerTyped == TInv /\ (\E g \in Subs : Handler(g)) => TInv'
<1> SUFFICES ASSUME TInv, NEW g \in Subs, Handler(g) PROVE TInv'
  OBVIOUS
<1> USE DEF TInv, TypeOK, BridgeTypeOK, HandlerStep, Running, Registered
<1>1. ASSUME NEW from, NEW to, Moves(g, from, to),
             to \in {"unused", "sent", "done"} \cup Running
      PROVE  TInv'
  BY <1>1 DEF Moves
<1>a. \A state, frame : Receive(state, frame) \in {"open", "ended", "failed", "broken"}
  BY DEF Receive
<1>b. ASSUME NEW id, NEW frame, Announce(id, frame)
      PROVE  view' \in [Ids -> {"idle", "pending", "open", "ended", "failed", "broken"}]
  BY <1>a, <1>b DEF Announce
<1>2. ASSUME NEW from, NEW frame, NEW to, Writes(g, from, frame, to),
             to \in {"unused", "sent", "done"} \cup Running
      PROVE  TInv'
  BY <1>2, <1>b DEF Writes
<1>3. CASE ParseOk(g)
  BY <1>1, <1>3 DEF ParseOk
<1>4. CASE ParseReject(g)
  BY <1>2, <1>4 DEF ParseReject
<1>5. CASE Register(g)
  BY <1>5 DEF Register
<1>6. CASE CallFails(g)
  BY <1>1, <1>6 DEF CallFails
<1>7. CASE WriteError(g)
  BY <1>2, <1>7 DEF WriteError
<1>8. CASE CallOpens(g)
  BY <1>8 DEF CallOpens, OpenPipe
<1>9. CASE WriteStarted(g)
  BY <1>2, <1>9 DEF WriteStarted
<1>10. CASE Check(g)
  BY <1>1, <1>10 DEF Check
<1>11. CASE WaitEnds(g)
  BY <1>1, <1>11 DEF WaitEnds
<1>12. CASE WaitValue(g)
  <2>1. LastRanged(g) \in 0..MaxEvents
    BY BridgeAssumption DEF LastRanged
  <2> QED BY <1>12, <2>1 DEF WaitValue, HandOver
<1>13. CASE WriteData(g)
  <2>1. got' \in [Ids -> 0..MaxEvents]
    BY <1>13 DEF WriteData
  <2>2. late[g] + 1 \in Nat
    BY SMT
  <2>3. late' \in [Subs -> Nat]
    BY <1>13, <2>2 DEF WriteData
  <2> QED BY <1>13, <1>b, <2>1, <2>3 DEF WriteData
<1>14. CASE SkipData(g)
  BY <1>1, <1>14 DEF SkipData
<1>15. CASE PanicData(g)
  BY <1>15 DEF PanicData
<1>16. CASE WriteStopped(g)
  BY <1>2, <1>16 DEF WriteStopped
<1>17. CASE CancelSelf(g)
  BY <1>17 DEF CancelSelf
<1>18. CASE DeleteSelf(g)
  BY <1>18 DEF DeleteSelf
<1>19. CASE WriteRecovered(g)
  BY <1>2, <1>19 DEF WriteRecovered
<1> QED
  BY <1>3, <1>4, <1>5, <1>6, <1>7, <1>8, <1>9, <1>10, <1>11, <1>12, <1>13,
     <1>14, <1>15, <1>16, <1>17, <1>18, <1>19 DEF Handler

\* A step of a producer or of a bridge.
Pipe(g) == ProducerSends(g) \/ ProducerCloses(g) \/ Bridge(g)

\* ... and of a producer or bridge.
LEMMA PipeTyped == TInv /\ (\E g \in Subs : Pipe(g)) => TInv'
<1> SUFFICES ASSUME TInv, NEW g \in Subs, Pipe(g) PROVE TInv'
  OBVIOUS
<1> USE DEF TInv, TypeOK, BridgeTypeOK
<1>1. CASE ProducerSends(g)
  <2>1. emitted[g] + 1 \in 0..MaxEvents /\ queue[g] + 1 \in 0..ChanCap
    BY <1>1, BridgeAssumption DEF ProducerSends, Produce
  <2>2. emitted' \in [Subs -> 0..MaxEvents] /\ queue' \in [Subs -> 0..ChanCap]
    BY <1>1, <2>1 DEF ProducerSends, Produce
  <2>3. \A h \in Subs : queue'[h] <= emitted'[h]
    BY <1>1, BridgeAssumption DEF ProducerSends, Produce
  <2> QED BY <1>1, <2>2, <2>3 DEF ProducerSends, Produce
<1>2. CASE ProducerCloses(g)
  BY <1>2 DEF ProducerCloses, CloseChan
<1>3. CASE Bridge(g)
  <2>1. CASE RangeNext(g)
    <3>1. queue[g] - 1 \in 0..ChanCap
      BY <2>1, BridgeAssumption DEF RangeNext
    <3>2. queue' \in [Subs -> 0..ChanCap]
      BY <2>1, <3>1 DEF RangeNext
    <3>3. \A h \in Subs : queue'[h] <= emitted'[h]
      BY <2>1, BridgeAssumption DEF RangeNext
    <3> QED BY <1>3, <2>1, <3>2, <3>3 DEF Bridge, RangeNext
  <2>2. CASE RangeEnds(g)
    BY <1>3, <2>2 DEF Bridge, RangeEnds
  <2>3. CASE BridgeAbandons(g)
    BY <1>3, <2>3 DEF Bridge, BridgeAbandons, Abandon
  <2> QED BY <1>3, <2>1, <2>2, <2>3 DEF Bridge
<1> QED BY <1>1, <1>2, <1>3 DEF Pipe

\* The steps of a connection, by who takes them.
LEMMA NextCases ==
  ASSUME [Next]_vars
  PROVE  \/ Client
         \/ Loop
         \/ \E g \in Subs : Handler(g)
         \/ \E g \in Subs : Pipe(g)
         \/ UNCHANGED vars
  BY DEF Next, Server, Pipe, Terminated

\* Types, with no more values queued than were sent.
LEMMA TypedInvariant == Spec => []TInv
<1>1. TInv /\ UNCHANGED vars => TInv'
  BY DEF TInv, TypeOK, BridgeTypeOK, vars
<1>2. TInv /\ [Next]_vars => TInv'
  BY <1>1, NextCases, ClientTyped, LoopTyped, HandlerTyped, PipeTyped
<1> QED BY <1>2, InitTyped, PTL DEF Spec

\* The registry, the pipelines, the client's view and the control of every
\* goroutine stay within their types, queues and inboxes within their bounds.
THEOREM TypeCorrect == Spec => []TypeOK
<1>1. TInv => TypeOK
  BY DEF TInv
<1> QED BY <1>1, TypedInvariant, PTL

-----------------------------------------------------------------------------
(* Start messages in flight *)

\* Every start message in flight belongs to an instance of its own that has
\* no goroutine yet.
InboxInv ==
  /\ \A j \in 1..Len(inbox) : inbox[j].method = "subscription" =>
       pc[inbox[j].sub] = "sent" /\ sid[inbox[j].sub] = inbox[j].id
  /\ \A j, k \in 1..Len(inbox) :
       /\ inbox[j].method = "subscription" /\ inbox[k].method = "subscription"
       /\ inbox[j].sub = inbox[k].sub
       => j = k

Begun == {"check", "wait", "write"} \cup Ending

\* What a step of a handler goroutine may do to the control, whichever it is.
LEMMA HandlerFrame ==
  ASSUME TypeOK, NEW g \in Subs, Handler(g)
  PROVE  /\ UNCHANGED <<inbox, loop, target, sid, connDone, connOpen, stalled, stopReq>>
         /\ pc[g] \in Running
         /\ \A h \in Subs : h # g => pc'[h] = pc[h]
         /\ pc'[g] \notin {"unused", "sent", "parse"}
         /\ pc[g] \in Ending => pc'[g] \in Ending
         /\ pc[g] \in Begun => pc'[g] \in Begun
<1> USE DEF TypeOK, Moves, Writes, HandlerStep, Running, Registered, Ending, Begun
<1>1. CASE ParseOk(g) \/ ParseReject(g) \/ Register(g) \/ CallFails(g)
             \/ WriteError(g) \/ CallOpens(g) \/ WriteStarted(g)
  BY <1>1 DEF ParseOk, ParseReject, Register, CallFails, WriteError, CallOpens,
              WriteStarted
<1>2. CASE Check(g) \/ WaitEnds(g) \/ WaitValue(g) \/ WriteData(g)
             \/ SkipData(g) \/ PanicData(g)
  BY <1>2 DEF Check, WaitEnds, WaitValue, WriteData, SkipData, PanicData
<1>3. CASE WriteStopped(g) \/ CancelSelf(g) \/ DeleteSelf(g) \/ WriteRecovered(g)
  BY <1>3 DEF WriteStopped, CancelSelf, DeleteSelf, WriteRecovered
<1> QED BY <1>1, <1>2, <1>3 DEF Handler

\* A frame appended to the inbox comes last.
LEMMA Appended ==
  ASSUME TypeOK, NEW f \in Frames, Submit(f)
  PROVE  /\ Len(inbox') = Len(inbox) + 1
         /\ \A j \in 1..Len(inbox) : inbox'[j] = inbox[j]
         /\ inbox'[Len(inbox) + 1] = f
  BY DEF TypeOK, Submit

\* A start frame in flight names an instance that was sent, once.
LEMMA InboxInvariant == Spec => []InboxInv
<1>1. Init => InboxInv
  BY DEF Init, InboxInv
<1>2. TInv /\ InboxInv /\ [Next]_vars => InboxInv'
  <2> SUFFICES ASSUME TInv, InboxInv, [Next]_vars PROVE InboxInv'
    OBVIOUS
  <2>0. TypeOK
    BY DEF TInv
  <2>1. CASE Client
    <3>1. ASSUME NEW g \in Subs, NEW id \in Ids, ClientStart(g, id) PROVE InboxInv'
      <4> DEFINE f == [method |-> "subscription", id |-> id, sub |-> g]
      <4>1. f \in Frames
        BY DEF Frames
      <4>2. Submit(f) /\ pc[g] = "unused" /\ pc' = [pc EXCEPT ![g] = "sent"]
              /\ sid' = [sid EXCEPT ![g] = id]
        BY <3>1 DEF ClientStart
      <4>3. pc'[g] = "sent" /\ sid'[g] = id
              /\ \A h \in Subs : h # g => pc'[h] = pc[h] /\ sid'[h] = sid[h]
        BY <2>0, <4>2 DEF TypeOK
      <4>4. \A j \in 1..Len(inbox) : inbox[j] \in Frames
        BY <2>0 DEF TypeOK
      <4>5. f.method = "subscription" /\ f.id = id /\ f.sub = g
        OBVIOUS
      <4> HIDE DEF f
      <4>6. \A j \in 1..Len(inbox) : inbox[j].method = "subscription" =>
              inbox[j].sub \in Subs /\ inbox[j].sub # g
        BY <4>2, <4>4, FrameTypes DEF InboxInv
      <4>7. Len(inbox) \in Nat
        BY <2>0 DEF TypeOK
      <4>8. /\ Len(inbox') = Len(inbox) + 1
            /\ \A j \in 1..Len(inbox) : inbox'[j] = inbox[j]
            /\ inbox'[Len(inbox) + 1] = f
        BY <2>0, <4>1, <4>2, Appended
      <4>9. \A j \in 1..Len(inbox') : j \in 1..Len(inbox) \/ inbox'[j] = f
        BY <4>7, <4>8
      <4>10. ASSUME NEW j \in 1..Len(inbox'), inbox'[j].method = "subscription"
             PROVE  pc'[inbox'[j].sub] = "sent" /\ sid'[inbox'[j].sub] = inbox'[j].id
        BY <4>3, <4>5, <4>6, <4>8, <4>9, <4>10 DEF InboxInv
      <4>11. ASSUME NEW j \in 1..Len(inbox'), NEW k \in 1..Len(inbox'),
                    inbox'[j].method = "subscription", inbox'[k].method = "subscription",
                    inbox'[j].sub = inbox'[k].sub
             PROVE  j = k
        <5>1. \A i \in 1..Len(inbox') : inbox'[i] = f => i = Len(inbox) + 1 \/ inbox[i] = f
          BY <4>7, <4>8
        <5>2. \A i \in 1..Len(inbox') : inbox'[i] = f => i = Len(inbox) + 1
          BY <4>5, <4>6, <4>7, <4>8, <5>1
        <5>3. CASE inbox'[j] = f \/ inbox'[k] = f
          BY <4>5, <4>6, <4>8, <4>9, <4>11, <5>2, <5>3
        <5>4. CASE inbox'[j] # f /\ inbox'[k] # f
          BY <4>8, <4>9, <4>11, <5>4 DEF InboxInv
        <5> QED BY <5>3, <5>4
      <4> QED BY <4>10, <4>11 DEF InboxInv
    <3>2. ASSUME NEW f \in Frames, Submit(f), f.method # "subscription",
                 UNCHANGED <<pc, sid>>
          PROVE  InboxInv'
      <4>1. Len(inbox) \in Nat
        BY <2>0 DEF TypeOK
      <4> QED BY <2>0, <3>2, <4>1, Appended DEF InboxInv
    <3>3. ASSUME NEW id \in Ids, ClientStop(id) PROVE InboxInv'
      <4>1. [method |-> "subscription.stop", id |-> id] \in Frames
        BY DEF Frames
      <4> QED BY <3>2, <3>3, <4>1 DEF ClientStop
    <3>4. CASE ClientOther
      <4>1. [method |-> "other"] \in Frames
        BY DEF Frames
      <4> QED BY <3>2, <3>4, <4>1 DEF ClientOther
    <3>5. CASE Stall \/ Disconnect
      BY <3>5 DEF Stall, Disconnect, InboxInv
    <3> QED BY <2>1, <3>1, <3>3, <3>4, <3>5 DEF Client
  <2>2. CASE Loop
    <3>0. ASSUME inbox # <<>>, inbox' = Tail(inbox)
          PROVE  /\ \A j \in 1..Len(inbox') : j + 1 \in 1..Len(inbox) /\ inbox'[j] = inbox[j + 1]
                 /\ Len(inbox) \in Nat /\ Len(inbox') \in Nat
      BY <2>0, <3>0, HeadTail DEF TypeOK
    <3>1. CASE LoopSpawn
      <4>1. inbox # <<>> /\ inbox' = Tail(inbox) /\ UNCHANGED sid
              /\ Head(inbox).method = "subscription"
              /\ pc' = [pc EXCEPT ![Head(inbox).sub] = "parse"]
        BY <3>1 DEF LoopSpawn, ReadFrame, LoopStep
      <4>2. Head(inbox) = inbox[1] /\ 1 \in 1..Len(inbox)
        BY <2>0, <4>1, HeadTail
      <4>3. \A j \in 1..Len(inbox) : inbox[j].method = "subscription" /\ j # 1 =>
              inbox[j].sub \in Subs /\ inbox[j].sub # Head(inbox).sub
        <5>1. \A j \in 1..Len(inbox) : inbox[j] \in Frames
          BY <2>0 DEF TypeOK
        <5> QED BY <4>1, <4>2, <5>1, FrameTypes DEF InboxInv
      <4>4. \A h \in Subs : h # Head(inbox).sub => pc'[h] = pc[h]
        BY <2>0, <4>1 DEF TypeOK
      <4> QED BY <3>0, <4>1, <4>3, <4>4 DEF InboxInv
    <3>2. CASE LoopStop \/ LoopOther
      <4>1. inbox # <<>> /\ inbox' = Tail(inbox) /\ UNCHANGED <<sid, pc>>
        BY <3>2 DEF LoopStop, LoopOther, ReadFrame, LoopStep
      <4> QED BY <3>0, <4>1 DEF InboxInv
    <3>3. CASE LoopCancel \/ LoopReply \/ LoopReadError \/ LoopSweep
                 \/ LoopClose \/ ServeReturn
      <4>1. UNCHANGED <<inbox, sid, pc>>
        BY <3>3 DEF LoopCancel, LoopReply, LoopReadError, LoopSweep, LoopClose,
                    ServeReturn, LoopStep
      <4> QED BY <4>1 DEF InboxInv
    <3> QED BY <2>2, <3>1, <3>2, <3>3 DEF Loop
  <2>3. ASSUME NEW g \in Subs, Handler(g) PROVE InboxInv'
    <3>1. \A j \in 1..Len(inbox) : inbox[j] \in Frames
      BY <2>0 DEF TypeOK
    <3>2. \A j \in 1..Len(inbox) : inbox[j].method = "subscription" =>
            inbox[j].sub \in Subs /\ inbox[j].sub # g
      BY <2>0, <2>3, <3>1, FrameTypes, HandlerFrame
         DEF InboxInv, Running, Registered
    <3> QED BY <2>0, <2>3, <3>2, HandlerFrame DEF InboxInv
  <2>4. ASSUME NEW g \in Subs, Pipe(g) PROVE InboxInv'
    BY <2>4 DEF Pipe, ProducerSends, ProducerCloses, Bridge, InboxInv
  <2>5. CASE UNCHANGED vars
    BY <2>5 DEF vars, InboxInv
  <2> QED BY <2>1, <2>2, <2>3, <2>4, <2>5, NextCases
<1> QED BY <1>1, <1>2, TypedInvariant, PTL DEF Spec
-----------------------------------------------------------------------------
(* The pipeline of a subscription *)

\* What the client and the read loop do to the control of the instances.
LEMMA ControlFrame ==
  ASSUME TInv, InboxInv, Client \/ Loop
  PROVE  /\ UNCHANGED <<bridgeVars, taken, panicked, late>>
         /\ \A h \in Subs : \/ pc'[h] = pc[h]
                            \/ pc[h] = "unused" /\ pc'[h] = "sent"
                            \/ pc[h] = "sent" /\ pc'[h] = "parse"
<1> USE DEF TInv, TypeOK
<1>1. CASE Client
  BY <1>1 DEF Client, ClientStart, ClientStop, ClientOther, Stall, Disconnect, Submit
<1>2. CASE LoopSpawn
  <2>1. pc[Head(inbox).sub] = "sent"
    BY <1>2, HeadTail DEF LoopSpawn, ReadFrame, InboxInv
  <2> QED BY <1>2, <2>1 DEF LoopSpawn, LoopStep, ReadFrame
<1>3. CASE LoopStop \/ LoopCancel \/ LoopOther \/ LoopReply \/ LoopReadError
             \/ LoopSweep \/ LoopClose \/ ServeReturn
  BY <1>3 DEF LoopStop, LoopCancel, LoopOther, LoopReply, LoopReadError,
              LoopSweep, LoopClose, ServeReturn, LoopStep
<1> QED BY <1>1, <1>2, <1>3 DEF Loop

\* A cancelled context stays cancelled.
LEMMA DoneStays ==
  ASSUME TInv, [Next]_vars, NEW g \in Subs, Done(g)
  PROVE  Done(g)'
<1> USE DEF TInv, TypeOK, Done
<1>1. CASE Client
  BY <1>1 DEF Client, ClientStart, ClientStop, ClientOther, Stall, Disconnect, Submit
<1>2. CASE Loop
  BY <1>2 DEF Loop, LoopSpawn, LoopStop, LoopCancel, LoopOther, LoopReply,
              LoopReadError, LoopSweep, LoopClose, ServeReturn, LoopStep, ReadFrame
<1>3. ASSUME NEW h \in Subs, Handler(h) PROVE Done(g)'
  <2>1. CASE CancelSelf(h)
    BY <2>1 DEF CancelSelf, HandlerStep
  <2>2. CASE ~CancelSelf(h)
    BY <1>3, <2>2
       DEF Handler, ParseOk, ParseReject, Register, CallFails, WriteError, CallOpens,
           WriteStarted, Check, WaitEnds, WaitValue, WriteData, SkipData, PanicData,
           WriteStopped, DeleteSelf, WriteRecovered, Moves, Writes, HandlerStep
  <2> QED BY <2>1, <2>2
<1>4. ASSUME NEW h \in Subs, Pipe(h) PROVE Done(g)'
  BY <1>4 DEF Pipe, ProducerSends, ProducerCloses, Bridge
<1>5. CASE UNCHANGED vars
  BY <1>5 DEF vars
<1> QED BY <1>1, <1>2, <1>3, <1>4, <1>5, NextCases

\* A pipeline exists from the handler's call on; while its context is live, the
\* consumer has every value the bridge took, and the bridge exits only after
\* the last one.
PipeInv ==
  \A g \in Subs :
    /\ pc[g] \in {"unused", "sent", "parse", "register", "call"} => bridge[g] = "none"
    /\ bridge[g] = "none" => prod[g] = "none" /\ emitted[g] = 0 /\ taken[g] = 0
    /\ bridge[g] = "recv" => taken[g] = LastRanged(g)
    /\ bridge[g] = "exited" => \/ HandlerDone(g)
                              \/ /\ prod[g] = "closed" /\ queue[g] = 0
                                 /\ taken[g] = emitted[g]

\* Where the values of a stream that was not cancelled are.
LEMMA PipeInvariant == Spec => []PipeInv
<1>1. Init => PipeInv
  BY DEF Init, BridgeInit, PipeInv
<1>2. TInv /\ InboxInv /\ PipeInv /\ [Next]_vars => PipeInv'
  <2> SUFFICES ASSUME TInv, InboxInv, PipeInv, [Next]_vars PROVE PipeInv'
    OBVIOUS
  <2>0. TypeOK /\ \A g \in Subs : HandlerDone(g) => HandlerDone(g)'
    BY DoneStays DEF TInv, HandlerDone
  <2>1. CASE Client \/ Loop
    BY <2>0, <2>1, ControlFrame DEF PipeInv, LastRanged
  <2>2. ASSUME NEW g \in Subs, Handler(g) PROVE PipeInv'
    <3> USE DEF TypeOK, BridgeTypeOK
    <3>1. CASE CallOpens(g)
      <4>1. taken[g] = 0 /\ emitted[g] = 0 /\ queue[g] = 0
        BY <2>0, <3>1, BridgeAssumption DEF CallOpens, HandlerStep, PipeInv, TInv
      <4> QED BY <2>0, <3>1, <4>1
              DEF CallOpens, OpenPipe, HandlerStep, PipeInv, LastRanged
    <3>2. CASE WaitValue(g)
      BY <2>0, <3>2 DEF WaitValue, HandOver, HandlerStep, PipeInv, LastRanged
    <3>3. CASE ~CallOpens(g) /\ ~WaitValue(g)
      <4>1. UNCHANGED <<bridgeVars, taken>>
        BY <2>2, <3>3
           DEF Handler, ParseOk, ParseReject, Register, CallFails, WriteError,
               WriteStarted, Check, WaitEnds, WriteData, SkipData, PanicData,
               WriteStopped, CancelSelf, DeleteSelf, WriteRecovered, Moves, Writes
      <4>2. pc'[g] \in {"unused", "sent", "parse", "register", "call"}
              => pc[g] \in {"parse", "register"}
        BY <2>0, <2>2
           DEF Handler, ParseOk, ParseReject, Register, CallFails, WriteError,
               CallOpens, WriteStarted, Check, WaitEnds, WaitValue, WriteData,
               SkipData, PanicData, WriteStopped, CancelSelf, DeleteSelf,
               WriteRecovered, Moves, Writes, HandlerStep
      <4> QED BY <2>0, <2>2, <4>1, <4>2, HandlerFrame DEF PipeInv, LastRanged
    <3> QED BY <3>1, <3>2, <3>3
  <2>3. ASSUME NEW g \in Subs, Pipe(g) PROVE PipeInv'
    <3> USE DEF TypeOK, BridgeTypeOK, PipeInv, LastRanged
    <3>1. CASE ProducerSends(g)
      BY <2>0, <3>1, BridgeAssumption DEF ProducerSends, Produce
    <3>2. CASE ProducerCloses(g)
      BY <2>0, <3>2 DEF ProducerCloses, CloseChan
    <3>3. CASE Bridge(g) /\ RangeNext(g)
      BY <2>0, <3>3 DEF Bridge, RangeNext
    <3>4. CASE Bridge(g) /\ RangeEnds(g)
      BY <2>0, <3>4 DEF Bridge, RangeEnds
    <3>5. CASE Bridge(g) /\ BridgeAbandons(g)
      BY <2>0, <3>5 DEF Bridge, BridgeAbandons, Abandon
    <3> QED BY <2>3, <3>1, <3>2, <3>3, <3>4, <3>5 DEF Pipe, Bridge
  <2>4. CASE UNCHANGED vars
    BY <2>0, <2>4 DEF vars, PipeInv, LastRanged
  <2> QED BY <2>1, <2>2, <2>3, <2>4, NextCases
<1> QED BY <1>1, <1>2, TypedInvariant, InboxInvariant, PTL DEF Spec

\* A stream that was not cancelled ends only after its client was given every
\* value: the bridge closes `out` after the last value, never instead of it.
THEOREM UncancelledStreamDrains == Spec => CloseDrains
<1> DEFINE Drains == \A g \in Subs :
              pc[g] = "wait" /\ pc'[g] = "stopping" /\ ~HandlerDone(g)
                => prod[g] = "closed" /\ taken[g] = emitted[g]
<1>1. TInv /\ InboxInv /\ PipeInv /\ [Next]_vars => [Drains]_vars
  <2> SUFFICES ASSUME TInv, InboxInv, PipeInv, [Next]_vars, NEW g \in Subs,
                      pc[g] = "wait", pc'[g] = "stopping", ~HandlerDone(g)
               PROVE  prod[g] = "closed" /\ taken[g] = emitted[g]
    OBVIOUS
  <2>0. TypeOK
    BY DEF TInv
  <2>1. ~(Client \/ Loop)
    BY ControlFrame
  <2>2. ASSUME NEW h \in Subs, Handler(h)
        PROVE  bridge[g] = "exited"
    <3>1. h = g
      BY <2>0, <2>2, HandlerFrame
    <3> QED BY <2>0, <2>2, <3>1
       DEF TypeOK, HandlerDone, OutClosed, Handler, ParseOk, ParseReject, Register,
           CallFails, WriteError, CallOpens, WriteStarted, Check, WaitEnds, WaitValue,
           WriteData, SkipData, PanicData, WriteStopped, CancelSelf, DeleteSelf,
           WriteRecovered, Moves, Writes, HandlerStep
  <2>3. ASSUME NEW h \in Subs, Pipe(h) PROVE FALSE
    BY <2>3 DEF Pipe, ProducerSends, ProducerCloses, Bridge
  <2>4. ~UNCHANGED vars
    BY DEF vars
  <2>5. bridge[g] = "exited"
    BY <2>1, <2>2, <2>3, <2>4, NextCases
  <2> QED BY <2>5 DEF PipeInv
<1>2. Spec => [][Drains]_vars
  BY <1>1, TypedInvariant, InboxInvariant, PipeInvariant, PTL DEF Spec
<1> QED BY <1>2 DEF CloseDrains
-----------------------------------------------------------------------------
(* After a cancellation *)

LateInv ==
  \A g \in Subs :
    late[g] = 0 \/ (late[g] = 1 /\ Done(g) /\ pc[g] \in {"check"} \cup Ending)

\* Where a goroutine stands once it has sent a late value.
LEMMA LateInvariant == Spec => []LateInv
<1>1. Init => LateInv
  BY DEF Init, LateInv
<1>2. TInv /\ InboxInv /\ LateInv /\ [Next]_vars => LateInv'
  <2> SUFFICES ASSUME TInv, InboxInv, LateInv, [Next]_vars PROVE LateInv'
    OBVIOUS
  <2>0. TypeOK /\ \A g \in Subs : Done(g) => Done(g)'
    BY DoneStays DEF TInv
  <2>1. CASE Client \/ Loop
    BY <2>0, <2>1, ControlFrame DEF LateInv, Ending
  <2>2. ASSUME NEW g \in Subs, Handler(g) PROVE LateInv'
    <3>1. CASE WriteData(g)
      <4>1. late[g] = 0
        BY <3>1 DEF WriteData, HandlerStep, LateInv, Ending
      <4> QED BY <2>0, <3>1, <4>1 DEF WriteData, HandlerStep, LateInv, TypeOK, Done
    <3>2. CASE ~WriteData(g)
      <4>1. UNCHANGED late
        BY <2>2, <3>2
           DEF Handler, ParseOk, ParseReject, Register, CallFails, WriteError,
               CallOpens, WriteStarted, Check, WaitEnds, WaitValue, SkipData,
               PanicData, WriteStopped, CancelSelf, DeleteSelf, WriteRecovered,
               Moves, Writes
      <4>2. pc[g] = "check" /\ Done(g) => pc'[g] = "stopping"
        BY <2>0, <2>2
           DEF TypeOK, Handler, ParseOk, ParseReject, Register, CallFails, WriteError,
               CallOpens, WriteStarted, Check, WaitEnds, WaitValue, WriteData,
               SkipData, PanicData, WriteStopped, CancelSelf, DeleteSelf,
               WriteRecovered, Moves, Writes, HandlerStep
      <4> QED BY <2>0, <2>2, <4>1, <4>2, HandlerFrame DEF LateInv, Ending
    <3> QED BY <3>1, <3>2
  <2>3. ASSUME NEW g \in Subs, Pipe(g) PROVE LateInv'
    BY <2>0, <2>3 DEF Pipe, ProducerSends, ProducerCloses, Bridge, LateInv
  <2>4. CASE UNCHANGED vars
    BY <2>0, <2>4 DEF vars, LateInv
  <2> QED BY <2>1, <2>2, <2>3, <2>4, NextCases
<1> QED BY <1>1, <1>2, TypedInvariant, InboxInvariant, PTL DEF Spec

\* Whatever cancels a subscription, at most one more value reaches its client.
THEOREM CancellationPrompt == Spec => []AtMostOneLate
<1>1. ASSUME LateInv, NEW g \in Subs PROVE late[g] <= 1
  <2>1. late[g] = 0 \/ late[g] = 1
    BY <1>1 DEF LateInv
  <2> QED BY <2>1
<1>2. LateInv => AtMostOneLate
  BY <1>1 DEF AtMostOneLate
<1> QED BY <1>2, LateInvariant, PTL

-----------------------------------------------------------------------------
(* The registry, when no id is used twice *)

\* An id that was never used has no instance, and no two instances share one.
IdInv ==
  /\ \A g \in Subs : pc[g] = "unused" <=> sid[g] = NoId
  /\ \A g, h \in Subs : sid[g] = sid[h] /\ sid[g] # NoId => g = h
  /\ \A g \in Subs : sid[g] # NoId => view[sid[g]] # "idle"

\* Without reuse no two instances have one id.
LEMMA IdsDistinct ==
  ASSUME ~Reuse
  PROVE  Spec => []IdInv
<1>1. Init => IdInv
  BY DEF Init, IdInv
<1>2. TInv /\ InboxInv /\ IdInv /\ [Next]_vars => IdInv'
  <2> SUFFICES ASSUME TInv, InboxInv, IdInv, [Next]_vars PROVE IdInv'
    OBVIOUS
  <2>0. TypeOK
    BY DEF TInv
  <2> USE DEF TypeOK, IdInv
  <2>1. CASE Client
    <3>1. ASSUME NEW g \in Subs, NEW id \in Ids, ClientStart(g, id) PROVE IdInv'
      <4>1. /\ view[id] = "idle" /\ pc[g] = "unused"
            /\ pc' = [pc EXCEPT ![g] = "sent"]
            /\ sid' = [sid EXCEPT ![g] = id]
            /\ view' = [view EXCEPT ![id] = "pending"]
        BY <3>1 DEF ClientStart, MayStart
      <4>2. \A h \in Subs : sid[h] # id
        BY <4>1, WsAssumption
      <4> QED BY <2>0, <4>1, <4>2, WsAssumption
    <3>2. CASE ClientOther \/ Stall \/ Disconnect \/ \E id \in Ids : ClientStop(id)
      <4>1. UNCHANGED <<pc, sid, view>>
        BY <3>2 DEF ClientOther, Stall, Disconnect, ClientStop
      <4> QED BY <4>1
    <3> QED BY <2>1, <3>1, <3>2 DEF Client
  <2>2. CASE Loop
    <3>1. UNCHANGED <<sid, view>>
      BY <2>2 DEF Loop, LoopSpawn, LoopStop, LoopCancel, LoopOther, LoopReply,
                  LoopReadError, LoopSweep, LoopClose, ServeReturn, LoopStep
    <3>2. \A h \in Subs : pc[h] = "unused" <=> pc'[h] = "unused"
      <4>1. \A h \in Subs : pc[h] = "unused" => pc'[h] = "unused"
        <5>1. CASE LoopSpawn
          <6>1. pc[Head(inbox).sub] = "sent"
            BY <2>0, <5>1, HeadTail DEF LoopSpawn, ReadFrame, InboxInv
          <6> QED BY <2>0, <5>1, <6>1 DEF LoopSpawn
        <5>2. CASE ~LoopSpawn
          BY <2>2, <5>2 DEF Loop, LoopStop, LoopCancel, LoopOther, LoopReply,
                  LoopReadError, LoopSweep, LoopClose, ServeReturn
        <5> QED BY <5>1, <5>2
      <4> QED BY <2>2, <4>1, ControlFrame
    <3> QED BY <3>1, <3>2
  <2>3. ASSUME NEW g \in Subs, Handler(g) PROVE IdInv'
    <3>0. \A state, frame : Receive(state, frame) # "idle"
      BY DEF Receive
    <3>1. \A id \in Ids : view[id] # "idle" => view'[id] # "idle"
      BY <2>0, <2>3, <3>0
         DEF Handler, ParseOk, ParseReject, Register, CallFails, WriteError,
             CallOpens, WriteStarted, Check, WaitEnds, WaitValue, WriteData,
             SkipData, PanicData, WriteStopped, CancelSelf, DeleteSelf,
             WriteRecovered, Moves, Writes, Announce
    <3>2. /\ sid' = sid /\ pc[g] # "unused" /\ pc'[g] # "unused"
          /\ \A h \in Subs : h # g => pc'[h] = pc[h]
      BY <2>0, <2>3, HandlerFrame DEF Running, Registered
    <3>3. \A h \in Subs : sid[h] # NoId => sid[h] \in Ids
      BY <2>0
    <3> QED BY <3>1, <3>2, <3>3
  <2>4. ASSUME NEW g \in Subs, Pipe(g) PROVE IdInv'
    BY <2>4 DEF Pipe, ProducerSends, ProducerCloses, Bridge
  <2>5. CASE UNCHANGED vars
    BY <2>5 DEF vars
  <2> QED BY <2>1, <2>2, <2>3, <2>4, <2>5, NextCases
<1> QED BY <1>1, <1>2, TypedInvariant, InboxInvariant, PTL DEF Spec
\* As long as no id is used twice, the registry is exact: in particular the
\* deferred delete of one subscription never removes the entry of another.
THEOREM RegistryCorrect ==
  ASSUME ~Reuse
  PROVE  Spec => []RegistryExact
<1>1. Init => RegistryExact
  BY DEF Init, RegistryExact, Registered
<1>2. TInv /\ InboxInv /\ IdInv /\ RegistryExact /\ [Next]_vars => RegistryExact'
  <2> SUFFICES ASSUME TInv, InboxInv, IdInv, RegistryExact, [Next]_vars
               PROVE  RegistryExact'
    OBVIOUS
  <2>0. TypeOK
    BY DEF TInv
  <2>1. ASSUME UNCHANGED subs,
               \A h \in Subs : pc'[h] \in Registered <=> pc[h] \in Registered,
               \A h \in Subs : pc[h] \in Registered => sid'[h] = sid[h],
               loop \in {"close", "return", "done"} => loop' \in {"close", "return", "done"}
        PROVE  RegistryExact'
    <3>1. \A id \in Ids : subs[id] # None => subs[id] \in Subs
      BY <2>0 DEF TypeOK
    <3> QED BY <2>1, <3>1 DEF RegistryExact
  <2>2. CASE Client \/ Loop
    <3>1. \A h \in Subs : pc'[h] \in Registered <=> pc[h] \in Registered
      BY <2>2, ControlFrame DEF Registered
    <3>2. ASSUME NEW g \in Subs, NEW id \in Ids, ClientStart(g, id)
          PROVE  RegistryExact'
      <4>1. UNCHANGED <<loop, subs>> /\ pc[g] \notin Registered
              /\ \A h \in Subs : h # g => sid'[h] = sid[h]
        BY <2>0, <3>2 DEF TypeOK, ClientStart, Submit, Registered
      <4> QED BY <2>1, <3>1, <4>1
    <3>3. CASE ClientOther \/ Stall \/ Disconnect \/ \E id \in Ids : ClientStop(id)
      <4>1. UNCHANGED <<loop, subs, sid>>
        BY <3>3 DEF ClientOther, ClientStop, Stall, Disconnect, Submit
      <4> QED BY <2>1, <3>1, <4>1
    <3>4. CASE LoopSweep
      BY <3>4 DEF LoopSweep, LoopStep, RegistryExact
    <3>5. CASE Loop /\ ~LoopSweep
      <4>1. /\ UNCHANGED <<sid, subs>>
            /\ loop \in {"close", "return", "done"} => loop' \in {"return", "done"}
        BY <3>5 DEF Loop, LoopSpawn, LoopStop, LoopCancel, LoopOther, LoopReply,
                  LoopReadError, LoopClose, ServeReturn, LoopStep, ReadFrame
      <4> QED BY <2>1, <3>1, <4>1
    <3> QED BY <2>2, <3>2, <3>3, <3>4, <3>5 DEF Client
  <2>3. ASSUME NEW g \in Subs, Handler(g) PROVE RegistryExact'
    <3>0. /\ UNCHANGED <<loop, sid>> /\ pc[g] # "unused"
          /\ \A h \in Subs : h # g => pc'[h] = pc[h]
      BY <2>0, <2>3, HandlerFrame DEF Running, Registered
    <3>00. /\ sid[g] \in Ids
           /\ \A h \in Subs : h # g => sid[h] # sid[g]
      BY <2>0, <3>0, WsAssumption DEF IdInv, TypeOK
    <3>1. CASE Register(g)
      <4>1. subs' = [subs EXCEPT ![sid[g]] = g] /\ pc'[g] = "call"
        BY <2>0, <3>1 DEF Register, HandlerStep, TypeOK
      <4>2. pc'[g] \in Registered /\ subs'[sid[g]] = g
        BY <2>0, <3>00, <4>1 DEF TypeOK, Registered
      <4>3. ASSUME NEW h \in Subs, h # g, pc'[h] \in Registered
            PROVE  subs'[sid[h]] = subs[sid[h]] /\ pc[h] \in Registered
        BY <2>0, <3>0, <3>00, <4>1, <4>3 DEF TypeOK
      <4>4. ASSUME NEW id \in Ids, id # sid[g], subs'[id] # None
            PROVE  subs'[id] = subs[id] /\ subs[id] \in Subs
        BY <2>0, <4>1, <4>4 DEF TypeOK
      <4> QED BY <3>0, <4>2, <4>3, <4>4 DEF RegistryExact
    <3>2. CASE DeleteSelf(g)
      <4>1. subs' = [subs EXCEPT ![sid[g]] = None] /\ pc'[g] \in {"recover", "done"}
        BY <2>0, <3>2 DEF DeleteSelf, HandlerStep, TypeOK
      <4>2. pc'[g] \notin Registered
        BY <4>1 DEF Registered
      <4>3. \A id \in Ids : id # sid[g] /\ subs[id] # None => subs[id] \in Subs \ {g}
        BY <2>0, <3>0 DEF TypeOK, RegistryExact
      <4>4. ASSUME NEW id \in Ids, subs'[id] # None
            PROVE  /\ id # sid[g] /\ subs'[id] = subs[id]
                   /\ pc'[subs[id]] \in Registered /\ sid[subs[id]] = id
        BY <2>0, <3>0, <4>1, <4>3, <4>4 DEF TypeOK, RegistryExact
      <4>5. ASSUME NEW h \in Subs, pc'[h] \in Registered
            PROVE  h # g /\ subs'[sid[h]] = subs[sid[h]] /\ pc[h] \in Registered
        BY <2>0, <3>0, <3>00, <4>1, <4>2, <4>5 DEF TypeOK
      <4> QED BY <3>0, <4>4, <4>5 DEF RegistryExact
    <3>3. CASE ~Register(g) /\ ~DeleteSelf(g)
      <4>1. UNCHANGED subs /\ (pc[g] \in Registered <=> pc'[g] \in Registered)
        BY <2>0, <2>3, <3>3
           DEF TypeOK, Handler, ParseOk, ParseReject, CallFails, WriteError, CallOpens,
               WriteStarted, Check, WaitEnds, WaitValue, WriteData, SkipData,
               PanicData, WriteStopped, CancelSelf, WriteRecovered, Moves, Writes,
               HandlerStep, Registered
      <4> QED BY <2>1, <3>0, <4>1
    <3> QED BY <3>1, <3>2, <3>3
  <2>4. ASSUME NEW g \in Subs, Pipe(g) PROVE RegistryExact'
    BY <2>1, <2>4 DEF Pipe, ProducerSends, ProducerCloses, Bridge
  <2>5. CASE UNCHANGED vars
    BY <2>1, <2>5 DEF vars
  <2> QED BY <2>2, <2>3, <2>4, <2>5, NextCases
<1> QED BY <1>1, <1>2, TypedInvariant, InboxInvariant, IdsDistinct, PTL DEF Spec

-----------------------------------------------------------------------------
(* Stop messages, when the client waits for "started" *)

\* An open stream, and a stop message in flight, have an instance that has
\* sent "started".
BegunInv ==
  /\ \A id \in Ids : view[id] = "open" =>
       \E g \in Subs : sid[g] = id /\ pc[g] \in Begun
  /\ \A j \in 1..Len(inbox) : inbox[j].method = "subscription.stop" =>
       \E g \in Subs : sid[g] = inbox[j].id /\ pc[g] \in Begun

\* An instance that began to stream goes on to its end.
LEMMA BegunStays ==
  ASSUME TInv, InboxInv, [Next]_vars, NEW g \in Subs, pc[g] \in Begun
  PROVE  pc'[g] \in Begun /\ sid'[g] = sid[g]
<1>0. TypeOK /\ pc[g] \notin {"unused", "sent"}
  BY DEF TInv, Begun, Ending
<1>1. CASE Client
  BY <1>0, <1>1, ControlFrame
     DEF TypeOK, Client, ClientStart, ClientStop, ClientOther, Stall, Disconnect
<1>2. CASE Loop
  <2>1. UNCHANGED sid
    BY <1>2 DEF Loop, LoopSpawn, LoopStop, LoopCancel, LoopOther, LoopReply,
                LoopReadError, LoopSweep, LoopClose, ServeReturn, LoopStep
  <2> QED BY <1>0, <1>2, <2>1, ControlFrame
<1>3. ASSUME NEW h \in Subs, Handler(h) PROVE pc'[g] \in Begun /\ sid'[g] = sid[g]
  BY <1>0, <1>3, HandlerFrame
<1>4. ASSUME NEW h \in Subs, Pipe(h) PROVE UNCHANGED <<pc, sid>>
  BY <1>4 DEF Pipe, ProducerSends, ProducerCloses, Bridge
<1>5. CASE UNCHANGED vars
  BY <1>5 DEF vars
<1> QED BY <1>1, <1>2, <1>3, <1>4, <1>5, NextCases

\* The client saw "started" only from an instance that had registered.
LEMMA BegunInvariant ==
  ASSUME Patient
  PROVE  Spec => []BegunInv
<1>1. Init => BegunInv
  BY DEF Init, BegunInv
<1>2. TInv /\ InboxInv /\ BegunInv /\ [Next]_vars => BegunInv'
  <2> SUFFICES ASSUME TInv, InboxInv, BegunInv, [Next]_vars PROVE BegunInv'
    OBVIOUS
  <2>0. TypeOK /\ Len(inbox) \in Nat
    BY DEF TInv, TypeOK
  <2>1. \A id : (\E g \in Subs : sid[g] = id /\ pc[g] \in Begun)
                => \E g \in Subs : sid'[g] = id /\ pc'[g] \in Begun
    BY BegunStays
  <2> HIDE DEF Begun
  <2>2. \A id \in Ids : view'[id] = "open" =>
          \E g \in Subs : sid'[g] = id /\ pc'[g] \in Begun
    <3>1. ASSUME \A id \in Ids : view'[id] = "open" => view[id] = "open" PROVE <2>2
      BY <2>1, <3>1 DEF BegunInv
    <3>2. CASE Client
      BY <2>0, <3>1, <3>2 DEF TypeOK, Client, ClientStart, ClientStop, ClientOther,
                              Stall, Disconnect
    <3>3. CASE Loop
      BY <3>1, <3>3 DEF Loop, LoopSpawn, LoopStop, LoopCancel, LoopOther, LoopReply,
                LoopReadError, LoopSweep, LoopClose, ServeReturn, LoopStep
    <3>4. ASSUME NEW g \in Subs, Handler(g) PROVE <2>2
      <4>1. CASE WriteStarted(g)
        <5>1. pc'[g] \in Begun /\ sid'[g] = sid[g]
          BY <2>0, <4>1 DEF WriteStarted, Writes, HandlerStep, TypeOK, Begun
        <5>2. \A id \in Ids : id # sid[g] /\ view'[id] = "open" => view[id] = "open"
          BY <2>0, <4>1 DEF WriteStarted, Writes, Announce, TypeOK
        <5> QED BY <2>1, <5>1, <5>2 DEF BegunInv
      <4>2. CASE ~WriteStarted(g)
        <5>1. \A state, frame : frame # "started" /\ Receive(state, frame) = "open"
                                 => state = "open"
          BY DEF Receive
        <5> QED BY <2>0, <3>1, <3>4, <4>2, <5>1
           DEF TypeOK, Handler, ParseOk, ParseReject, Register, CallFails, WriteError,
               CallOpens, Check, WaitEnds, WaitValue, WriteData, SkipData,
               PanicData, WriteStopped, CancelSelf, DeleteSelf,
               WriteRecovered, Moves, Writes, Announce
      <4> QED BY <4>1, <4>2
    <3>5. ASSUME NEW g \in Subs, Pipe(g) PROVE <2>2
      BY <3>1, <3>5 DEF Pipe, ProducerSends, ProducerCloses, Bridge
    <3>6. CASE UNCHANGED vars
      BY <3>1, <3>6 DEF vars
    <3> QED BY <3>2, <3>3, <3>4, <3>5, <3>6, NextCases
  <2>3. \A j \in 1..Len(inbox') : inbox'[j].method = "subscription.stop" =>
          \E g \in Subs : sid'[g] = inbox'[j].id /\ pc'[g] \in Begun
    <3>1. ASSUME UNCHANGED inbox PROVE <2>3
      BY <2>1, <3>1 DEF BegunInv
    <3>2. ASSUME NEW f \in Frames, Submit(f),
                 f.method = "subscription.stop" =>
                   \E g \in Subs : sid[g] = f.id /\ pc[g] \in Begun
          PROVE  <2>3
      <4>1. ASSUME NEW j \in 1..Len(inbox')
            PROVE  (j \in 1..Len(inbox) /\ inbox'[j] = inbox[j]) \/ inbox'[j] = f
        BY <2>0, <3>2, Appended
      <4>2. ASSUME NEW j \in 1..Len(inbox), inbox[j].method = "subscription.stop"
            PROVE  \E g \in Subs : sid'[g] = inbox[j].id /\ pc'[g] \in Begun
        BY <2>1, <4>2 DEF BegunInv
      <4>3. f.method = "subscription.stop" =>
              \E g \in Subs : sid'[g] = f.id /\ pc'[g] \in Begun
        BY <2>1, <3>2
      <4> QED BY <4>1, <4>2, <4>3
    <3>3. ASSUME NEW g \in Subs, NEW id \in Ids, ClientStart(g, id) PROVE <2>3
      <4>1. [method |-> "subscription", id |-> id, sub |-> g] \in Frames
        BY DEF Frames
      <4> QED BY <3>2, <3>3, <4>1 DEF ClientStart
    <3>4. ASSUME NEW id \in Ids, ClientStop(id) PROVE <2>3
      <4>1. [method |-> "subscription.stop", id |-> id] \in Frames
        BY DEF Frames
      <4>2. view[id] = "open"
        BY <3>4 DEF ClientStop, MayStop
      <4> QED BY <3>2, <3>4, <4>1, <4>2 DEF ClientStop, BegunInv
    <3>5. CASE ClientOther
      <4>1. [method |-> "other"] \in Frames
        BY DEF Frames
      <4> QED BY <3>2, <3>5, <4>1 DEF ClientOther
    <3>6. CASE Stall \/ Disconnect
      BY <3>1, <3>6 DEF Stall, Disconnect
    <3>7. CASE Loop
      <4>1. UNCHANGED inbox \/ (inbox # <<>> /\ inbox' = Tail(inbox))
        BY <3>7 DEF Loop, LoopSpawn, LoopStop, LoopCancel, LoopOther, LoopReply,
                LoopReadError, LoopSweep, LoopClose, ServeReturn, ReadFrame
      <4>2. CASE inbox # <<>> /\ inbox' = Tail(inbox)
        BY <2>0, <2>1, <4>2, HeadTail DEF BegunInv
      <4> QED BY <3>1, <4>1, <4>2
    <3>8. ASSUME NEW g \in Subs, Handler(g) PROVE <2>3
      BY <2>0, <3>1, <3>8, HandlerFrame
    <3>9. ASSUME NEW g \in Subs, Pipe(g) PROVE <2>3
      BY <3>1, <3>9 DEF Pipe, ProducerSends, ProducerCloses, Bridge
    <3>10. CASE UNCHANGED vars
      BY <3>1, <3>10 DEF vars
    <3> QED
      BY <3>3, <3>4, <3>5, <3>6, <3>7, <3>8, <3>9, <3>10, NextCases DEF Client
  <2> QED BY <2>2, <2>3 DEF BegunInv
<1> QED BY <1>1, <1>2, TypedInvariant, InboxInvariant, PTL DEF Spec

\* A client that waits for "started" and does not use an id twice has every
\* subscription it stops cancelled, however the stop races with the end of the
\* stream, with other subscriptions and with the registry.
THEOREM StopsAreHeeded ==
  ASSUME Patient, ~Reuse
  PROVE  Spec => []StopCancels
<1>1. Init => StopCancels
  BY DEF Init, StopCancels
<1>2. TInv /\ InboxInv /\ IdInv /\ RegistryExact /\ BegunInv
        /\ StopCancels /\ [Next]_vars => StopCancels'
  <2> SUFFICES ASSUME TInv, InboxInv, IdInv, RegistryExact, BegunInv,
                      StopCancels, [Next]_vars
               PROVE  StopCancels'
    OBVIOUS
  <2>0. TypeOK /\ \A g \in Subs : Done(g) => Done(g)'
    BY DoneStays DEF TInv
  <2> USE DEF StopCancels, TypeOK
  <2>1. CASE Client
    <3>1. UNCHANGED <<loop, target, stopReq>>
      BY <2>1 DEF Client, ClientStart, ClientStop, ClientOther, Stall, Disconnect,
                  Submit
    <3> QED BY <2>0, <2>1, <3>1, ControlFrame DEF Ending
  <2>2. CASE Loop
    <3>0. \A g \in Subs : pc[g] \in Ending => pc'[g] \in Ending
      BY <2>2, ControlFrame DEF Ending
    <3>1. CASE LoopStop
      <4> DEFINE id == Head(inbox).id
      <4>1. /\ id \in Ids /\ Head(inbox) = inbox[1] /\ 1 \in 1..Len(inbox)
            /\ inbox[1].method = "subscription.stop"
        BY <2>0, <3>1, HeadTail, FrameTypes DEF LoopStop, ReadFrame
      <4>2. PICK g0 \in Subs : sid[g0] = id /\ pc[g0] \in Begun
        BY <4>1 DEF BegunInv
      <4>3. /\ loop = "read" /\ target' = subs[id] /\ UNCHANGED pc
            /\ subs[id] # None => loop' = "cancel"
            /\ stopReq' = stopReq \cup StartedUnder(id)
        BY <3>1 DEF LoopStop, LoopStep
      <4>4. \A g \in StartedUnder(id) : g = g0
        BY <4>1, <4>2, WsAssumption DEF StartedUnder, IdInv
      <4>5. pc[g0] \in Ending \/ (loop' = "cancel" /\ target' = g0)
        BY <4>2, <4>3, WsAssumption DEF RegistryExact, Registered, Begun
      <4>6. ASSUME NEW g \in stopReq
            PROVE  Done(g)' \/ pc'[g] \in Ending
        BY <2>0, <4>3, <4>6
      <4> QED BY <4>3, <4>4, <4>5, <4>6
    <3>2. CASE LoopCancel
      BY <2>0, <3>0, <3>2 DEF LoopCancel, LoopStep, Done
    <3>3. CASE ~LoopStop /\ ~LoopCancel
      <4>1. loop # "cancel" /\ UNCHANGED stopReq
        BY <2>2, <3>3 DEF Loop, LoopSpawn, LoopOther, LoopReply, LoopReadError,
                  LoopSweep, LoopClose, ServeReturn, LoopStep
      <4> QED BY <2>0, <3>0, <4>1
    <3> QED BY <3>1, <3>2, <3>3
  <2>3. ASSUME NEW g \in Subs, Handler(g) PROVE StopCancels'
    <3>1. UNCHANGED <<loop, target, stopReq>>
      BY <2>0, <2>3, HandlerFrame
    <3>2. \A h \in Subs : pc[h] \in Ending => pc'[h] \in Ending
      BY <2>0, <2>3, HandlerFrame
    <3> QED BY <2>0, <3>1, <3>2
  <2>4. ASSUME NEW g \in Subs, Pipe(g) PROVE StopCancels'
    BY <2>0, <2>4 DEF Pipe, ProducerSends, ProducerCloses, Bridge
  <2>5. CASE UNCHANGED vars
    BY <2>0, <2>5 DEF vars
  <2> QED BY <2>1, <2>2, <2>3, <2>4, <2>5, NextCases
<1> QED
  BY <1>1, <1>2, TypedInvariant, InboxInvariant, IdsDistinct, RegistryCorrect,
     BegunInvariant, PTL DEF Spec
-----------------------------------------------------------------------------
(***************************************************************************)
(* A WebSocket connection implements the abstract stream of SubStream      *)
(* under every request id, as long as clients use an id once.              *)
(*                                                                         *)
(* The refinement mapping is the client's own view, so what has to be      *)
(* shown is that the server's control and the client's view agree while    *)
(* the connection is open, and that values only move forward.              *)
(***************************************************************************)

\* The value in the bridge's hands is newer than the last one handed over.
ForwardInv == \A g \in Subs : bridge[g] = "send" => taken[g] < LastRanged(g)

\* Only ranging puts a value in the bridge's hands, and it is the next one.
LEMMA ForwardInvariant == Spec => []ForwardInv
<1>1. Init => ForwardInv
  BY DEF Init, BridgeInit, ForwardInv
<1>2. TInv /\ InboxInv /\ PipeInv /\ ForwardInv /\ [Next]_vars => ForwardInv'
  <2> SUFFICES ASSUME TInv, InboxInv, PipeInv, ForwardInv, [Next]_vars
               PROVE  ForwardInv'
    OBVIOUS
  <2>0. TypeOK
    BY DEF TInv
  <2> USE DEF TypeOK, BridgeTypeOK, ForwardInv, LastRanged
  <2>1. CASE Client \/ Loop
    BY <2>1, ControlFrame
  <2>2. ASSUME NEW g \in Subs, Handler(g) PROVE ForwardInv'
    <3>1. CASE CallOpens(g)
      BY <2>0, <3>1 DEF CallOpens, OpenPipe, HandlerStep
    <3>2. CASE WaitValue(g)
      BY <2>0, <3>2 DEF WaitValue, HandOver, HandlerStep
    <3>3. CASE ~CallOpens(g) /\ ~WaitValue(g)
      <4>1. UNCHANGED <<bridgeVars, taken>>
        BY <2>2, <3>3
           DEF Handler, ParseOk, ParseReject, Register, CallFails, WriteError,
               WriteStarted, Check, WaitEnds, WriteData, SkipData, PanicData,
               WriteStopped, CancelSelf, DeleteSelf, WriteRecovered, Moves, Writes
      <4> QED BY <4>1 DEF bridgeVars
    <3> QED BY <3>1, <3>2, <3>3
  <2>3. ASSUME NEW g \in Subs, Pipe(g) PROVE ForwardInv'
    <3>1. CASE ProducerSends(g)
      BY <2>0, <3>1, BridgeAssumption DEF ProducerSends, Produce, restVars
    <3>2. CASE ProducerCloses(g)
      BY <2>0, <3>2 DEF ProducerCloses, CloseChan, restVars
    <3>3. CASE Bridge(g) /\ RangeNext(g)
      BY <2>0, <3>3, BridgeAssumption DEF Bridge, RangeNext, restVars, PipeInv
    <3>4. CASE Bridge(g) /\ RangeEnds(g)
      BY <2>0, <3>4 DEF Bridge, RangeEnds, restVars
    <3>5. CASE Bridge(g) /\ BridgeAbandons(g)
      BY <2>0, <3>5 DEF Bridge, BridgeAbandons, Abandon, restVars
    <3> QED BY <2>3, <3>1, <3>2, <3>3, <3>4, <3>5 DEF Pipe, Bridge
  <2>4. CASE UNCHANGED vars
    BY <2>4 DEF vars, bridgeVars
  <2> QED BY <2>1, <2>2, <2>3, <2>4, NextCases
<1> QED BY <1>1, <1>2, TypedInvariant, InboxInvariant, PipeInvariant, PTL DEF Spec

-----------------------------------------------------------------------------
(* What the client knows of a running goroutine *)

\* A goroutine panics over a value only, and recovers only from a panic.
PanicInv ==
  \A g \in Subs : /\ panicked[g] => pc[g] \in Ending
                  /\ pc[g] = "recover" => panicked[g]

\* Before a value is in hand nothing has panicked.
LEMMA PanicInvariant == Spec => []PanicInv
<1>1. Init => PanicInv
  BY DEF Init, PanicInv
<1>2. TInv /\ InboxInv /\ PanicInv /\ [Next]_vars => PanicInv'
  <2> SUFFICES ASSUME TInv, InboxInv, PanicInv, [Next]_vars PROVE PanicInv'
    OBVIOUS
  <2>0. TypeOK
    BY DEF TInv
  <2>1. CASE Client \/ Loop
    <3>1. UNCHANGED panicked
      BY <2>1, ControlFrame
    <3>2. \A h \in Subs : pc'[h] = pc[h] \/ (pc[h] \notin Ending /\ pc'[h] # "recover")
      BY <2>1, ControlFrame DEF Ending
    <3> QED BY <3>1, <3>2 DEF PanicInv
  <2>2. ASSUME NEW g \in Subs, Handler(g) PROVE PanicInv'
    <3>1. \A h \in Subs : h # g => pc'[h] = pc[h]
      BY <2>0, <2>2, HandlerFrame
    <3>2. CASE PanicData(g)
      <4>1. pc'[g] = "stopping" /\ panicked'[g]
              /\ \A h \in Subs : h # g => panicked'[h] = panicked[h]
        BY <2>0, <3>2 DEF PanicData, HandlerStep, TypeOK
      <4> QED BY <3>1, <4>1 DEF PanicInv, Ending
    <3>3. CASE DeleteSelf(g)
      <4>1. /\ UNCHANGED panicked
            /\ pc'[g] = IF panicked[g] THEN "recover" ELSE "done"
        BY <2>0, <3>3 DEF DeleteSelf, HandlerStep, TypeOK
      <4> QED BY <3>1, <4>1 DEF PanicInv, Ending
    <3>4. CASE ~PanicData(g) /\ ~DeleteSelf(g)
      <4>1. UNCHANGED panicked /\ pc'[g] # "recover"
        BY <2>0, <2>2, <3>4
           DEF Handler, ParseOk, ParseReject, Register, CallFails, WriteError,
               CallOpens, WriteStarted, Check, WaitEnds, WaitValue, WriteData,
               SkipData, WriteStopped, CancelSelf, WriteRecovered, Moves, Writes,
               HandlerStep, TypeOK
      <4>2. pc[g] \in Ending => pc'[g] \in Ending
        BY <2>0, <2>2, HandlerFrame
      <4> QED BY <3>1, <4>1, <4>2 DEF PanicInv
    <3> QED BY <3>2, <3>3, <3>4
  <2>3. ASSUME NEW g \in Subs, Pipe(g) PROVE PanicInv'
    BY <2>3 DEF Pipe, ProducerSends, ProducerCloses, Bridge, PanicInv
  <2>4. CASE UNCHANGED vars
    BY <2>4 DEF vars, PanicInv
  <2> QED BY <2>1, <2>2, <2>3, <2>4, NextCases
<1> QED BY <1>1, <1>2, TypedInvariant, InboxInvariant, PTL DEF Spec

Unanswered == {"sent", "parse", "register", "call", "fail", "starting"}
Open == {"check", "wait", "write", "stopping"}

\* The view v that fits a goroutine which is at `at`: a stream it ended can
\* still turn into a failed one while its panic has not been reported.
Fits(v, at, panics) ==
  IF at \in Unanswered THEN v = "pending"
  ELSE IF at \in Open THEN v = "open"
  ELSE v = "ended" \/ (v = "failed" /\ (panics => at = "done"))

\* While the connection is open, the client's view of an id is the position of
\* the goroutine that serves it, and it never has a newer value than that.
ViewInv ==
  connOpen =>
    \A g \in Subs : sid[g] # NoId =>
      /\ Fits(view[sid[g]], pc[g], panicked[g])
      /\ got[sid[g]] <= taken[g]
      /\ pc[g] = "write" => got[sid[g]] < taken[g]

\* A position the client cannot tell from another fits the same views.
LEMMA SameFit ==
  ASSUME NEW v, NEW at, NEW to, NEW p, NEW q, Fits(v, at, p),
         \/ at \in Unanswered /\ to \in Unanswered
         \/ at \in Open /\ to \in Open
         \/ /\ at \notin Unanswered \cup Open /\ to \notin Unanswered \cup Open
            /\ q => p /\ (at = "done" => to = "done")
  PROVE  Fits(v, to, q)
BY DEF Fits, Unanswered, Open

\* A step of another goroutine, or none: what it must leave alone.
LEMMA ViewFrame ==
  ASSUME ViewInv, UNCHANGED <<sid, view, got, taken, panicked>>, connOpen' => connOpen,
         \A g \in Subs : sid[g] # NoId =>
           pc'[g] = pc[g] \/ (pc[g] = "sent" /\ pc'[g] = "parse")
  PROVE  ViewInv'
<1>1. ASSUME NEW g \in Subs, sid[g] # NoId, connOpen
      PROVE  Fits(view[sid[g]], pc'[g], panicked[g]) /\ (pc'[g] = "write" => pc[g] = "write")
  BY <1>1 DEF ViewInv, Fits, Unanswered
<1> QED BY <1>1 DEF ViewInv

\* A handler goroutine tells its client every change of position that matters.
LEMMA HandlerView ==
  ASSUME TInv, IdInv, PanicInv, ForwardInv, ViewInv, NEW g \in Subs, Handler(g)
  PROVE  ViewInv'
<1>0. TypeOK /\ UNCHANGED <<sid, connOpen>> /\ \A h \in Subs : h # g => pc'[h] = pc[h]
  BY HandlerFrame DEF TInv
<1>a. pc[g] \in Running
  BY <1>0, HandlerFrame
<1>b. pc[g] # "unused" /\ sid[g] \in Ids \cup {NoId}
  BY <1>0, <1>a DEF Running, Registered, TypeOK
<1> USE DEF TypeOK
<1>1. sid[g] \in Ids /\ sid[g] # NoId
  BY <1>b DEF IdInv
<1>2. \A h \in Subs : h # g /\ sid[h] # NoId => sid[h] # sid[g] /\ sid[h] \in Ids
  BY <1>0, <1>1 DEF IdInv
<1>4. SUFFICES ASSUME connOpen PROVE ViewInv'
  BY <1>0 DEF ViewInv
<1>5. Fits(view[sid[g]], pc[g], panicked[g]) /\ got[sid[g]] <= taken[g]
        /\ (pc[g] = "write" => got[sid[g]] < taken[g])
  BY <1>1, <1>4 DEF ViewInv
\* Writes of control frames: the client is told of the new position.
<1>6. ASSUME NEW frame, NEW from, NEW to, Writes(g, from, frame, to), to # "write",
             Fits(Receive(view[sid[g]], frame), to, panicked[g])
      PROVE  ViewInv'
  <2>1. pc'[g] = to /\ view' = [view EXCEPT ![sid[g]] = Receive(@, frame)]
          /\ UNCHANGED <<got, taken, panicked>>
    BY <1>0, <1>4, <1>6 DEF Writes, HandlerStep, Announce
  <2>2. Fits(view'[sid[g]], pc'[g], panicked[g])
    BY <1>0, <1>1, <1>6, <2>1
  <2>3. \A h \in Subs : h # g /\ sid[h] # NoId => view'[sid[h]] = view[sid[h]]
    BY <1>0, <1>2, <2>1
  <2> QED BY <1>0, <1>2, <1>4, <1>5, <1>6, <2>1, <2>2, <2>3 DEF ViewInv
\* Silent moves stay within a position the client cannot tell apart.
<1>7. ASSUME UNCHANGED <<view, got, taken>>,
             \A h \in Subs : h # g => panicked'[h] = panicked[h],
             Fits(view[sid[g]], pc'[g], panicked'[g]), pc'[g] # "write"
      PROVE  ViewInv'
  BY <1>0, <1>2, <1>4, <1>5, <1>7 DEF ViewInv
<1>8. CASE ParseReject(g) \/ WriteError(g) \/ WriteStarted(g) \/ WriteStopped(g)
             \/ WriteRecovered(g)
  <2>1. CASE ParseReject(g) \/ WriteError(g)
    <3>1. view[sid[g]] = "pending" /\ ~panicked[g]
      BY <1>5, <2>1 DEF ParseReject, WriteError, Writes, HandlerStep, Fits,
                        Unanswered, PanicInv, Ending
    <3>2. Fits(Receive(view[sid[g]], "error"), "done", panicked[g])
            /\ Fits(Receive(view[sid[g]], "error"), "cancel", panicked[g])
      BY <3>1 DEF Receive, Fits, Unanswered, Open
    <3> QED BY <1>6, <2>1, <3>2 DEF ParseReject, WriteError
  <2>2. CASE WriteStarted(g)
    <3>1. view[sid[g]] = "pending"
      BY <1>5, <2>2 DEF WriteStarted, Writes, HandlerStep, Fits, Unanswered
    <3>2. Fits(Receive(view[sid[g]], "started"), "check", panicked[g])
      BY <3>1 DEF Receive, Fits, Unanswered, Open
    <3> QED BY <1>6, <2>2, <3>2 DEF WriteStarted
  <2>3. CASE WriteStopped(g)
    <3>1. view[sid[g]] = "open"
      BY <1>5, <2>3 DEF WriteStopped, Writes, HandlerStep, Fits, Unanswered, Open
    <3>2. Fits(Receive(view[sid[g]], "stopped"), "cancel", panicked[g])
      BY <3>1 DEF Receive, Fits, Unanswered, Open
    <3> QED BY <1>6, <2>3, <3>2 DEF WriteStopped
  <2>4. CASE WriteRecovered(g)
    <3>1. view[sid[g]] = "ended"
      BY <1>5, <2>4 DEF WriteRecovered, Writes, HandlerStep, Fits, Unanswered,
                        Open, PanicInv
    <3>2. Fits(Receive(view[sid[g]], "error"), "done", panicked[g])
      BY <3>1 DEF Receive, Fits, Unanswered, Open
    <3> QED BY <1>6, <2>4, <3>2 DEF WriteRecovered
  <2> QED BY <1>8, <2>1, <2>2, <2>3, <2>4
<1>9. CASE ParseOk(g) \/ Register(g) \/ CallFails(g) \/ CallOpens(g) \/ Check(g)
             \/ WaitEnds(g) \/ SkipData(g) \/ PanicData(g) \/ CancelSelf(g) \/ DeleteSelf(g)
  <2>1. UNCHANGED <<view, got, taken>>
          /\ \A h \in Subs : h # g => panicked'[h] = panicked[h]
    BY <1>0, <1>9
       DEF ParseOk, Register, CallFails, CallOpens, Check, WaitEnds, SkipData,
           PanicData, CancelSelf, DeleteSelf, Moves, clientVars
  <2>2. CASE CancelSelf(g) \/ DeleteSelf(g)
    <3>1. pc[g] \in {"cancel", "delete"} /\ UNCHANGED panicked
            /\ pc'[g] \in {"delete", "recover", "done"}
      BY <1>0, <2>2 DEF CancelSelf, DeleteSelf, HandlerStep
    <3>2. Fits(view[sid[g]], pc'[g], panicked[g])
      BY <1>5, <3>1, SameFit DEF Unanswered, Open
    <3> QED BY <1>7, <2>1, <3>1, <3>2
  <2>3. CASE ~CancelSelf(g) /\ ~DeleteSelf(g)
    <3>1. pc'[g] # "write" /\ (\/ pc[g] \in Unanswered /\ pc'[g] \in Unanswered
                               \/ pc[g] \in Open /\ pc'[g] \in Open)
      BY <1>0, <1>9, <2>3
         DEF ParseOk, Register, CallFails, CallOpens, Check, WaitEnds, SkipData,
             PanicData, Moves, HandlerStep, Unanswered, Open
    <3>2. Fits(view[sid[g]], pc'[g], panicked'[g])
      BY <1>5, <3>1, SameFit
    <3> QED BY <1>7, <2>1, <3>1, <3>2
  <2> QED BY <2>2, <2>3
<1>10. CASE WaitValue(g)
  <2>1. /\ pc[g] = "wait" /\ pc'[g] = "write" /\ UNCHANGED <<view, got, panicked>>
        /\ bridge[g] = "send"
        /\ taken'[g] = LastRanged(g) /\ \A h \in Subs : h # g => taken'[h] = taken[h]
    BY <1>0, <1>10 DEF WaitValue, HandOver, HandlerStep, clientVars
  <2>2. taken[g] < LastRanged(g) /\ taken[g] \in Nat /\ got[sid[g]] \in Nat
          /\ LastRanged(g) \in Nat
    BY <1>0, <1>1, <2>1, BridgeAssumption DEF ForwardInv, BridgeTypeOK, LastRanged, TInv
  <2>3. got'[sid[g]] < taken'[g] /\ got'[sid[g]] <= taken'[g]
    BY <1>5, <2>1, <2>2
  <2>4. Fits(view[sid[g]], pc'[g], panicked[g])
    BY <1>5, <2>1, SameFit DEF Open
  <2> QED BY <1>0, <1>2, <1>4, <1>5, <2>1, <2>3, <2>4 DEF ViewInv
<1>11. CASE WriteData(g)
  <2>1. /\ pc[g] = "write" /\ pc'[g] = "check" /\ UNCHANGED <<taken, panicked>>
        /\ got'[sid[g]] = taken[g]
        /\ \A h \in Subs : h # g /\ sid[h] # NoId => got'[sid[h]] = got[sid[h]]
    BY <1>0, <1>1, <1>2, <1>4, <1>11 DEF WriteData, HandlerStep
  <2>2. view[sid[g]] = "open" /\ got[sid[g]] < taken[g]
    BY <1>5, <2>1 DEF Fits, Unanswered, Open
  <2>3. UNCHANGED view
    BY <1>0, <1>1, <1>4, <1>11, <2>2 DEF WriteData, Announce, Receive
  <2>4. Fits(view[sid[g]], pc'[g], panicked[g]) /\ taken[g] <= taken[g]
    BY <1>0, <1>5, <2>1, SameFit, BridgeAssumption DEF Open
  <2> QED BY <1>0, <1>2, <1>4, <1>5, <2>1, <2>3, <2>4 DEF ViewInv
<1> QED BY <1>8, <1>9, <1>10, <1>11 DEF Handler

\* The client's view agrees with the server.
LEMMA ViewInvariant ==
  ASSUME ~Reuse
  PROVE  Spec => []ViewInv
<1>1. Init => ViewInv
  BY DEF Init, ViewInv
<1>2. TInv /\ InboxInv /\ IdInv /\ PanicInv /\ ForwardInv /\ ViewInv /\ [Next]_vars
        => ViewInv'
  <2> SUFFICES ASSUME TInv, InboxInv, IdInv, PanicInv, ForwardInv, ViewInv,
                      [Next]_vars
               PROVE  ViewInv'
    OBVIOUS
  <2>0. TypeOK
    BY DEF TInv
  <2>1. CASE Client
    <3>1. ASSUME NEW g \in Subs, NEW id \in Ids, ClientStart(g, id) PROVE ViewInv'
      <4>1. /\ view[id] = "idle" /\ pc[g] = "unused"
            /\ pc' = [pc EXCEPT ![g] = "sent"] /\ sid' = [sid EXCEPT ![g] = id]
            /\ view' = [view EXCEPT ![id] = "pending"] /\ got' = [got EXCEPT ![id] = 0]
            /\ UNCHANGED <<taken, panicked, connOpen>>
        BY <3>1 DEF ClientStart, MayStart, Submit, serverVars
      <4>2. \A h \in Subs : sid[h] # id
        BY <4>1, WsAssumption DEF IdInv
      <4>3. /\ sid'[g] = id /\ view'[id] = "pending" /\ got'[id] = 0 /\ pc'[g] = "sent"
            /\ \A h \in Subs : h # g => sid'[h] = sid[h] /\ pc'[h] = pc[h]
            /\ \A h \in Subs : sid[h] # NoId => view'[sid[h]] = view[sid[h]]
                                                 /\ got'[sid[h]] = got[sid[h]]
        BY <2>0, <4>1, <4>2 DEF TypeOK
      <4>4. Fits("pending", "sent", panicked[g]) /\ 0 <= taken[g]
        BY <2>0, BridgeAssumption DEF Fits, Unanswered, TypeOK
      <4> QED BY <4>1, <4>3, <4>4 DEF ViewInv
    <3>2. CASE ClientOther \/ Stall \/ Disconnect \/ \E id \in Ids : ClientStop(id)
      <4>1. UNCHANGED <<pc, sid, view, got, taken, panicked>> /\ (connOpen' => connOpen)
        BY <3>2 DEF ClientOther, Stall, Disconnect, ClientStop, Submit, serverVars, clientVars
      <4> QED BY <4>1, ViewFrame
    <3> QED BY <2>1, <3>1, <3>2 DEF Client
  <2>2. CASE Loop
    <3>1. UNCHANGED <<sid, view, got, taken, panicked>> /\ (connOpen' => connOpen)
      BY <2>2 DEF Loop, LoopSpawn, LoopStop, LoopCancel, LoopOther, LoopReply,
                  LoopReadError, LoopSweep, LoopClose, ServeReturn, LoopStep,
                  ReadFrame, clientVars
    <3>2. ASSUME NEW h \in Subs, sid[h] # NoId
          PROVE  pc'[h] = pc[h] \/ (pc[h] = "sent" /\ pc'[h] = "parse")
      <4>1. pc[h] # "unused"
        BY <3>2 DEF IdInv
      <4> QED BY <2>2, <4>1, ControlFrame
    <3> QED BY <3>1, <3>2, ViewFrame
  <2>3. ASSUME NEW g \in Subs, Handler(g) PROVE ViewInv'
    BY <2>3, HandlerView
  <2>4. ASSUME NEW g \in Subs, Pipe(g) PROVE ViewInv'
    <3>1. UNCHANGED <<pc, sid, view, got, taken, panicked, connOpen>>
      BY <2>4 DEF Pipe, ProducerSends, ProducerCloses, Bridge, restVars
    <3> QED BY <3>1, ViewFrame
  <2>5. CASE UNCHANGED vars
    <3>1. UNCHANGED <<pc, sid, view, got, taken, panicked, connOpen>>
      BY <2>5 DEF vars
    <3> QED BY <3>1, ViewFrame
  <2> QED BY <2>1, <2>2, <2>3, <2>4, <2>5, NextCases
<1> QED BY <1>1, <1>2, TypedInvariant, InboxInvariant, IdsDistinct, PanicInvariant,
           ForwardInvariant, PTL DEF Spec

-----------------------------------------------------------------------------
(* The refinement *)

\* A step of a handler goroutine is a step of its stream, or the client does
\* not see it.
LEMMA HandlerRefines ==
  ASSUME TInv, IdInv, PanicInv, ViewInv, NEW g \in Subs, Handler(g)
  PROVE  Stream!StreamNext \/ UNCHANGED <<view, got>>
<1>0. TypeOK
  BY DEF TInv
<1>a. pc[g] \in Running
  BY <1>0, HandlerFrame
<1>b. pc[g] # "unused" /\ sid[g] \in Ids \cup {NoId}
  BY <1>0, <1>a DEF Running, Registered, TypeOK
<1>1. sid[g] \in Ids /\ sid[g] # NoId
  BY <1>b DEF IdInv
<1>2. CASE ~connOpen
  BY <1>2 DEF Handler, ParseOk, ParseReject, Register, CallFails, WriteError,
              CallOpens, WriteStarted, Check, WaitEnds, WaitValue, WriteData,
              SkipData, PanicData, WriteStopped, CancelSelf, DeleteSelf,
              WriteRecovered, Moves, Writes, Announce, clientVars
<1>3. CASE connOpen
  <2>1. Fits(view[sid[g]], pc[g], panicked[g]) /\ (pc[g] = "write" => got[sid[g]] < taken[g])
    BY <1>1, <1>3 DEF ViewInv
  <2>2. CASE ParseReject(g) \/ WriteError(g)
    <3>1. view[sid[g]] = "pending"
      BY <2>1, <2>2 DEF ParseReject, WriteError, Writes, HandlerStep, Fits, Unanswered
    <3>2. Stream!Refuse(sid[g])
      BY <1>3, <2>2, <3>1
         DEF ParseReject, WriteError, Writes, Announce, Receive, Stream!Refuse,
             Stream!Becomes
    <3> QED BY <1>1, <3>2 DEF Stream!StreamNext
  <2>3. CASE WriteStarted(g)
    <3>1. view[sid[g]] = "pending"
      BY <2>1, <2>3 DEF WriteStarted, Writes, HandlerStep, Fits, Unanswered
    <3>2. Stream!Open(sid[g])
      BY <1>3, <2>3, <3>1
         DEF WriteStarted, Writes, Announce, Receive, Stream!Open, Stream!Becomes
    <3> QED BY <1>1, <3>2 DEF Stream!StreamNext
  <2>4. CASE WriteData(g)
    <3>1. view[sid[g]] = "open" /\ got[sid[g]] < taken[g]
      BY <2>1, <2>4 DEF WriteData, HandlerStep, Fits, Unanswered, Open
    <3>2. taken[g] \in got[sid[g]] + 1 .. MaxEvents
      BY <1>0, <1>1, <3>1, BridgeAssumption DEF TypeOK
    <3>3. UNCHANGED view
      BY <1>0, <1>1, <1>3, <2>4, <3>1 DEF WriteData, Announce, Receive, TypeOK
    <3>4. Stream!Deliver(sid[g])
      BY <1>3, <2>4, <3>1, <3>2, <3>3 DEF WriteData, Stream!Deliver
    <3> QED BY <1>1, <3>4 DEF Stream!StreamNext
  <2>5. CASE WriteStopped(g)
    <3>1. view[sid[g]] = "open"
      BY <2>1, <2>5 DEF WriteStopped, Writes, HandlerStep, Fits, Unanswered, Open
    <3>2. Stream!End(sid[g])
      BY <1>3, <2>5, <3>1
         DEF WriteStopped, Writes, Announce, Receive, Stream!End, Stream!Becomes
    <3> QED BY <1>1, <3>2 DEF Stream!StreamNext
  <2>6. CASE WriteRecovered(g)
    <3>1. view[sid[g]] = "ended"
      BY <2>1, <2>6 DEF WriteRecovered, Writes, HandlerStep, Fits, Unanswered, Open,
                        PanicInv
    <3>2. Stream!Fail(sid[g])
      BY <1>3, <2>6, <3>1
         DEF WriteRecovered, Writes, Announce, Receive, Stream!Fail, Stream!Becomes
    <3> QED BY <1>1, <3>2 DEF Stream!StreamNext
  <2>7. CASE ~(ParseReject(g) \/ WriteError(g) \/ WriteStarted(g) \/ WriteData(g)
                 \/ WriteStopped(g) \/ WriteRecovered(g))
    BY <2>7 DEF Handler, ParseOk, Register, CallFails, CallOpens, Check, WaitEnds,
                WaitValue, SkipData, PanicData, CancelSelf, DeleteSelf, Moves, clientVars
  <2> QED BY <2>2, <2>3, <2>4, <2>5, <2>6, <2>7
<1> QED BY <1>2, <1>3

\* Every connection whose client does not reuse ids keeps the contract of
\* SubStream for each of them: one answer, values in order and never twice, one
\* end, and nothing afterwards but the one error frame of a panic.
THEOREM ImplementsStream ==
  ASSUME ~Reuse
  PROVE  Spec => StreamContract
<1>1. Init => Stream!StreamInit
  BY DEF Init, Stream!StreamInit
<1>2. TInv /\ InboxInv /\ IdInv /\ PanicInv /\ ViewInv /\ [Next]_vars
        => [Stream!StreamNext]_<<view, got>>
  <2> SUFFICES ASSUME TInv, InboxInv, IdInv, PanicInv, ViewInv, [Next]_vars
               PROVE  Stream!StreamNext \/ UNCHANGED <<view, got>>
    OBVIOUS
  <2>1. CASE Client
    <3>1. ASSUME NEW g \in Subs, NEW id \in Ids, ClientStart(g, id)
          PROVE  Stream!StreamNext
      <4>1. Stream!Ask(id)
        BY <3>1 DEF ClientStart, MayStart, Stream!Ask
      <4> QED BY <4>1 DEF Stream!StreamNext
    <3>2. CASE ClientOther \/ Stall \/ Disconnect \/ \E id \in Ids : ClientStop(id)
      BY <3>2 DEF ClientOther, Stall, Disconnect, ClientStop, clientVars
    <3> QED BY <2>1, <3>1, <3>2 DEF Client
  <2>2. CASE Loop
    BY <2>2 DEF Loop, LoopSpawn, LoopStop, LoopCancel, LoopOther, LoopReply,
                LoopReadError, LoopSweep, LoopClose, ServeReturn, LoopStep, clientVars
  <2>3. ASSUME NEW g \in Subs, Handler(g)
        PROVE  Stream!StreamNext \/ UNCHANGED <<view, got>>
    BY <2>3, HandlerRefines
  <2>4. ASSUME NEW g \in Subs, Pipe(g) PROVE UNCHANGED <<view, got>>
    BY <2>4 DEF Pipe, ProducerSends, ProducerCloses, Bridge, restVars
  <2>5. CASE UNCHANGED vars
    BY <2>5 DEF vars
  <2> QED BY <2>1, <2>2, <2>3, <2>4, <2>5, NextCases
<1> QED BY <1>1, <1>2, TypedInvariant, InboxInvariant, IdsDistinct, PanicInvariant, ViewInvariant,
           PTL DEF Spec, StreamContract, Stream!StreamSpec, Stream!streamVars
=============================================================================
