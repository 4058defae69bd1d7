--------------------------- MODULE SseConnProofs ---------------------------
(***************************************************************************)
(* An EventSource and its requests: what it has received, and that its     *)
(* stream is one stream of SubStream whatever the number of reconnections, *)
(* for any log and any requests.                                           *)
(*                                                                         *)
(* From below: the pipeline of each request is where its handler says it   *)
(* is; the handler is a known distance behind its bridge; what the client  *)
(* has received follows.                                                   *)
(***************************************************************************)
EXTENDS SseConn, TLAPS

USE DEF bridgeVars, reqVars, clientVars

-----------------------------------------------------------------------------
(* Types, and the pipeline of a request *)

\* A pipeline holds no more than was sent, sends no more than the log has
\* after its base, and is not there before the handler returned its channel.
Fits(g) ==
  /\ queue[g] <= emitted[g]
  /\ bridge[g] = "send" => queue[g] < emitted[g]
  /\ base[g] + emitted[g] <= MaxEvents
  /\ pc[g] \in {"unused", "call"} =>
       /\ prod[g] = "none" /\ bridge[g] = "none"
       /\ queue[g] = 0 /\ emitted[g] = 0 /\ taken[g] = 0

PipeInv == \A g \in Subs : Fits(g)

TInv == TypeOK /\ PipeInv

\* No request has been made.
LEMMA InitTyped == Init => TInv
<1> SUFFICES ASSUME Init PROVE TInv
  OBVIOUS
<1>1. 0 \in 0..MaxEvents /\ 0 \in 0..ChanCap
  BY BridgeAssumption
<1>2. BridgeTypeOK
  BY <1>1 DEF Init, BridgeInit, BridgeTypeOK
<1>3. /\ pc \in [Subs -> {"unused", "call", "exit", "done"} \cup Streaming]
      /\ base \in [Subs -> 0..MaxEvents] /\ taken \in [Subs -> 0..MaxEvents]
      /\ up \in [Subs -> BOOLEAN] /\ ctxDone \in [Subs -> BOOLEAN]
      /\ seen \in [Events -> Nat]
  BY <1>1 DEF Init
<1>4. ASSUME NEW g \in Subs PROVE Fits(g)
  <2>1. /\ queue[g] = 0 /\ emitted[g] = 0 /\ base[g] = 0 /\ taken[g] = 0
        /\ prod[g] = "none" /\ bridge[g] = "none"
    BY DEF Init, BridgeInit
  <2> QED BY <2>1, BridgeAssumption DEF Fits
<1> QED BY <1>1, <1>2, <1>3, <1>4 DEF Init, TInv, TypeOK, PipeInv

\* The steps of the client and the network.
Outside == Close \/ \E g \in Subs : Connect(g) \/ Cut(g) \/ NoticeGone(g)

\* Every step is one of the outside, a handler's or a pipeline's.
LEMMA NextCases ==
  ASSUME [Next]_vars
  PROVE  \/ Outside
         \/ \E g \in Subs : Handler(g)
         \/ \E g \in Subs : Pipe(g)
         \/ UNCHANGED vars
BY DEF Next, Outside, Terminated

\* A new request resumes from an id of the log.
LEMMA OutsideTyped == TInv /\ Outside => TInv'
<1> SUFFICES ASSUME TInv, Outside PROVE TInv'
  OBVIOUS
<1> USE DEF TInv, TypeOK, BridgeTypeOK
<1>1. ASSUME NEW g \in Subs, Connect(g) PROVE TInv'
  <2>1. TypeOK'
    BY <1>1 DEF Connect, GetLastEventID, Streaming
  <2>2. ASSUME NEW h \in Subs PROVE Fits(h)'
    <3>1. CASE h = g
      BY <1>1, <3>1, BridgeAssumption DEF Connect, GetLastEventID, PipeInv, Fits
    <3>2. CASE h # g
      BY <1>1, <3>2 DEF Connect, PipeInv, Fits
    <3> QED BY <3>1, <3>2
  <2> QED BY <2>1, <2>2 DEF PipeInv
<1>2. ASSUME NEW g \in Subs, Cut(g) PROVE TInv'
  BY <1>2 DEF Cut, PipeInv, Fits
<1>3. ASSUME NEW g \in Subs, NoticeGone(g) PROVE TInv'
  BY <1>3 DEF NoticeGone, PipeInv, Fits
<1>4. CASE Close
  BY <1>4 DEF Close, PipeInv, Fits
<1> QED BY <1>1, <1>2, <1>3, <1>4 DEF Outside

\* A handler's event is one of the log.
LEMMA HandlerTyped ==
  ASSUME TInv, NEW g \in Subs, Handler(g)
  PROVE  TInv'
<1> USE DEF TInv, TypeOK, BridgeTypeOK
<1>1. CASE CallOpens(g)
  BY <1>1 DEF CallOpens, OpenPipe, Goto, Streaming, PipeInv, Fits
<1>2. CASE SelectValue(g)
  <2>1. /\ bridge[g] = "send" /\ base[g] \in Nat /\ emitted[g] \in Nat /\ queue[g] \in Nat
        /\ MaxEvents \in Nat
    BY <1>2, BridgeAssumption DEF SelectValue, HandOver
  <2>2. base[g] + LastRanged(g) \in 0..MaxEvents
    BY <2>1 DEF LastRanged, PipeInv, Fits
  <2>3. TypeOK'
    BY <1>2, <2>2 DEF SelectValue, HandOver, Goto, Streaming
  <2>4. PipeInv'
    BY <1>2 DEF SelectValue, HandOver, Goto, PipeInv, Fits
  <2> QED BY <2>3, <2>4
<1>3. CASE WriteEvent(g)
  <2>1. TypeOK'
    BY <1>3 DEF WriteEvent, Goto, Streaming, Events
  <2>2. PipeInv'
    BY <1>3 DEF WriteEvent, Goto, PipeInv, Fits
  <2> QED BY <2>1, <2>2
<1>4. CASE Reject(g) \/ WriteConnected(g) \/ SelectDone(g) \/ SelectClosed(g) \/ SkipEvent(g)
             \/ WriteReturn(g) \/ WriteFails(g) \/ Exit(g)
  <2>1. TypeOK'
    BY <1>4 DEF Reject, WriteConnected, SelectDone, SelectClosed, SkipEvent, WriteReturn,
                WriteFails, Exit, Goto, Streaming
  <2>2. PipeInv'
    BY <1>4 DEF Reject, WriteConnected, SelectDone, SelectClosed, SkipEvent, WriteReturn,
                WriteFails, Exit, Goto, PipeInv, Fits
  <2> QED BY <2>1, <2>2
<1> QED BY <1>1, <1>2, <1>3, <1>4 DEF Handler

\* A producer stops at the end of the log.
LEMMA PipeTyped ==
  ASSUME TInv, NEW g \in Subs, Pipe(g)
  PROVE  TInv'
<1> USE DEF TInv, TypeOK, BridgeTypeOK
<1>0. /\ base[g] \in Nat /\ emitted[g] \in Nat /\ queue[g] \in Nat /\ MaxEvents \in Nat
      /\ ChanCap \in Nat
  BY BridgeAssumption
<1>1. CASE ProducerSends(g)
  BY <1>0, <1>1 DEF Pipe, ProducerSends, Produce, PipeInv, Fits
<1>2. CASE ProducerCloses(g)
  BY <1>2 DEF Pipe, ProducerCloses, CloseChan, PipeInv, Fits
<1>3. CASE RangeNext(g)
  BY <1>0, <1>3 DEF Pipe, RangeNext, PipeInv, Fits
<1>4. CASE RangeEnds(g) \/ BridgeAbandons(g)
  BY <1>4 DEF Pipe, RangeEnds, BridgeAbandons, Abandon, PipeInv, Fits
<1> QED BY <1>1, <1>2, <1>3, <1>4 DEF Pipe

\* Requests, their pipelines and the EventSource stay well typed.
LEMMA TypedInvariant == Spec => []TInv
<1>1. TInv /\ [Next]_vars => TInv'
  <2> SUFFICES ASSUME TInv, [Next]_vars PROVE TInv'
    OBVIOUS
  <2>1. CASE UNCHANGED vars
    BY <2>1 DEF vars, TInv, TypeOK, BridgeTypeOK, PipeInv, Fits
  <2> QED BY <2>1, NextCases, OutsideTyped, HandlerTyped, PipeTyped
<1> QED BY <1>1, InitTyped, PTL DEF Spec

\* Every reachable state of a client and its requests is well typed, for any
\* log, any number of requests and any channel.
THEOREM TypeCorrect == Spec => []TypeOK
BY TypedInvariant, PTL DEF TInv

-----------------------------------------------------------------------------
(* Where a handler is in the log *)

\* The last event the handler has received, the base when there is none.
Pos(g) == IF taken[g] = 0 THEN base[g] ELSE taken[g]

\* The handler is behind its bridge by the value the bridge holds.  While the
\* context of the procedure lives, only the end of the log closes the channel,
\* and the handler leaves its loop for the end of the stream only then.
Place(g) ==
  /\ bridge[g] = "recv" => Pos(g) = base[g] + LastRanged(g)
  /\ bridge[g] = "send" => Pos(g) + 1 = base[g] + LastRanged(g)
  /\ bridge[g] = "exited" /\ ~HandlerDone(g) => Pos(g) = MaxEvents
  /\ prod[g] = "closed" /\ ~HandlerDone(g) => base[g] + emitted[g] = MaxEvents
  /\ taken[g] # 0 => taken[g] > base[g]
  /\ pc[g] = "write" => taken[g] # 0
  /\ pc[g] = "return" => bridge[g] = "exited"
  /\ up[g] => ~ctxDone[g]
  /\ pc[g] = "unused" => ~up[g] /\ ~ctxDone[g]

PlaceInv == \A g \in Subs : Place(g)

\* The numbers of a request.
LEMMA Numbers ==
  ASSUME TInv, NEW g \in Subs
  PROVE  /\ base[g] \in Nat /\ taken[g] \in Nat /\ emitted[g] \in Nat
         /\ queue[g] \in Nat /\ MaxEvents \in Nat /\ ChanCap \in Nat
         /\ base[g] <= MaxEvents /\ taken[g] <= MaxEvents
         /\ queue[g] <= emitted[g]
         /\ Fits(g)
BY BridgeAssumption DEF TInv, TypeOK, BridgeTypeOK, PipeInv, Fits

\* A new request starts at its base; a lost one stays where it is.
LEMMA OutsidePlaced == TInv /\ PlaceInv /\ Outside => PlaceInv'
<1> SUFFICES ASSUME TInv, PlaceInv, Outside PROVE PlaceInv'
  OBVIOUS
<1>0. TypeOK
  BY DEF TInv
<1> USE DEF TypeOK, BridgeTypeOK, PlaceInv, Place, Pos, LastRanged, HandlerDone
<1>1. ASSUME NEW g \in Subs, Connect(g) PROVE PlaceInv'
  <2>1. /\ pc[g] = "unused" /\ pc'[g] = "call" /\ up'[g] /\ UNCHANGED <<bridgeVars, taken, ctxDone>>
        /\ \A h \in Subs : h # g => pc'[h] = pc[h] /\ up'[h] = up[h] /\ base'[h] = base[h]
    BY <1>0, <1>1 DEF Connect
  <2>2. prod[g] = "none" /\ bridge[g] = "none" /\ taken[g] = 0
    BY <2>1, Numbers DEF Fits
  <2>3. ASSUME NEW h \in Subs PROVE Place(h)'
    <3>1. CASE h = g
      BY <2>1, <2>2, <3>1
    <3>2. CASE h # g
      BY <2>1, <3>2
    <3> QED BY <3>1, <3>2
  <2> QED BY <2>3
<1>2. ASSUME NEW g \in Subs, Cut(g) PROVE PlaceInv'
  BY <1>0, <1>2 DEF Cut
<1>3. ASSUME NEW g \in Subs, NoticeGone(g) PROVE PlaceInv'
  BY <1>0, <1>3 DEF NoticeGone, Streaming
<1>4. CASE Close
  BY <1>0, <1>4 DEF Close
<1> QED BY <1>1, <1>2, <1>3, <1>4 DEF Outside

\* A handler moves on by taking the value its bridge holds.
LEMMA HandlerPlaced ==
  ASSUME TInv, PlaceInv, NEW g \in Subs, Handler(g)
  PROVE  PlaceInv'
<1>0. TypeOK
  BY DEF TInv
<1> USE DEF TypeOK, BridgeTypeOK, PlaceInv, Place, Pos, LastRanged, HandlerDone
<1>1. CASE CallOpens(g)
  <2>1. /\ pc[g] = "call" /\ pc'[g] = "connected" /\ prod'[g] = "open" /\ bridge'[g] = "recv"
        /\ UNCHANGED <<base, taken, up, ctxDone, queue, emitted>>
        /\ \A h \in Subs : h # g => pc'[h] = pc[h] /\ prod'[h] = prod[h] /\ bridge'[h] = bridge[h]
    BY <1>0, <1>1 DEF CallOpens, OpenPipe, Goto
  <2>2. queue[g] = 0 /\ emitted[g] = 0 /\ taken[g] = 0 /\ base[g] \in Nat
    BY <2>1, Numbers DEF Fits
  <2>3. ASSUME NEW h \in Subs PROVE Place(h)'
    <3>1. CASE h = g
      BY <2>1, <2>2, <3>1
    <3>2. CASE h # g
      BY <2>1, <3>2
    <3> QED BY <3>1, <3>2
  <2> QED BY <2>3
<1>2. CASE SelectValue(g)
  <2>1. /\ pc[g] = "select" /\ pc'[g] = "write" /\ bridge[g] = "send" /\ bridge'[g] = "recv"
        /\ taken'[g] = base[g] + LastRanged(g)
        /\ UNCHANGED <<base, up, ctxDone, prod, queue, emitted>>
        /\ \A h \in Subs : h # g => pc'[h] = pc[h] /\ taken'[h] = taken[h] /\ bridge'[h] = bridge[h]
    BY <1>0, <1>2 DEF SelectValue, HandOver, Goto
  <2>2. queue[g] < emitted[g] /\ taken'[g] # 0 /\ taken'[g] > base[g]
    BY <2>1, Numbers DEF Fits
  <2>3. ASSUME NEW h \in Subs PROVE Place(h)'
    <3>1. CASE h = g
      BY <2>1, <2>2, <3>1, Numbers
    <3>2. CASE h # g
      BY <2>1, <3>2
    <3> QED BY <3>1, <3>2
  <2> QED BY <2>3
<1>3. CASE SelectClosed(g)
  BY <1>0, <1>3 DEF SelectClosed, OutClosed, Goto
<1>4. CASE Exit(g)
  BY <1>0, <1>4 DEF Exit, Goto
<1>5. CASE Reject(g) \/ WriteConnected(g) \/ SelectDone(g) \/ WriteEvent(g) \/ SkipEvent(g)
             \/ WriteReturn(g) \/ WriteFails(g)
  <2>1. /\ UNCHANGED <<bridgeVars, base, taken, up, ctxDone>>
        /\ pc'[g] \notin {"unused", "write", "return"}
        /\ \A h \in Subs : h # g => pc'[h] = pc[h]
    BY <1>0, <1>5 DEF Reject, WriteConnected, SelectDone, WriteEvent, SkipEvent, WriteReturn,
                      WriteFails, Goto
  <2> QED BY <2>1
<1> QED BY <1>1, <1>2, <1>3, <1>4, <1>5 DEF Handler

\* The bridge moves on by ranging; the log's end is what closes the channel.
LEMMA PipePlaced ==
  ASSUME TInv, PlaceInv, NEW g \in Subs, Pipe(g)
  PROVE  PlaceInv'
<1>0. TypeOK /\ UNCHANGED <<reqVars, clientVars>>
  BY DEF TInv, Pipe
<1>a. /\ base[g] \in Nat /\ taken[g] \in Nat /\ emitted[g] \in Nat
      /\ queue[g] \in Nat /\ MaxEvents \in Nat /\ queue[g] <= emitted[g]
  BY Numbers
<1> USE DEF TypeOK, BridgeTypeOK, PlaceInv, Place, Pos, LastRanged, HandlerDone
<1>1. CASE ProducerSends(g)
  BY <1>0, <1>a, <1>1 DEF ProducerSends, Produce
<1>2. CASE ProducerCloses(g)
  BY <1>0, <1>a, <1>2 DEF ProducerCloses, CloseChan
<1>3. CASE RangeNext(g)
  BY <1>0, <1>a, <1>3 DEF RangeNext
<1>4. CASE RangeEnds(g)
  BY <1>0, <1>a, <1>4 DEF RangeEnds
<1>5. CASE BridgeAbandons(g)
  BY <1>0, <1>a, <1>5 DEF BridgeAbandons, Abandon
<1> QED BY <1>1, <1>2, <1>3, <1>4, <1>5 DEF Pipe

LEMMA PlaceInvariant == Spec => []PlaceInv
<1>1. Init => PlaceInv
  BY DEF Init, BridgeInit, PlaceInv, Place, Pos, LastRanged, HandlerDone
<1>2. TInv /\ PlaceInv /\ [Next]_vars => PlaceInv'
  <2> SUFFICES ASSUME TInv, PlaceInv, [Next]_vars PROVE PlaceInv'
    OBVIOUS
  <2>1. CASE UNCHANGED vars
    BY <2>1 DEF vars, PlaceInv, Place, Pos, LastRanged, HandlerDone
  <2> QED BY <2>1, NextCases, OutsidePlaced, HandlerPlaced, PipePlaced
<1> QED BY <1>1, <1>2, TypedInvariant, PTL DEF Spec
-----------------------------------------------------------------------------
(***************************************************************************)
(* What an EventSource has received across its reconnections: each event   *)
(* of a tracked stream once, and the whole log when it is told not to      *)
(* reconnect; and that its requests together are one stream of SubStream.  *)
(*                                                                         *)
(* The request the client reads has shown it every event up to the         *)
(* position of its handler, and nothing later: this is what makes the last *)
(* id a position to resume from.                                           *)
(***************************************************************************)

\* The client reads the response of this request, and it is not over.
Active(g) == Reads(g) /\ pc[g] \in {"call"} \cup Streaming

\* The events the handler has dealt with: not the one it is about to write.
Behind(g) == IF pc[g] = "write" THEN Pos(g) - 1 ELSE Pos(g)

\* No event before the last id is missing, or before the handler's position.
SeenInv ==
  /\ \A e \in Events \ Bad : e <= lastId => seen[e] >= 1
  /\ \A g \in Subs : Active(g) => \A e \in Events \ Bad : e <= Behind(g) => seen[e] >= 1

\* The last id is one the handler has dealt with.
AheadInv == \A g \in Subs : Active(g) => lastId <= Behind(g)

\* Nothing beyond the last id has been received, and nothing twice.
OnceInv ==
  \A e \in Events : /\ seen[e] <= 1
                    /\ e > lastId \/ e \in Bad => seen[e] = 0

\* The client's state follows the handler of the request it reads.
EsInv ==
  /\ cur = None => es = "idle" /\ lastId = 0
  /\ \A g \in Subs : Active(g) =>
       IF pc[g] \in {"call", "connected"} THEN es \in {"connecting", "open"} ELSE es = "open"

ReadInv == SeenInv /\ AheadInv /\ EsInv

-----------------------------------------------------------------------------
(* Steps that bring the client nothing *)

\* A step after which the client reads what it did before, or less.
LEMMA ReadFrame ==
  ASSUME ReadInv, UNCHANGED <<lastId, seen>>, (cur' = None => cur = None /\ es' = es),
         \A g \in Subs : Active(g)' =>
           /\ Active(g) /\ Behind(g)' = Behind(g)
           /\ es' = es /\ (pc'[g] \in {"call", "connected"} <=> pc[g] \in {"call", "connected"})
  PROVE  ReadInv'
<1>1. SeenInv'
  BY DEF ReadInv, SeenInv
<1>2. AheadInv'
  BY DEF ReadInv, AheadInv
<1>3. EsInv'
  BY DEF ReadInv, EsInv
<1> QED BY <1>1, <1>2, <1>3 DEF ReadInv

\* A new request starts at the last id.
LEMMA OutsideRead == TInv /\ ReadInv /\ Outside => ReadInv'
<1> SUFFICES ASSUME TInv, ReadInv, Outside PROVE ReadInv'
  OBVIOUS
<1>0. TypeOK
  BY DEF TInv
<1> USE DEF TypeOK
<1>1. ASSUME NEW g \in Subs, Connect(g) PROVE ReadInv'
  <2>1. /\ pc[g] = "unused" /\ pc'[g] = "call" /\ cur' = g /\ base'[g] = lastId
        /\ es' \in {"connecting", "open"}
        /\ UNCHANGED <<taken, lastId, seen>>
    BY <1>0, <1>1 DEF Connect, GetLastEventID
  <2>2. taken[g] = 0
    BY <2>1, Numbers DEF Fits
  <2>3. Behind(g)' = lastId
    BY <2>1, <2>2 DEF Behind, Pos
  <2>4. \A h \in Subs : Active(h)' => h = g
    BY <2>1 DEF Active, Reads
  <2>5. cur' # None /\ lastId \in Nat
    BY <1>0, <2>1, SseAssumption, BridgeAssumption
  <2>6. SeenInv'
    BY <2>1, <2>3, <2>4 DEF ReadInv, SeenInv
  <2>7. AheadInv'
    BY <2>1, <2>3, <2>4, <2>5 DEF AheadInv
  <2>8. EsInv'
    BY <2>1, <2>4, <2>5 DEF EsInv
  <2> QED BY <2>6, <2>7, <2>8 DEF ReadInv
<1>2. ASSUME NEW g \in Subs, Cut(g) PROVE ReadInv'
  <2>1. /\ UNCHANGED <<pc, base, taken, cur, lastId, seen>> /\ up'[g] = FALSE
        /\ \A h \in Subs : h # g => up'[h] = up[h]
        /\ cur # g => es' = es
    BY <1>0, <1>2 DEF Cut
  <2>2. cur = None => es' = es
    BY <2>1, SseAssumption
  <2>3. \A h \in Subs : Active(h)' => Active(h) /\ h # g /\ cur # g
    BY <2>1 DEF Active, Reads
  <2> QED BY <2>1, <2>2, <2>3, ReadFrame DEF Behind, Pos
<1>3. ASSUME NEW g \in Subs, NoticeGone(g) PROVE ReadInv'
  <2>1. UNCHANGED <<pc, base, taken, up, es, cur, lastId, seen>>
    BY <1>3 DEF NoticeGone
  <2> QED BY <2>1, ReadFrame DEF Active, Reads, Behind, Pos
<1>4. CASE Close
  <2>1. /\ UNCHANGED <<pc, base, taken, cur, lastId, seen>>
        /\ \A h \in Subs : ~up'[h]
        /\ es # "idle"
    BY <1>4 DEF Close
  <2>2. cur # None /\ \A h \in Subs : ~Active(h)'
    BY <2>1 DEF Active, Reads, ReadInv, EsInv
  <2> QED BY <2>1, <2>2, ReadFrame
<1> QED BY <1>1, <1>2, <1>3, <1>4 DEF Outside

\* A handler brings the client the next event, or none.
LEMMA HandlerRead ==
  ASSUME TInv, PlaceInv, ReadInv, NEW g \in Subs, Handler(g)
  PROVE  ReadInv'
<1>0. TypeOK /\ Place(g) /\ g # None
  BY SseAssumption DEF TInv, PlaceInv
<1>a. /\ base[g] \in Nat /\ taken[g] \in Nat /\ lastId \in Nat /\ MaxEvents \in Nat
      /\ Pos(g) \in Nat /\ taken[g] <= MaxEvents
  BY <1>0, Numbers DEF TypeOK, Pos
<1> USE DEF TypeOK
<1>1. CASE Reject(g) \/ WriteReturn(g) \/ WriteFails(g) \/ SelectDone(g) \/ Exit(g)
  <2>1. /\ UNCHANGED <<base, taken, cur, lastId, seen>>
        /\ pc'[g] \in {"exit", "done"}
        /\ \A h \in Subs : h # g => pc'[h] = pc[h] /\ up'[h] = up[h]
        /\ cur # g => es' = es
    BY <1>0, <1>1 DEF Reject, WriteReturn, WriteFails, SelectDone, Exit, Goto, Reads
  <2>2. ~Active(g)'
    BY <2>1 DEF Active, Streaming
  <2>3. \A h \in Subs : h # g /\ Active(h)' => Active(h) /\ cur # g
    BY <2>1 DEF Active, Reads
  <2> QED BY <1>0, <2>1, <2>2, <2>3, ReadFrame DEF Behind, Pos
<1>2. CASE CallOpens(g) \/ SelectClosed(g)
  <2>1. /\ UNCHANGED <<base, taken, up, es, cur, lastId, seen>>
        /\ \/ pc[g] = "call" /\ pc'[g] = "connected"
           \/ pc[g] = "select" /\ pc'[g] = "return"
        /\ \A h \in Subs : h # g => pc'[h] = pc[h]
    BY <1>0, <1>2 DEF CallOpens, SelectClosed, Goto
  <2> QED BY <2>1, ReadFrame DEF Active, Reads, Streaming, Behind, Pos
<1>3. CASE WriteConnected(g)
  <2>1. /\ UNCHANGED <<base, taken, up, cur, lastId, seen>>
        /\ pc[g] = "connected" /\ pc'[g] = "select"
        /\ \A h \in Subs : h # g => pc'[h] = pc[h]
        /\ es' = IF Reads(g) THEN "open" ELSE es
    BY <1>0, <1>3 DEF WriteConnected, Goto
  <2>2. \A h \in Subs : /\ Active(h)' <=> Active(h)
                        /\ Behind(h)' = Behind(h)
                        /\ Active(h) /\ h # g => ~Reads(g) /\ pc'[h] = pc[h]
    BY <2>1 DEF Active, Reads, Streaming, Behind, Pos
  <2>3. SeenInv' /\ AheadInv'
    BY <2>1, <2>2 DEF ReadInv, SeenInv, AheadInv
  <2>4. ASSUME NEW h \in Subs, Active(h)'
        PROVE  IF pc'[h] \in {"call", "connected"} THEN es' \in {"connecting", "open"}
                                                   ELSE es' = "open"
    <3>1. CASE h = g
      BY <2>1, <2>2, <2>4, <3>1 DEF Active
    <3>2. CASE h # g
      BY <2>1, <2>2, <2>4, <3>2 DEF ReadInv, EsInv
    <3> QED BY <3>1, <3>2
  <2>5. EsInv'
    BY <1>0, <2>1, <2>4 DEF ReadInv, EsInv, Reads
  <2> QED BY <2>3, <2>5 DEF ReadInv
<1>4. CASE SelectValue(g)
  <2>1. /\ UNCHANGED <<base, up, es, cur, lastId, seen>>
        /\ pc[g] = "select" /\ pc'[g] = "write" /\ bridge[g] = "send"
        /\ taken'[g] = base[g] + LastRanged(g)
        /\ \A h \in Subs : h # g => pc'[h] = pc[h] /\ taken'[h] = taken[h]
    BY <1>0, <1>4 DEF SelectValue, HandOver, Goto
  <2>2. Behind(g)' = Behind(g)
    BY <1>0, <1>a, <2>1 DEF Place, Behind, Pos
  <2> QED BY <2>1, <2>2, ReadFrame DEF Active, Reads, Streaming, Behind, Pos
<1>5. CASE WriteEvent(g) \/ SkipEvent(g)
  <2>1. /\ UNCHANGED <<base, taken, up, es, cur>>
        /\ pc[g] = "write" /\ pc'[g] = "select"
        /\ \A h \in Subs : h # g => pc'[h] = pc[h]
    BY <1>0, <1>5 DEF WriteEvent, SkipEvent, Goto
  <2>2. /\ taken[g] # 0 /\ taken[g] \in Events
        /\ Behind(g) = taken[g] - 1 /\ Behind(g)' = taken[g]
    BY <1>0, <1>a, <2>1 DEF Place, Behind, Pos, Events
  <2>3. \A h \in Subs : /\ Active(h)' <=> Active(h)
                        /\ h # g => Behind(h)' = Behind(h)
    BY <2>1 DEF Active, Reads, Streaming, Behind, Pos
  <2>4. EsInv'
    <3>1. UNCHANGED lastId \/ Reads(g)
      BY <1>5 DEF WriteEvent, SkipEvent
    <3> QED BY <1>0, <2>1, <2>3, <3>1 DEF ReadInv, EsInv, Reads
  <2>5. CASE ~Reads(g) \/ SkipEvent(g)
    <3>1. UNCHANGED <<lastId, seen>> /\ (Reads(g) => taken[g] \in Bad)
      BY <1>5, <2>5 DEF WriteEvent, SkipEvent
    <3>2. SeenInv'
      <4>1. ASSUME NEW h \in Subs, Active(h)', NEW e \in Events \ Bad, e <= Behind(h)'
            PROVE  seen[e] >= 1
        <5>1. CASE h = g
          <6>1. e # taken[g] /\ e \in Nat
            BY <3>1, <4>1, <5>1, <2>3 DEF Active, Events
          <6>2. e <= Behind(g)
            BY <1>a, <2>2, <4>1, <5>1, <6>1
          <6> QED BY <2>3, <4>1, <5>1, <6>2 DEF ReadInv, SeenInv
        <5>2. CASE h # g
          BY <2>3, <4>1, <5>2 DEF ReadInv, SeenInv
        <5> QED BY <5>1, <5>2
      <4> QED BY <3>1, <4>1 DEF ReadInv, SeenInv
    <3>3. AheadInv'
      <4>1. ASSUME NEW h \in Subs, Active(h) PROVE lastId <= Behind(h)'
        <5>1. CASE h = g
          BY <1>a, <2>2, <4>1, <5>1 DEF ReadInv, AheadInv
        <5>2. CASE h # g
          BY <2>3, <4>1, <5>2 DEF ReadInv, AheadInv
        <5> QED BY <5>1, <5>2
      <4> QED BY <2>3, <3>1, <4>1 DEF AheadInv
    <3> QED BY <2>4, <3>2, <3>3 DEF ReadInv
  <2>6. CASE Reads(g) /\ WriteEvent(g)
    <3>1. /\ seen' = [seen EXCEPT ![taken[g]] = @ + 1]
          /\ lastId' = IF Tracked THEN taken[g] ELSE lastId
      BY <2>6 DEF WriteEvent
    <3>2. /\ seen'[taken[g]] >= 1
          /\ \A e \in Events : seen[e] >= 1 => seen'[e] >= 1
      BY <1>0, <2>2, <3>1
    <3>3. Active(g) /\ \A h \in Subs : Active(h) => h = g
      BY <2>1, <2>6 DEF Active, Reads, Streaming
    <3>4. \A e \in Events \ Bad : e <= taken[g] => seen'[e] >= 1
      <4>1. ASSUME NEW e \in Events \ Bad, e <= taken[g], e # taken[g] PROVE seen[e] >= 1
        <5>1. e <= Behind(g)
          BY <1>a, <2>2, <4>1 DEF Events
        <5> QED BY <3>3, <5>1 DEF ReadInv, SeenInv
      <4> QED BY <3>2, <4>1
    <3>5. \A e \in Events \ Bad : e <= lastId => seen'[e] >= 1
      BY <3>2 DEF ReadInv, SeenInv
    <3>6. SeenInv'
      BY <2>2, <2>3, <3>1, <3>3, <3>4, <3>5 DEF SeenInv
    <3>7. lastId <= taken[g]
      BY <1>a, <2>2, <3>3 DEF ReadInv, AheadInv
    <3>8. lastId' <= taken[g]
      BY <1>a, <3>1, <3>7
    <3>9. AheadInv'
      BY <2>2, <2>3, <3>3, <3>8 DEF AheadInv
    <3> QED BY <2>4, <3>6, <3>9 DEF ReadInv
  <2> QED BY <1>5, <2>5, <2>6
<1> QED BY <1>1, <1>2, <1>3, <1>4, <1>5 DEF Handler

\* A pipeline runs without the client.
LEMMA PipeRead ==
  ASSUME ReadInv, NEW g \in Subs, Pipe(g)
  PROVE  ReadInv'
<1>1. UNCHANGED <<pc, base, taken, up, es, cur, lastId, seen>>
  BY DEF Pipe
<1> QED BY <1>1, ReadFrame DEF Active, Reads, Behind, Pos

\* What the client has seen reaches up to the handler it reads.
LEMMA ReadInvariant == Spec => []ReadInv
<1>1. Init => ReadInv
  BY SseAssumption
     DEF Init, ReadInv, SeenInv, AheadInv, EsInv, Active, Reads, Events
<1>2. TInv /\ PlaceInv /\ ReadInv /\ [Next]_vars => ReadInv'
  <2> SUFFICES ASSUME TInv, PlaceInv, ReadInv, [Next]_vars PROVE ReadInv'
    OBVIOUS
  <2>1. CASE UNCHANGED vars
    <3>1. UNCHANGED <<pc, base, taken, up, es, cur, lastId, seen>>
      BY <2>1 DEF vars
    <3> QED BY <3>1, ReadFrame DEF Active, Reads, Behind, Pos
  <2> QED BY <2>1, NextCases, OutsideRead, HandlerRead, PipeRead
<1> QED BY <1>1, <1>2, TypedInvariant, PlaceInvariant, PTL DEF Spec

\* Only a handler's write reaches the client, and only the one it reads.
LEMMA ReceiveCases ==
  ASSUME [Next]_vars
  PROVE  \/ UNCHANGED <<lastId, seen>>
         \/ \E g \in Subs : WriteEvent(g) /\ Reads(g)
<1>1. CASE Outside
  BY <1>1 DEF Outside, Connect, Cut, NoticeGone, Close
<1>2. ASSUME NEW g \in Subs, Handler(g), ~(WriteEvent(g) /\ Reads(g))
      PROVE  UNCHANGED <<lastId, seen>>
  BY <1>2 DEF Handler, Reject, CallOpens, WriteConnected, SelectDone, SelectClosed,
              SelectValue, WriteEvent, SkipEvent, WriteReturn, WriteFails, Exit
<1>3. ASSUME NEW g \in Subs, Pipe(g) PROVE UNCHANGED <<lastId, seen>>
  BY <1>3 DEF Pipe
<1>4. CASE UNCHANGED vars
  BY <1>4 DEF vars
<1> QED BY <1>1, <1>2, <1>3, <1>4, NextCases

\* The event being written is after the last id.
LEMMA WriteIsNew ==
  ASSUME TInv, PlaceInv, ReadInv, NEW g \in Subs, WriteEvent(g), Reads(g)
  PROVE  lastId < taken[g] /\ taken[g] \in Events \ Bad /\ es = "open"
<1>1. pc[g] = "write" /\ Active(g) /\ taken[g] \notin Bad
  BY DEF WriteEvent, Goto, Active, Streaming
<1>2. taken[g] \in Nat /\ taken[g] # 0 /\ taken[g] <= MaxEvents /\ MaxEvents \in Nat
  BY <1>1, Numbers DEF PlaceInv, Place
<1>3. lastId \in Nat /\ lastId <= taken[g] - 1
  BY <1>1, <1>2 DEF ReadInv, AheadInv, Behind, Pos, TInv, TypeOK
<1>4. es = "open"
  BY <1>1 DEF ReadInv, EsInv
<1> QED BY <1>1, <1>2, <1>3, <1>4 DEF Events

\* With tracked events every receipt moves the last id, so none is repeated.
LEMMA OnceInvariant ==
  ASSUME Tracked
  PROVE  Spec => []OnceInv
<1>1. Init => OnceInv
  BY DEF Init, OnceInv
<1>2. TInv /\ PlaceInv /\ ReadInv /\ OnceInv /\ [Next]_vars => OnceInv'
  <2> SUFFICES ASSUME TInv, PlaceInv, ReadInv, OnceInv, [Next]_vars PROVE OnceInv'
    OBVIOUS
  <2>1. CASE UNCHANGED <<lastId, seen>>
    BY <2>1 DEF OnceInv
  <2>2. ASSUME NEW g \in Subs, WriteEvent(g), Reads(g) PROVE OnceInv'
    <3>1. lastId < taken[g] /\ taken[g] \in Events \ Bad /\ taken[g] \in Nat
      BY <2>2, WriteIsNew, Numbers
    <3>2. seen' = [seen EXCEPT ![taken[g]] = @ + 1] /\ lastId' = taken[g]
      BY <2>2 DEF WriteEvent
    <3>3. seen \in [Events -> Nat] /\ lastId \in Nat /\ Events \subseteq Nat
      BY DEF TInv, TypeOK, Events
    <3>4. seen[taken[g]] = 0
      BY <3>1, <3>3 DEF OnceInv
    <3>5. ASSUME NEW e \in Events
          PROVE  seen'[e] <= 1 /\ (e > lastId' \/ e \in Bad => seen'[e] = 0)
      <4>1. CASE e = taken[g]
        BY <3>1, <3>2, <3>3, <3>4, <4>1
      <4>2. CASE e # taken[g]
        <5>1. seen'[e] = seen[e] /\ e \in Nat
          BY <3>2, <3>3, <4>2
        <5>2. e > taken[g] => e > lastId
          BY <3>1, <3>3, <5>1
        <5> QED BY <3>2, <5>1, <5>2 DEF OnceInv
      <4> QED BY <4>1, <4>2
    <3> QED BY <3>5 DEF OnceInv
  <2> QED BY <2>1, <2>2, ReceiveCases
<1> QED BY <1>1, <1>2, TypedInvariant, PlaceInvariant, ReadInvariant, PTL DEF Spec

-----------------------------------------------------------------------------
(* The safety of the stream across reconnections *)

\* A client of tracked events has each event up to its last id exactly once,
\* except those that cannot be encoded, and nothing after it: for any log, any
\* number of reconnections, and any order of cuts and late notices.
THEOREM ResumesExactly ==
  ASSUME Tracked
  PROVE  Spec => []ResumeExact
<1>1. TInv /\ SeenInv /\ OnceInv => ResumeExact
  <2> SUFFICES ASSUME TInv, SeenInv, OnceInv, NEW e \in Events
               PROVE  seen[e] = IF e <= lastId /\ e \notin Bad THEN 1 ELSE 0
    BY DEF ResumeExact
  <2>1. seen[e] \in Nat /\ e \in Nat /\ lastId \in Nat
    BY DEF TInv, TypeOK, Events
  <2>2. CASE e <= lastId /\ e \notin Bad
    BY <2>1, <2>2 DEF SeenInv, OnceInv
  <2>3. CASE ~(e <= lastId /\ e \notin Bad)
    BY <2>1, <2>3 DEF OnceInv
  <2> QED BY <2>2, <2>3
<1> QED BY <1>1, TypedInvariant, ReadInvariant, OnceInvariant, PTL DEF ReadInv

\* The "return" event is written only once the handler has reached the end.
LEMMA ReturnAtEnd ==
  ASSUME ~GateCancels, TInv, PlaceInv, NEW g \in Subs, WriteReturn(g), Reads(g)
  PROVE  Active(g) /\ Behind(g) = MaxEvents
<1>1. pc[g] = "return" /\ up[g]
  BY DEF WriteReturn, Goto, Reads
<1>2. bridge[g] = "exited" /\ ~HandlerDone(g)
  BY <1>1 DEF PlaceInv, Place, HandlerDone
<1> QED BY <1>1, <1>2 DEF PlaceInv, Place, Active, Streaming, Behind

\* Unless a middleware cancels the context it passed on, a client that is told
\* not to reconnect has received the whole log.
THEOREM ReturnsComplete ==
  ASSUME ~GateCancels
  PROVE  Spec => []ReturnedComplete
<1>1. Init => ReturnedComplete
  BY DEF Init, ReturnedComplete
<1>2. TInv /\ PlaceInv /\ ReadInv /\ ReturnedComplete /\ [Next]_vars
        => ReturnedComplete'
  <2> SUFFICES ASSUME TInv, PlaceInv, ReadInv, ReturnedComplete, [Next]_vars,
                      es' = "returned", NEW e \in Events \ Bad
               PROVE  seen'[e] >= 1
    BY DEF ReturnedComplete
  <2>0. seen \in [Events -> Nat] /\ e \in Events /\ e \in Nat /\ e <= MaxEvents
    BY BridgeAssumption DEF TInv, TypeOK, Events
  <2>1. seen[e] >= 1 => seen'[e] >= 1
    <3>1. ASSUME NEW g \in Subs, WriteEvent(g), Reads(g), seen[e] >= 1
          PROVE  seen'[e] >= 1
      <4>1. seen' = [seen EXCEPT ![taken[g]] = @ + 1] /\ taken[g] \in Events
        BY <3>1, WriteIsNew DEF WriteEvent
      <4> QED BY <2>0, <3>1, <4>1
    <3> QED BY <3>1, ReceiveCases
  <2>2. CASE es = "returned"
    BY <2>1, <2>2 DEF ReturnedComplete
  <2>3. CASE es # "returned"
    <3>1. ~Outside
      BY <2>3 DEF Outside, Connect, Cut, NoticeGone, Close
    <3>2. PICK g \in Subs : Handler(g)
      BY <2>3, <3>1, NextCases DEF Pipe, vars
    <3>3. WriteReturn(g) /\ Reads(g)
      BY <2>3, <3>2 DEF Handler, Reject, CallOpens, WriteConnected, SelectDone, SelectClosed,
           SelectValue, WriteEvent, SkipEvent, WriteReturn, WriteFails, Exit
    <3>4. seen[e] >= 1
      BY <2>0, <3>3, ReturnAtEnd DEF ReadInv, SeenInv
    <3> QED BY <2>1, <3>4
  <2> QED BY <2>2, <2>3
<1> QED BY <1>1, <1>2, TypedInvariant, PlaceInvariant, ReadInvariant, PTL DEF Spec

-----------------------------------------------------------------------------
(* The refinement *)

\* The client's stream as the mapping of StreamContract sees it.
ClientView ==
  CASE es = "idle" -> IF cur = None THEN "idle" ELSE "pending"
    [] es = "connecting" -> "pending"
    [] es \in {"open", "waiting"} -> "open"
    [] es = "returned" -> "ended"
    [] es = "failed" -> "failed"
    [] OTHER -> "left"

\* A step of the stream is a step of its view and of the last id.
LEMMA StreamSteps ==
  /\ ClientView = "idle" /\ ClientView' = "pending" /\ lastId' = 0 => Stream!StreamNext
  /\ ClientView = "pending" /\ ClientView' \in {"open", "failed", "left"} /\ UNCHANGED lastId
       => Stream!StreamNext
  /\ ClientView = "open" /\ ClientView' \in {"ended", "failed", "left"} /\ UNCHANGED lastId
       => Stream!StreamNext
  /\ ClientView = "open" /\ UNCHANGED ClientView /\ lastId' \in lastId + 1 .. MaxEvents
       => Stream!StreamNext
  /\ UNCHANGED <<ClientView, lastId>> => UNCHANGED Stream!streamVars
<1>1. ClientView = "idle" /\ ClientView' = "pending" /\ lastId' = 0 => Stream!Ask("es")
  BY DEF Stream!Ask, ClientView
<1>2. ASSUME NEW from, NEW to, ClientView \in from, ClientView' = to, UNCHANGED lastId
      PROVE  Stream!Becomes("es", from, to)
  BY <1>2 DEF Stream!Becomes, ClientView
<1>3. ASSUME ClientView = "pending", ClientView' \in {"open", "failed", "left"}, UNCHANGED lastId
      PROVE  Stream!StreamNext
  <2>1. CASE ClientView' = "open"
    BY <1>2, <1>3, <2>1 DEF Stream!Open, Stream!StreamNext
  <2>2. CASE ClientView' = "failed"
    BY <1>2, <1>3, <2>2 DEF Stream!Refuse, Stream!StreamNext
  <2>3. CASE ClientView' = "left"
    BY <1>2, <1>3, <2>3 DEF Stream!Leave, Stream!StreamNext
  <2> QED BY <1>3, <2>1, <2>2, <2>3
<1>4. ASSUME ClientView = "open", ClientView' \in {"ended", "failed", "left"}, UNCHANGED lastId
      PROVE  Stream!StreamNext
  <2>1. CASE ClientView' = "ended"
    BY <1>2, <1>4, <2>1 DEF Stream!End, Stream!StreamNext
  <2>2. CASE ClientView' = "failed"
    BY <1>2, <1>4, <2>2 DEF Stream!Fail, Stream!StreamNext
  <2>3. CASE ClientView' = "left"
    BY <1>2, <1>4, <2>3 DEF Stream!Leave, Stream!StreamNext
  <2> QED BY <1>4, <2>1, <2>2, <2>3
<1>5. ClientView = "open" /\ UNCHANGED ClientView /\ lastId' \in lastId + 1 .. MaxEvents
        => Stream!Deliver("es")
  BY DEF Stream!Deliver, ClientView
<1>6. UNCHANGED <<ClientView, lastId>> => UNCHANGED Stream!streamVars
  BY DEF Stream!streamVars, ClientView
<1> QED BY <1>1, <1>3, <1>4, <1>5, <1>6 DEF Stream!StreamNext

\* The client's own steps and the network's.
LEMMA OutsideRefines ==
  TInv /\ ReadInv /\ Outside => [Stream!StreamNext]_(Stream!streamVars)
<1> SUFFICES ASSUME TInv, ReadInv, Outside
             PROVE  Stream!StreamNext \/ UNCHANGED Stream!streamVars
  OBVIOUS
<1>1. ASSUME NEW g \in Subs, Connect(g)
      PROVE  Stream!StreamNext \/ UNCHANGED Stream!streamVars
  <2>1. /\ \/ es = "idle" /\ es' = "connecting"
           \/ es = "waiting" /\ es' = "open"
        /\ cur' = g /\ UNCHANGED lastId
        /\ cur = None => es = "idle" /\ lastId = 0
    BY <1>1 DEF Connect, ReadInv, EsInv
  <2>2. CASE cur = None
    BY <2>1, <2>2, StreamSteps DEF ClientView
  <2>3. CASE cur # None
    BY <2>1, <2>3, StreamSteps DEF ClientView
  <2> QED BY <2>2, <2>3
<1>2. ASSUME NEW g \in Subs, Cut(g) PROVE UNCHANGED Stream!streamVars
  BY <1>2, SseAssumption, StreamSteps DEF Cut, ClientView
<1>3. ASSUME NEW g \in Subs, NoticeGone(g) PROVE UNCHANGED Stream!streamVars
  BY <1>3, StreamSteps DEF NoticeGone, ClientView
<1>4. CASE Close
  BY <1>4, StreamSteps DEF Close, ClientView
<1> QED BY <1>1, <1>2, <1>3, <1>4 DEF Outside

\* A handler opens, feeds or ends the stream when the client reads it.
LEMMA HandlerRefines ==
  ASSUME TInv, PlaceInv, ReadInv, NEW g \in Subs, Handler(g)
  PROVE  Stream!StreamNext \/ UNCHANGED Stream!streamVars
<1>1. CASE UNCHANGED <<es, cur, lastId>>
  BY <1>1, StreamSteps DEF ClientView
<1>2. CASE Reads(g) /\ Reject(g)
  <2>1. es \in {"connecting", "open"}
    BY <1>2 DEF Reject, Goto, Active, ReadInv, EsInv
  <2> QED BY <1>2, <2>1, StreamSteps DEF Reject, ClientView
<1>3. CASE Reads(g) /\ WriteConnected(g)
  <2>1. es \in {"connecting", "open"}
    BY <1>3 DEF WriteConnected, Goto, Active, Streaming, ReadInv, EsInv
  <2> QED BY <1>3, <2>1, StreamSteps DEF WriteConnected, ClientView
<1>4. CASE Reads(g) /\ WriteReturn(g)
  <2>1. es = "open"
    BY <1>4 DEF WriteReturn, Goto, Active, Streaming, ReadInv, EsInv
  <2> QED BY <1>4, <2>1, StreamSteps DEF WriteReturn, ClientView
<1>5. CASE Reads(g) /\ Exit(g)
  BY <1>5, SseAssumption, StreamSteps DEF Exit, Reads, ClientView
<1>6. CASE Reads(g) /\ WriteEvent(g)
  <2>1. lastId < taken[g] /\ taken[g] \in Events /\ es = "open"
    BY <1>6, WriteIsNew
  <2>2. lastId' = taken[g] \/ UNCHANGED lastId
    BY <1>6 DEF WriteEvent
  <2>3. UNCHANGED <<es, cur>> /\ lastId \in Nat /\ MaxEvents \in Nat
    BY <1>6, BridgeAssumption DEF WriteEvent, TInv, TypeOK
  <2>4. taken[g] \in lastId + 1 .. MaxEvents
    BY <2>1, <2>3 DEF Events
  <2> QED BY <2>1, <2>2, <2>3, <2>4, StreamSteps DEF ClientView
<1> QED BY <1>1, <1>2, <1>3, <1>4, <1>5, <1>6
        DEF Handler, Reject, CallOpens, WriteConnected, SelectDone, SelectClosed, SelectValue,
            WriteEvent, SkipEvent, WriteReturn, WriteFails, Exit

\* The requests of one EventSource are together one stream of SubStream: it is
\* asked for once, opened once, its events come in order and never twice over
\* all reconnections, and after its end nothing more arrives.
THEOREM ImplementsStream == Spec => StreamContract
<1>1. Init => Stream!StreamInit
  BY DEF Init, Stream!StreamInit
<1>2. TInv /\ PlaceInv /\ ReadInv /\ [Next]_vars => [Stream!StreamNext]_(Stream!streamVars)
  <2> SUFFICES ASSUME TInv, PlaceInv, ReadInv, [Next]_vars
               PROVE  Stream!StreamNext \/ UNCHANGED Stream!streamVars
    OBVIOUS
  <2>1. ASSUME UNCHANGED <<es, cur, lastId>> PROVE UNCHANGED Stream!streamVars
    BY <2>1, StreamSteps DEF ClientView
  <2> QED BY <2>1, NextCases, OutsideRefines, HandlerRefines DEF Pipe, vars
<1> QED BY <1>1, <1>2, TypedInvariant, PlaceInvariant, ReadInvariant, PTL
        DEF Spec, StreamContract, Stream!StreamSpec
=============================================================================
