----------------------------- MODULE ChatStore -----------------------------
(***************************************************************************)
(* The chat of examples/demo/api/app: rooms, the capped history of each,   *)
(* and the broadcast of new messages to its subscribers' channels.         *)
(*                                                                         *)
(* A critical section of ChatStore.mu is one step.  Message ids are the    *)
(* numbers the store gives out.  A history is a Go slice: [array, lo, hi]  *)
(* over an array of a fixed capacity, which lists handed out share.        *)
(***************************************************************************)
EXTENDS Naturals, Sequences, FiniteSets, SequencesExt

CONSTANTS
  Senders, Listeners,           \* goroutines of SendMessage, SubscribeRoom
  Rooms,                        \* ids of rooms; the store starts with room 1
  Past,                         \* bound: messages sent before anyone listens
  MaxMessages,                  \* bound: messages ever sent
  Cap,                          \* maxMessagesPerRoom
  ChanCap                       \* capacity of a subscriber's channel

ASSUME ChatAssumption ==
  /\ 1 \in Rooms /\ Rooms \subseteq Nat
  /\ Past \in Nat /\ MaxMessages \in Nat /\ Cap \in Nat \ {0} /\ ChanCap \in Nat \ {0}

VARIABLES
  rooms,       \* rooms that exist
  nextMsgID,
  messages,    \* history slice of each room
  arrays,      \* contents of the arrays, by number; 0 is an unused element
  subscribers, \* listeners of each room, in order
  chan,        \* channel of each listener: [queue, closed]
  sender,      \* SendMessage calls: [at, room, msg, subs, pos]
  listener,    \* SubscribeRoom calls: [at, room]
  log,         \* history: every message stored in a room
  got,         \* history: what each listener received
  excused      \* history: messages a listener was not offered, or that were dropped

storeVars == <<rooms, nextMsgID, messages, arrays, subscribers>>
vars == <<storeVars, chan, sender, listener, log, got, excused>>

Messages == 1..MaxMessages

-----------------------------------------------------------------------------
(* Slices *)

Empty == [array |-> 0, lo |-> 0, hi |-> 0]

Contents(as, slice) ==
  IF slice.array = 0 THEN <<>> ELSE SubSeq(as[slice.array], slice.lo + 1, slice.hi)

Length(slice) == slice.hi - slice.lo

Room(as, slice) == IF slice.array = 0 THEN 0 ELSE Len(as[slice.array]) - slice.lo

\* append writes behind the slice while there is room, and else copies it to
\* an array of twice the capacity.
Appended(as, slice, m) ==
  LET len == Length(slice)
      room == Room(as, slice)
      copy == Contents(as, slice) IN
  IF len < room
  THEN [slice  |-> [slice EXCEPT !.hi = @ + 1],
        arrays |-> [as EXCEPT ![slice.array][slice.hi + 1] = m]]
  ELSE [slice  |-> [array |-> Len(as) + 1, lo |-> 0, hi |-> len + 1],
        arrays |-> Append(as, [i \in 1..(IF room = 0 THEN 1 ELSE 2 * room) |->
                     IF i <= len THEN copy[i] ELSE IF i = len + 1 THEN m ELSE 0])]

\* Mutation: the history is trimmed by copying its end to its front.
TrimmedInPlace(a) ==
  IF Length(a.slice) <= Cap THEN a
  ELSE [slice  |-> [a.slice EXCEPT !.hi = @ - 1],
        arrays |-> [a.arrays EXCEPT ![a.slice.array] =
          [i \in DOMAIN @ |-> IF i \in a.slice.lo + 1 .. a.slice.hi - 1 THEN @[i + 1] ELSE @[i]]]]

\* Mutation: the history keeps one message less than it may.
TrimmedShort(a) ==
  IF Length(a.slice) <= Cap THEN a
  ELSE [a EXCEPT !.slice.lo = a.slice.hi - Cap + 1]

\* Mutation: the history is trimmed when it has become twice as long.
TrimmedAtTwice(a) ==
  IF Length(a.slice) <= 2 * Cap THEN a
  ELSE [a EXCEPT !.slice.lo = a.slice.hi - Cap]

\* The history keeps its last Cap messages: the slice moves over its array.
Trimmed(a) ==
  IF Length(a.slice) <= Cap THEN a
  ELSE [a EXCEPT !.slice.lo = a.slice.hi - Cap]

-----------------------------------------------------------------------------

Idle == [at |-> "idle", room |-> 0, msg |-> 0, subs |-> <<>>, pos |-> 1]

Init ==
  /\ rooms = {1} /\ nextMsgID = 1
  /\ messages = [r \in Rooms |-> Empty]
  /\ arrays = <<>>
  /\ log = [r \in Rooms |-> <<>>]
  /\ subscribers = [r \in Rooms |-> <<>>]
  /\ chan = [k \in Listeners |-> [queue |-> <<>>, closed |-> FALSE]]
  /\ sender = [s \in Senders |-> Idle]
  /\ listener = [k \in Listeners |-> [at |-> "idle", room |-> 0]]
  /\ got = [k \in Listeners |-> <<>>]
  /\ excused = [k \in Listeners |-> {}]

CreateRoom(r) ==
  /\ r \notin rooms
  /\ rooms' = rooms \cup {r}
  /\ UNCHANGED <<nextMsgID, messages, arrays, subscribers, chan, sender,
                 listener, log, got, excused>>

-----------------------------------------------------------------------------
(* SendMessage *)

SendRefused(s, r) ==
  /\ sender[s].at = "idle" /\ r \notin rooms
  /\ sender' = [sender EXCEPT ![s].at = "refused"]
  /\ UNCHANGED <<storeVars, chan, listener, log, got, excused>>

\* Under the lock: an id, the append and the cap.
Store(s, r) ==
  LET new == Trimmed(Appended(arrays, messages[r], nextMsgID)) IN
  /\ sender[s].at = "idle" /\ r \in rooms
  /\ nextMsgID \in Messages
  /\ nextMsgID' = nextMsgID + 1
  /\ messages' = [messages EXCEPT ![r] = new.slice]
  /\ arrays' = new.arrays
  /\ sender' = [sender EXCEPT ![s] = [Idle EXCEPT !.at = "stored", !.room = r, !.msg = nextMsgID]]
  /\ log' = [log EXCEPT ![r] = Append(@, nextMsgID)]
  /\ UNCHANGED <<rooms, subscribers, chan, listener, got, excused>>

\* Broadcast copies the subscribers under the read lock, and releases it.
CopySubscribers(s) ==
  /\ sender[s].at = "stored"
  /\ sender' = [sender EXCEPT ![s].at = "sending", ![s].subs = subscribers[sender[s].room]]
  /\ UNCHANGED <<storeVars, chan, listener, log, got, excused>>

\* Mutation: Broadcast ranges over the store's own slice.
RecipientsLive(s) == subscribers[sender[s].room]

\* Mutation: the copy shares its array with the store's slice, from which
\* Unsubscribe removes an element in place.
RecipientsAliased(s) ==
  LET live == subscribers[sender[s].room] IN
  [i \in DOMAIN sender[s].subs |-> IF i \in DOMAIN live THEN live[i] ELSE sender[s].subs[i]]

Recipients(s) == sender[s].subs

Target(s) == Recipients(s)[sender[s].pos]

Sending(s) == sender[s].at = "sending" /\ sender[s].pos <= Len(Recipients(s))

\* The send does not wait: a full channel drops the message.
Offer(s) ==
  LET k == Target(s)
      full == Len(chan[k].queue) = ChanCap IN
  /\ Sending(s) /\ ~chan[k].closed
  /\ chan' = IF full THEN chan ELSE [chan EXCEPT ![k].queue = Append(@, sender[s].msg)]
  /\ excused' = IF full THEN [excused EXCEPT ![k] = @ \cup {sender[s].msg}] ELSE excused
  /\ sender' = [sender EXCEPT ![s].pos = @ + 1]
  /\ UNCHANGED <<storeVars, listener, log, got>>

\* A send on a channel that was closed since the copy panics; callProcedure
\* makes an error of it, and the subscribers that follow get nothing.
SendPanics(s) ==
  /\ Sending(s) /\ chan[Target(s)].closed
  /\ sender' = [sender EXCEPT ![s].at = "failed"]
  /\ excused' = [k \in Listeners |->
       IF \E i \in sender[s].pos..Len(Recipients(s)) : Recipients(s)[i] = k
       THEN excused[k] \cup {sender[s].msg} ELSE excused[k]]
  /\ UNCHANGED <<storeVars, chan, listener, log, got>>

BroadcastDone(s) ==
  /\ sender[s].at = "sending" /\ ~Sending(s)
  /\ sender' = [sender EXCEPT ![s].at = "ok"]
  /\ UNCHANGED <<storeVars, chan, listener, log, got, excused>>

\* The sender's next call.
SendAgain(s) ==
  /\ sender[s].at \in {"ok", "failed", "refused"}
  /\ sender' = [sender EXCEPT ![s] = Idle]
  /\ UNCHANGED <<storeVars, chan, listener, log, got, excused>>

-----------------------------------------------------------------------------
(* SubscribeRoom and its client *)

\* The bound of the runs: nobody listens before the first messages were sent.
PastSent ==
  /\ nextMsgID > Past
  /\ \A s \in Senders : sender[s].at \in {"stored", "sending"} => sender[s].msg > Past

\* The room is looked up under one lock, the channel registered under another.
FindRoom(k, r) ==
  /\ listener[k].at = "idle" /\ PastSent
  /\ listener' = [listener EXCEPT ![k] =
       [at |-> IF r \in rooms THEN "found" ELSE "refused", room |-> r]]
  /\ UNCHANGED <<storeVars, chan, sender, log, got, excused>>

Subscribe(k) ==
  /\ listener[k].at = "found"
  /\ listener' = [listener EXCEPT ![k].at = "on"]
  /\ subscribers' = [subscribers EXCEPT ![listener[k].room] = Append(@, k)]
  /\ excused' = [excused EXCEPT ![k] = 1..nextMsgID - 1]
  /\ UNCHANGED <<rooms, nextMsgID, messages, arrays, chan, sender, log, got>>

\* The bridge takes a value from the channel.
Receive(k) ==
  /\ listener[k].at \in {"on", "cancelled"} /\ chan[k].queue # <<>>
  /\ chan' = [chan EXCEPT ![k].queue = Tail(@)]
  /\ got' = [got EXCEPT ![k] = Append(@, Head(chan[k].queue))]
  /\ UNCHANGED <<storeVars, sender, listener, log, excused>>

\* The client goes away: the context is cancelled.
Cancel(k) ==
  /\ listener[k].at = "on"
  /\ listener' = [listener EXCEPT ![k].at = "cancelled"]
  /\ UNCHANGED <<storeVars, chan, sender, log, got, excused>>

Without(subs, k) ==
  RemoveAt(subs, CHOOSE i \in DOMAIN subs : subs[i] = k /\ \A j \in 1..i - 1 : subs[j] # k)

\* Mutation: the channel is closed first, and then removed.
UnsubscribeClosesFirst(k) ==
  /\ listener[k].at = "cancelled"
  /\ chan' = [chan EXCEPT ![k].closed = TRUE]
  /\ IF chan[k].closed
     THEN /\ listener' = [listener EXCEPT ![k].at = "gone"]
          /\ subscribers' = [subscribers EXCEPT ![listener[k].room] = Without(@, k)]
     ELSE UNCHANGED <<listener, subscribers>>
  /\ UNCHANGED <<rooms, nextMsgID, messages, arrays, sender, log, got, excused>>

\* The cleanup goroutine: Unsubscribe removes the channel it finds and closes it.
Unsubscribe(k) ==
  /\ listener[k].at = "cancelled"
  /\ listener' = [listener EXCEPT ![k].at = "gone"]
  /\ IF k \in ToSet(subscribers[listener[k].room])
     THEN /\ subscribers' = [subscribers EXCEPT ![listener[k].room] = Without(@, k)]
          /\ chan' = [chan EXCEPT ![k].closed = TRUE]
     ELSE UNCHANGED <<subscribers, chan>>
  /\ UNCHANGED <<rooms, nextMsgID, messages, arrays, sender, log, got, excused>>

-----------------------------------------------------------------------------

Send(s) == CopySubscribers(s) \/ Offer(s) \/ SendPanics(s) \/ BroadcastDone(s)

Next ==
  \/ \E r \in Rooms : CreateRoom(r)
  \/ \E s \in Senders : Send(s) \/ SendAgain(s) \/ \E r \in Rooms : SendRefused(s, r) \/ Store(s, r)
  \/ \E k \in Listeners : \/ Subscribe(k) \/ Receive(k) \/ Cancel(k) \/ Unsubscribe(k)
                          \/ \E r \in Rooms : FindRoom(k, r)

Spec == Init /\ [][Next]_vars

-----------------------------------------------------------------------------
(* Properties *)

TypeOK ==
  /\ rooms \subseteq Rooms /\ nextMsgID \in 1..MaxMessages + 1
  /\ \A r \in Rooms : Length(messages[r]) \in 0..Cap /\ ToSet(subscribers[r]) \subseteq Listeners
  /\ \A k \in Listeners : /\ Len(chan[k].queue) <= ChanCap
                          /\ ToSet(got[k]) \cup excused[k] \subseteq Messages
  /\ \A s \in Senders : sender[s].at \in {"idle", "refused", "stored", "sending", "ok", "failed"}

\* A room's history is the last Cap messages stored in it, in the order of
\* their ids, whatever arrays they moved through.
HistoryExact ==
  \A r \in Rooms :
    Contents(arrays, messages[r]) = SubSeq(log[r], IF Len(log[r]) > Cap THEN Len(log[r]) - Cap + 1 ELSE 1, Len(log[r]))

\* ListMessages hands out the history's slice, and its response is encoded
\* after the lock was released: no element once written is written again.
ListsStable ==
  [][\A a \in DOMAIN arrays : \A i \in DOMAIN arrays[a] :
       arrays[a][i] # 0 => arrays'[a][i] = arrays[a][i]]_vars

\* A subscriber that stays misses a message stored after it subscribed only
\* if its channel was full or the broadcast hit a subscriber that left; and it
\* gets none twice and none of another room.
NotSkipped ==
  \A k \in Listeners, s \in Senders :
    /\ listener[k].at = "on" /\ sender[s].at \in {"ok", "failed"}
    /\ sender[s].room = listener[k].room
    => sender[s].msg \in ToSet(got[k] \o chan[k].queue) \cup excused[k]

OncePerListener ==
  \A k \in Listeners :
    LET all == got[k] \o chan[k].queue IN
    /\ IsInjective(all)
    /\ ToSet(all) \subseteq ToSet(IF listener[k].room \in Rooms THEN log[listener[k].room] ELSE <<>>)

\* SendMessage fails after it stored its message only if a subscriber of the
\* room left while it was being broadcast.
FailsOnlyForLeavers ==
  \A s \in Senders : sender[s].at = "failed" =>
    \E k \in ToSet(sender[s].subs) : listener[k].at = "gone"
=============================================================================
