-------------------------- MODULE ChatStoreProofs --------------------------
(***************************************************************************)
(* Proofs about the demo's chat store, for any number of senders,          *)
(* subscribers, rooms and messages, and any capacities.                    *)
(***************************************************************************)
EXTENDS ChatStore, SequenceTheorems, TLAPS

-----------------------------------------------------------------------------
(* Types *)

Channels == [queue : Seq(Messages), closed : BOOLEAN]
SendCalls == [at : {"idle", "refused", "stored", "sending", "ok", "failed"},
              room : Nat, msg : Nat, subs : Seq(Listeners), pos : Nat \ {0}]
SubCalls == [at : {"idle", "found", "refused", "on", "cancelled", "gone"}, room : Nat]

SenderTypes ==
  /\ sender \in [Senders -> SendCalls]
  /\ \A s \in Senders : sender[s].at \notin {"idle", "refused"} =>
                          sender[s].room \in Rooms /\ sender[s].msg \in Messages

ListenerTypes ==
  /\ subscribers \in [Rooms -> Seq(Listeners)]
  /\ listener \in [Listeners -> SubCalls]
  /\ \A k \in Listeners : listener[k].at # "idle" => listener[k].room \in Rooms

ChanTypes ==
  /\ chan \in [Listeners -> Channels]
  /\ got \in [Listeners -> Seq(Messages)]
  /\ excused \in [Listeners -> SUBSET Messages]
  /\ \A k \in Listeners : Len(chan[k].queue) <= ChanCap

LogTypes ==
  /\ rooms \subseteq Rooms /\ nextMsgID \in 1..MaxMessages + 1
  /\ log \in [Rooms -> Seq(Messages)]

\* The calls in progress, the rooms they name, the channels and the histories.
CallTypes == SenderTypes /\ ListenerTypes /\ ChanTypes /\ LogTypes

\* Next, with its alternatives side by side.
LEMMA NextCases ==
  ASSUME [Next]_vars, NEW P,
         ASSUME NEW r \in Rooms, CreateRoom(r) PROVE P,
         ASSUME NEW s \in Senders, NEW r \in Rooms, SendRefused(s, r) PROVE P,
         ASSUME NEW s \in Senders, NEW r \in Rooms, Store(s, r) PROVE P,
         ASSUME NEW s \in Senders, CopySubscribers(s) PROVE P,
         ASSUME NEW s \in Senders, Offer(s) PROVE P,
         ASSUME NEW s \in Senders, SendPanics(s) PROVE P,
         ASSUME NEW s \in Senders, BroadcastDone(s) PROVE P,
         ASSUME NEW s \in Senders, SendAgain(s) PROVE P,
         ASSUME NEW k \in Listeners, NEW r \in Rooms, FindRoom(k, r) PROVE P,
         ASSUME NEW k \in Listeners, Subscribe(k) PROVE P,
         ASSUME NEW k \in Listeners, Receive(k) PROVE P,
         ASSUME NEW k \in Listeners, Cancel(k) PROVE P,
         ASSUME NEW k \in Listeners, Unsubscribe(k) PROVE P,
         ASSUME UNCHANGED vars PROVE P
  PROVE  P
  BY DEF Next, Send

\* What removing a channel leaves of a list that holds it once.
LEMMA WithoutProperties ==
  ASSUME NEW subs \in Seq(Listeners), IsInjective(subs), NEW p \in 1..Len(subs)
  PROVE  /\ Without(subs, subs[p]) \in Seq(Listeners)
         /\ Len(Without(subs, subs[p])) = Len(subs) - 1
         /\ \A i \in 1..Len(subs) - 1 :
              Without(subs, subs[p])[i] = IF i < p THEN subs[i] ELSE subs[i + 1]
  <1> DEFINE k == subs[p]
             first(i) == subs[i] = k /\ \A j \in 1..i - 1 : subs[j] # k
  <1>0. DOMAIN subs = 1..Len(subs)
    OBVIOUS
  <1>1. \A i \in DOMAIN subs : first(i) <=> i = p
    BY <1>0 DEF IsInjective
  <1>2. p = CHOOSE i \in DOMAIN subs : first(i)
    BY <1>0, <1>1
  <1>3. Without(subs, k) = SubSeq(subs, 1, p - 1) \o SubSeq(subs, p + 1, Len(subs))
    BY <1>2 DEF Without, RemoveAt
  <1>4. /\ SubSeq(subs, 1, p - 1) \in Seq(Listeners)
        /\ Len(SubSeq(subs, 1, p - 1)) = p - 1
        /\ \A i \in 1..p - 1 : SubSeq(subs, 1, p - 1)[i] = subs[i]
    OBVIOUS
  <1>5. /\ SubSeq(subs, p + 1, Len(subs)) \in Seq(Listeners)
        /\ Len(SubSeq(subs, p + 1, Len(subs))) = Len(subs) - p
        /\ \A i \in 1..Len(subs) - p : SubSeq(subs, p + 1, Len(subs))[i] = subs[p + i]
    OBVIOUS
  <1> DEFINE front == SubSeq(subs, 1, p - 1)
             back == SubSeq(subs, p + 1, Len(subs))
  <1> HIDE DEF front, back, k
  <1>6. /\ front \o back \in Seq(Listeners)
        /\ Len(front \o back) = Len(front) + Len(back)
        /\ \A i \in 1..Len(front) + Len(back) :
             (front \o back)[i] = IF i <= Len(front) THEN front[i] ELSE back[i - Len(front)]
    BY <1>4, <1>5, ConcatProperties DEF front, back
  <1>7. Without(subs, k) = front \o back
    BY <1>3 DEF front, back
  <1>8. Len(front) = p - 1 /\ Len(back) = Len(subs) - p /\ Len(subs) \in Nat
    BY <1>4, <1>5 DEF front, back
  <1>9. ASSUME NEW i \in 1..Len(subs) - 1
        PROVE  Without(subs, k)[i] = IF i < p THEN subs[i] ELSE subs[i + 1]
    <2>1. CASE i < p
      <3>1. i \in 1..p - 1 /\ i <= Len(front)
        BY <1>8, <2>1
      <3> QED BY <1>4, <1>6, <1>7, <1>8, <2>1, <3>1 DEF front
    <2>2. CASE ~(i < p)
      <3>1. i - (p - 1) \in 1..Len(subs) - p /\ p + (i - (p - 1)) = i + 1 /\ ~(i <= Len(front))
        BY <1>8, <2>2
      <3> QED BY <1>5, <1>6, <1>7, <1>8, <2>2, <3>1 DEF back
    <2> QED BY <2>1, <2>2
  <1>10. Without(subs, k) \in Seq(Listeners) /\ Len(Without(subs, k)) = Len(subs) - 1
    <2>1. Len(front \o back) = Len(subs) - 1
      BY <1>6, <1>8
    <2> QED BY <1>6, <1>7, <2>1
  <1> QED BY <1>9, <1>10 DEF k

\* A listener is in the list of its room, once, exactly while it is subscribed.
Registered ==
  /\ \A r \in Rooms :
       /\ IsInjective(subscribers[r])
       /\ \A i \in DOMAIN subscribers[r] :
            LET k == subscribers[r][i] IN
            listener[k].at \in {"on", "cancelled"} /\ listener[k].room = r
  /\ \A k \in Listeners : listener[k].at \in {"on", "cancelled"} =>
       \E i \in DOMAIN subscribers[listener[k].room] : subscribers[listener[k].room][i] = k
  /\ \A k \in Listeners : chan[k].closed <=> listener[k].at = "gone"
  /\ \A k \in Listeners : listener[k].at \notin {"on", "cancelled", "gone"} =>
       got[k] = <<>> /\ chan[k].queue = <<>>

LEMMA InitTyped == Init => CallTypes /\ Registered
  <1> SUFFICES ASSUME Init PROVE CallTypes /\ Registered
    OBVIOUS
  <1>1. \A S : <<>> \in Seq(S) /\ Len(<<>>) = 0 /\ DOMAIN <<>> = {}
    OBVIOUS
  <1>2. SenderTypes
    BY <1>1 DEF Init, SenderTypes, SendCalls, Idle
  <1>3. ListenerTypes /\ LogTypes
    BY <1>1, ChatAssumption DEF Init, ListenerTypes, SubCalls, LogTypes
  <1>4. ChanTypes
    BY <1>1, ChatAssumption DEF Init, ChanTypes, Channels
  <1>5. Registered
    BY <1>1 DEF Init, Registered, IsInjective
  <1> QED BY <1>2, <1>3, <1>4, <1>5 DEF CallTypes

\* SendMessage leaves the registrations alone, SubscribeRoom the senders.
LEMMA RegisteredFrame ==
  ASSUME Registered, UNCHANGED <<subscribers, listener, got>>, CallTypes,
         \A k \in Listeners : chan'[k].closed = chan[k].closed,
         \A k \in Listeners : chan'[k].queue = chan[k].queue \/ listener[k].at \in {"on", "cancelled", "gone"}
  PROVE  Registered'
  BY DEF Registered

LEMMA SenderStep ==
  ASSUME SenderTypes, NEW s \in Senders, NEW c \in SendCalls, sender' = [sender EXCEPT ![s] = c],
         c.at \notin {"idle", "refused"} => c.room \in Rooms /\ c.msg \in Messages
  PROVE  SenderTypes'
  BY DEF SenderTypes

\* Whom a message is sent to has subscribed, and what is sent was stored.
Addressed ==
  \A s \in Senders : sender[s].at = "sending" =>
    \A i \in DOMAIN sender[s].subs :
      LET k == sender[s].subs[i] IN
      listener[k].at \in {"on", "cancelled", "gone"} /\ listener[k].room = sender[s].room

LEMMA OfferTyped ==
  ASSUME CallTypes, Registered, Addressed, NEW s \in Senders, Offer(s)
  PROVE  CallTypes' /\ Registered'
  <1> DEFINE k == Target(s)
             m == sender[s].msg
             q == chan[k].queue
  <1>1. /\ sender[s] \in SendCalls /\ sender[s].at = "sending" /\ m \in Messages
        /\ sender[s].room \in Rooms /\ sender[s].pos \in DOMAIN sender[s].subs
    BY DEF Offer, Sending, Recipients, CallTypes, SenderTypes, SendCalls
  <1>2. k \in Listeners /\ listener[k].at \in {"on", "cancelled", "gone"}
    BY <1>1 DEF Target, Recipients, SendCalls, Addressed
  <1>3. chan[k] \in Channels /\ q \in Seq(Messages) /\ Len(q) \in Nat /\ Len(q) <= ChanCap
    BY <1>2 DEF CallTypes, ChanTypes, Channels
  <1>4. Append(q, m) \in Seq(Messages) /\ Len(Append(q, m)) = Len(q) + 1
    BY <1>1, <1>3
  <1> HIDE DEF k, m, q
  <1>5. SenderTypes'
    <2>1. [sender[s] EXCEPT !.pos = @ + 1] \in SendCalls
      <3>1. sender[s].pos \in Nat \ {0} /\ sender[s].pos + 1 \in Nat \ {0}
        BY <1>1 DEF SendCalls
      <3> QED BY <1>1, <3>1 DEF SendCalls
    <2>2. sender' = [sender EXCEPT ![s] = [sender[s] EXCEPT !.pos = @ + 1]]
      BY DEF Offer, CallTypes, SenderTypes
    <2> QED BY <1>1, <2>1, <2>2, SenderStep DEF CallTypes, SendCalls, m
  <1>6. ChanTypes' /\ \A j \in Listeners : /\ chan'[j].closed = chan[j].closed
                                           /\ chan'[j] = chan[j] \/ j = k
    <2>1. chan' = chan \/ (Len(q) # ChanCap /\ chan' = [chan EXCEPT ![k].queue = Append(q, m)])
      BY DEF Offer, k, m, q
    <2>2. excused' = excused \/ excused' = [excused EXCEPT ![k] = @ \cup {m}]
      BY DEF Offer, k, m
    <2>3. got' = got
      BY DEF Offer
    <2>0. Len(q) # ChanCap => Len(Append(q, m)) <= ChanCap
      BY <1>3, <1>4, ChatAssumption
    <2>4. Len(q) # ChanCap => [chan[k] EXCEPT !.queue = Append(q, m)] \in Channels
                              /\ Len(Append(q, m)) <= ChanCap
      BY <1>3, <1>4, <2>0, ChatAssumption DEF Channels, q
    <2>5. [excused EXCEPT ![k] = @ \cup {m}] \in [Listeners -> SUBSET Messages]
      BY <1>1, <1>2 DEF CallTypes, ChanTypes, m
    <2>6. chan \in [Listeners -> Channels] /\ got' \in [Listeners -> Seq(Messages)]
          /\ \A j \in Listeners : Len(chan[j].queue) <= ChanCap
      BY <2>3 DEF CallTypes, ChanTypes
    <2>7. excused' \in [Listeners -> SUBSET Messages]
      BY <2>2, <2>5 DEF CallTypes, ChanTypes
    <2>8. CASE chan' = chan
      BY <2>6, <2>7, <2>8 DEF ChanTypes
    <2>9. CASE Len(q) # ChanCap /\ chan' = [chan EXCEPT ![k].queue = Append(q, m)]
      <3> DEFINE c == [chan[k] EXCEPT !.queue = Append(q, m)]
      <3>1. c \in Channels /\ Len(c.queue) <= ChanCap /\ c.closed = chan[k].closed
        BY <1>3, <2>4, <2>9 DEF Channels
      <3>2. chan' = [chan EXCEPT ![k] = c]
        BY <2>6, <2>9
      <3> HIDE DEF c
      <3>3. chan' \in [Listeners -> Channels]
        BY <2>6, <3>1, <3>2
      <3>4. \A j \in Listeners : chan'[j] = IF j = k THEN c ELSE chan[j]
        BY <2>6, <3>2
      <3> QED BY <2>6, <2>7, <3>1, <3>3, <3>4 DEF ChanTypes
    <2> QED BY <2>1, <2>8, <2>9
  <1>7. UNCHANGED <<storeVars, listener, log, got>>
    BY DEF Offer
  <1>8. ListenerTypes' /\ LogTypes'
    BY <1>7 DEF storeVars, CallTypes, ListenerTypes, LogTypes
  <1>9. Registered'
    BY <1>2, <1>6, <1>7, RegisteredFrame DEF storeVars
  <1> QED BY <1>5, <1>6, <1>8, <1>9 DEF CallTypes

LEMMA SendersTyped ==
  ASSUME CallTypes, Registered, NEW s \in Senders,
         \/ CopySubscribers(s) \/ SendPanics(s) \/ BroadcastDone(s) \/ SendAgain(s)
         \/ \E r \in Rooms : SendRefused(s, r) \/ Store(s, r)
  PROVE  CallTypes' /\ Registered'
  <1>0. sender[s] \in SendCalls /\ SenderTypes
    BY DEF CallTypes, SenderTypes
  <1>1. UNCHANGED <<subscribers, chan, listener, got>>
    BY DEF CopySubscribers, SendPanics, BroadcastDone, SendAgain, SendRefused, Store, storeVars
  <1>2. Registered' /\ ListenerTypes'
    <2>1. ListenerTypes'
      BY <1>1 DEF CallTypes, ListenerTypes
    <2> QED BY <1>1, <2>1, RegisteredFrame
  <1>3. ASSUME NEW r \in Rooms, Store(s, r) PROVE SenderTypes' /\ ChanTypes' /\ LogTypes'
    <2>1. nextMsgID \in Messages /\ nextMsgID' \in 1..MaxMessages + 1
      <3>1. nextMsgID \in Messages /\ nextMsgID' = nextMsgID + 1
        BY <1>3 DEF Store
      <3> QED BY <3>1, ChatAssumption DEF Messages
    <2>2. [Idle EXCEPT !.at = "stored", !.room = r, !.msg = nextMsgID] \in SendCalls
      <3>1. Idle \in SendCalls
        BY DEF Idle, SendCalls
      <3>2. r \in Nat /\ nextMsgID \in Nat
        BY <2>1, ChatAssumption DEF Messages
      <3> QED BY <3>1, <3>2 DEF SendCalls
    <2>3. SenderTypes'
      BY <1>0, <1>3, <2>1, <2>2, SenderStep DEF Store, Idle
    <2>4. Append(log[r], nextMsgID) \in Seq(Messages)
      BY <2>1 DEF CallTypes, LogTypes
    <2>5. LogTypes'
      BY <1>3, <2>1, <2>4 DEF Store, CallTypes, LogTypes
    <2>6. ChanTypes'
      BY <1>3 DEF Store, CallTypes, ChanTypes
    <2> QED BY <2>3, <2>5, <2>6
  <1>4. CASE \/ CopySubscribers(s) \/ SendPanics(s) \/ BroadcastDone(s) \/ SendAgain(s)
             \/ \E r \in Rooms : SendRefused(s, r)
    <2>1. LogTypes'
      BY <1>4 DEF CopySubscribers, SendPanics, BroadcastDone, SendAgain, SendRefused, storeVars,
                  CallTypes, LogTypes
    <2>2. ChanTypes'
      <3>1. excused' \in [Listeners -> SUBSET Messages]
        <4>1. CASE SendPanics(s)
          <5>1. sender[s].msg \in Messages
            BY <4>1 DEF SendPanics, Sending, CallTypes, SenderTypes
          <5> QED BY <4>1, <5>1 DEF SendPanics, CallTypes, ChanTypes
        <4> QED BY <1>4, <4>1 DEF CopySubscribers, BroadcastDone, SendAgain, SendRefused,
                                  CallTypes, ChanTypes
      <3> QED BY <1>1, <3>1 DEF CallTypes, ChanTypes
    <2>3. CASE CopySubscribers(s)
      <3> DEFINE c == [sender[s] EXCEPT !.at = "sending", !.subs = subscribers[sender[s].room]]
      <3>1. sender[s].room \in Rooms /\ sender[s].msg \in Messages
        BY <2>3 DEF CopySubscribers, CallTypes, SenderTypes
      <3>2. subscribers[sender[s].room] \in Seq(Listeners)
        BY <3>1 DEF CallTypes, ListenerTypes
      <3>3. c \in SendCalls /\ c.room = sender[s].room /\ c.msg = sender[s].msg
        BY <1>0, <3>2 DEF SendCalls
      <3>4. sender' = [sender EXCEPT ![s] = c]
        BY <2>3 DEF CopySubscribers, CallTypes, SenderTypes
      <3> HIDE DEF c
      <3>5. SenderTypes'
        BY <1>0, <3>1, <3>3, <3>4, SenderStep
      <3> QED BY <1>2, <2>1, <2>2, <3>5 DEF CallTypes
    <2>4. CASE SendAgain(s)
      <3>1. Idle \in SendCalls /\ Idle.at = "idle"
        BY DEF Idle, SendCalls
      <3>2. SenderTypes'
        BY <1>0, <2>4, <3>1, SenderStep DEF SendAgain
      <3> QED BY <1>2, <2>1, <2>2, <3>2 DEF CallTypes
    <2>5. CASE SendPanics(s) \/ BroadcastDone(s) \/ \E r \in Rooms : SendRefused(s, r)
      <3>1. PICK a \in {"failed", "ok", "refused"} :
              /\ sender' = [sender EXCEPT ![s].at = a]
              /\ a # "refused" => sender[s].at = "sending"
        BY <2>5 DEF SendPanics, BroadcastDone, SendRefused, Sending
      <3> DEFINE c == [sender[s] EXCEPT !.at = a]
      <3>2. c \in SendCalls /\ c.at = a /\ c.room = sender[s].room /\ c.msg = sender[s].msg
        BY <1>0 DEF SendCalls
      <3>3. sender' = [sender EXCEPT ![s] = c]
        BY <3>1 DEF CallTypes, SenderTypes
      <3>4. a # "refused" => c.room \in Rooms /\ c.msg \in Messages
        BY <3>1, <3>2 DEF CallTypes, SenderTypes
      <3> HIDE DEF c
      <3>5. SenderTypes'
        BY <1>0, <3>1, <3>2, <3>3, <3>4, SenderStep
      <3> QED BY <1>2, <2>1, <2>2, <3>5 DEF CallTypes
    <2> QED BY <1>4, <2>1, <2>2, <2>3, <2>4, <2>5
  <1> QED BY <1>2, <1>3, <1>4 DEF CallTypes

LEMMA StillInjective ==
  ASSUME NEW S, NEW seq \in Seq(S), IsInjective(seq), NEW e \in S, \A i \in DOMAIN seq : seq[i] # e
  PROVE  IsInjective(Append(seq, e))
  <1>0. Append(seq, e) \in Seq(S)
    OBVIOUS
  <1>1. /\ Len(seq) \in Nat /\ DOMAIN seq = 1..Len(seq)
        /\ DOMAIN Append(seq, e) = 1..Len(seq) + 1
        /\ \A i \in 1..Len(seq) : Append(seq, e)[i] = seq[i]
        /\ Append(seq, e)[Len(seq) + 1] = e
    BY <1>0, AppendProperties
  <1> DEFINE longer == Append(seq, e)
  <1> HIDE DEF longer
  <1>2. ASSUME NEW a \in 1..Len(seq) + 1, NEW b \in 1..Len(seq) + 1, longer[a] = longer[b]
        PROVE  a = b
    BY <1>1, <1>2 DEF IsInjective, longer
  <1> QED BY <1>1, <1>2 DEF IsInjective, longer

LEMMA SubscribeTyped ==
  ASSUME CallTypes, Registered, NEW k \in Listeners, Subscribe(k)
  PROVE  CallTypes' /\ Registered'
  <1> DEFINE r == listener[k].room
             subs == subscribers[r]
  <1>1. /\ listener[k].at = "found" /\ r \in Rooms /\ subs \in Seq(Listeners)
        /\ listener \in [Listeners -> SubCalls] /\ subscribers \in [Rooms -> Seq(Listeners)]
    BY DEF Subscribe, CallTypes, ListenerTypes
  <1> HIDE DEF r, subs
  <1>2. /\ listener' = [listener EXCEPT ![k].at = "on"]
        /\ subscribers' = [subscribers EXCEPT ![r] = Append(subs, k)]
        /\ excused' = [excused EXCEPT ![k] = 1..nextMsgID - 1]
        /\ UNCHANGED <<rooms, nextMsgID, chan, sender, log, got>>
    BY <1>1 DEF Subscribe, r, subs
  <1>3. \A i \in DOMAIN subs : subs[i] # k
    BY <1>1 DEF Registered, subs
  <1>4. /\ Append(subs, k) \in Seq(Listeners) /\ DOMAIN Append(subs, k) = 1..Len(subs) + 1
        /\ DOMAIN subs = 1..Len(subs) /\ Len(subs) \in Nat
        /\ \A i \in DOMAIN subs : Append(subs, k)[i] = subs[i]
        /\ Append(subs, k)[Len(subs) + 1] = k
    BY <1>1
  <1>5. IsInjective(subs) /\ IsInjective(Append(subs, k))
    <2>1. IsInjective(subs)
      BY <1>1 DEF Registered, subs
    <2> QED BY <1>1, <1>3, <2>1, StillInjective
  <1> DEFINE longer == Append(subs, k)
  <1> HIDE DEF longer
  <1>6. /\ \A j \in Listeners \ {k} : listener'[j] = listener[j]
        /\ listener'[k].at = "on" /\ listener'[k].room = r
    BY <1>1, <1>2 DEF SubCalls, r
  <1>7. ListenerTypes'
    <2>1. listener' \in [Listeners -> SubCalls]
      BY <1>1, <1>2 DEF SubCalls
    <2> QED BY <1>1, <1>2, <1>4, <1>6, <2>1 DEF CallTypes, ListenerTypes
  <1>8. CallTypes'
    <2>1. 1..nextMsgID - 1 \subseteq Messages
      BY ChatAssumption DEF CallTypes, LogTypes, Messages
    <2>2. ChanTypes'
      BY <1>2, <2>1 DEF CallTypes, ChanTypes
    <2> QED BY <1>2, <1>7, <2>2 DEF CallTypes, SenderTypes, LogTypes
  <1>9. subscribers' = [subscribers EXCEPT ![r] = longer] /\ IsInjective(longer)
    BY <1>2, <1>5 DEF longer
  <1>10. ASSUME NEW q \in Rooms
         PROVE  /\ IsInjective(subscribers'[q])
                /\ \A i \in DOMAIN subscribers'[q] :
                     /\ listener'[subscribers'[q][i]].at \in {"on", "cancelled"}
                     /\ listener'[subscribers'[q][i]].room = q
    <2>1. CASE q = r
      <3>1. \A i \in DOMAIN subs : /\ listener[subs[i]].at \in {"on", "cancelled"}
                                   /\ listener[subs[i]].room = r /\ subs[i] \in Listeners \ {k}
        BY <1>1, <1>3 DEF Registered, subs
      <3>2. \A i \in DOMAIN longer : (i \in DOMAIN subs /\ longer[i] = subs[i]) \/ longer[i] = k
        BY <1>4 DEF longer
      <3> QED BY <1>1, <1>6, <1>9, <2>1, <3>1, <3>2
    <2>2. CASE q # r
      <3>1. subscribers'[q] = subscribers[q] /\ subscribers[q] \in Seq(Listeners)
        BY <1>1, <1>2, <2>2
      <3>2. \A i \in DOMAIN subscribers[q] : subscribers[q][i] \in Listeners \ {k}
        BY <1>1, <3>1 DEF Registered
      <3> QED BY <1>6, <3>1, <3>2 DEF Registered
    <2> QED BY <2>1, <2>2
  <1>11. ASSUME NEW j \in Listeners, listener'[j].at \in {"on", "cancelled"}
         PROVE  \E i \in DOMAIN subscribers'[listener'[j].room] :
                  subscribers'[listener'[j].room][i] = j
    <2>1. CASE j = k
      <3>1. Len(subs) + 1 \in DOMAIN longer /\ longer[Len(subs) + 1] = k
        BY <1>4 DEF longer
      <3>2. subscribers'[r] = longer
        BY <1>1, <1>9
      <3> QED BY <1>6, <2>1, <3>1, <3>2
    <2>2. CASE j # k
      <3>1. listener'[j] = listener[j] /\ listener[j].room \in Rooms
        BY <1>6, <1>11, <2>2 DEF CallTypes, ListenerTypes
      <3>2. PICK i \in DOMAIN subscribers[listener[j].room] : subscribers[listener[j].room][i] = j
        BY <1>11, <3>1 DEF Registered
      <3>3. CASE listener[j].room = r
        <4>1. i \in DOMAIN longer /\ longer[i] = j
          BY <1>4, <3>2, <3>3 DEF longer, subs
        <4> QED BY <1>1, <1>9, <3>1, <3>3, <4>1
      <3>4. CASE listener[j].room # r
        BY <1>1, <1>9, <3>1, <3>2, <3>4
      <3> QED BY <3>3, <3>4
    <2> QED BY <2>1, <2>2
  <1>12. ASSUME NEW j \in Listeners
         PROVE  /\ chan'[j].closed <=> listener'[j].at = "gone"
                /\ listener'[j].at \notin {"on", "cancelled", "gone"} =>
                     got'[j] = <<>> /\ chan'[j].queue = <<>>
    BY <1>1, <1>2, <1>6 DEF Registered
  <1> QED BY <1>8, <1>10, <1>11, <1>12 DEF Registered

LEMMA ReceiveTyped ==
  ASSUME CallTypes, Registered, NEW k \in Listeners, Receive(k)
  PROVE  CallTypes' /\ Registered'
  <1> DEFINE q == chan[k].queue
  <1>1. /\ chan[k] \in Channels /\ q \in Seq(Messages) /\ q # <<>> /\ Len(q) <= ChanCap
        /\ got[k] \in Seq(Messages)
    BY DEF Receive, CallTypes, ChanTypes, Channels
  <1> HIDE DEF q
  <1>2. Tail(q) \in Seq(Messages) /\ Head(q) \in Messages /\ Len(Tail(q)) <= ChanCap
    BY <1>1, HeadTailProperties, ChatAssumption
  <1>3. Append(got[k], Head(q)) \in Seq(Messages)
    BY <1>1, <1>2
  <1>4. /\ chan' = [chan EXCEPT ![k].queue = Tail(q)]
        /\ got' = [got EXCEPT ![k] = Append(got[k], Head(q))]
        /\ UNCHANGED <<storeVars, sender, listener, log, excused>>
        /\ listener[k].at \in {"on", "cancelled"}
    BY DEF Receive, CallTypes, ChanTypes, q
  <1>5. /\ chan' \in [Listeners -> Channels]
        /\ \A j \in Listeners : /\ chan'[j].closed = chan[j].closed
                                /\ Len(chan'[j].queue) <= ChanCap
                                /\ j # k => chan'[j] = chan[j] /\ got'[j] = got[j]
    BY <1>1, <1>2, <1>4 DEF CallTypes, ChanTypes, Channels
  <1>6. ChanTypes'
    BY <1>3, <1>4, <1>5 DEF CallTypes, ChanTypes
  <1>7. CallTypes'
    BY <1>4, <1>6 DEF CallTypes, SenderTypes, ListenerTypes, LogTypes, storeVars
  <1> QED BY <1>4, <1>5, <1>7 DEF Registered, storeVars

LEMMA UnsubscribeTyped ==
  ASSUME CallTypes, Registered, NEW k \in Listeners, Unsubscribe(k)
  PROVE  CallTypes' /\ Registered'
  <1> DEFINE r == listener[k].room
             subs == subscribers[r]
  <1>1. /\ listener[k].at = "cancelled" /\ r \in Rooms /\ subs \in Seq(Listeners) /\ IsInjective(subs)
        /\ listener \in [Listeners -> SubCalls] /\ subscribers \in [Rooms -> Seq(Listeners)]
    BY DEF Unsubscribe, CallTypes, ListenerTypes, Registered
  <1>2. PICK p \in 1..Len(subs) : subs[p] = k
    <2>1. DOMAIN subs = 1..Len(subs)
      BY <1>1
    <2>2. \E i \in DOMAIN subs : subs[i] = k
      BY <1>1 DEF Registered
    <2> QED BY <2>1, <2>2
  <1> DEFINE shorter == Without(subs, k)
  <1>3. k \in ToSet(subscribers[listener[k].room])
    BY <1>1, <1>2 DEF ToSet
  <1>4. /\ listener' = [listener EXCEPT ![k].at = "gone"]
        /\ subscribers' = [subscribers EXCEPT ![r] = shorter]
        /\ chan' = [chan EXCEPT ![k].closed = TRUE]
        /\ UNCHANGED <<rooms, nextMsgID, sender, log, got, excused>>
    BY <1>1, <1>3 DEF Unsubscribe
  <1>5. /\ shorter \in Seq(Listeners) /\ Len(shorter) = Len(subs) - 1
        /\ \A i \in 1..Len(subs) - 1 : shorter[i] = IF i < p THEN subs[i] ELSE subs[i + 1]
    BY <1>1, <1>2, WithoutProperties
  <1>6. DOMAIN subs = 1..Len(subs) /\ Len(subs) \in Nat
    BY <1>1
  <1> HIDE DEF r, subs, shorter
  <1>7. DOMAIN shorter = 1..Len(subs) - 1
    BY <1>5, <1>6
  <1>8. \A i \in DOMAIN shorter : \E j \in DOMAIN subs : j # p /\ shorter[i] = subs[j]
    BY <1>5, <1>6, <1>7
  <1>9. \A j \in DOMAIN subs \ {p} : \E i \in DOMAIN shorter : shorter[i] = subs[j]
    <2> TAKE j \in DOMAIN subs \ {p}
    <2>1. CASE j < p
      BY <1>5, <1>6, <1>7, <2>1
    <2>2. CASE p < j
      <3>1. j - 1 \in DOMAIN shorter /\ ~(j - 1 < p) /\ j - 1 + 1 = j
        BY <1>2, <1>6, <1>7, <2>2
      <3> QED BY <1>5, <1>7, <3>1
    <2> QED BY <1>6, <2>1, <2>2
  <1>10. IsInjective(shorter)
    <2> SUFFICES ASSUME NEW a \in DOMAIN shorter, NEW b \in DOMAIN shorter, shorter[a] = shorter[b]
                 PROVE  a = b
      BY DEF IsInjective
    <2> DEFINE at(i) == IF i < p THEN i ELSE i + 1
    <2>1. at(a) \in DOMAIN subs /\ at(b) \in DOMAIN subs
      BY <1>6, <1>7
    <2>2. subs[at(a)] = subs[at(b)]
      BY <1>5, <1>7
    <2>3. at(a) = at(b)
      BY <1>1, <2>1, <2>2 DEF IsInjective
    <2> QED BY <1>6, <1>7, <2>3
  <1>11. /\ \A j \in Listeners \ {k} : listener'[j] = listener[j] /\ chan'[j] = chan[j]
         /\ listener'[k].at = "gone" /\ listener'[k].room = r /\ chan'[k].closed = TRUE
         /\ chan'[k].queue = chan[k].queue
         /\ listener' \in [Listeners -> SubCalls] /\ chan' \in [Listeners -> Channels]
    BY <1>1, <1>4 DEF CallTypes, ChanTypes, SubCalls, Channels, r
  <1>12. CallTypes'
    <2>1. ListenerTypes'
      BY <1>1, <1>4, <1>5, <1>11 DEF CallTypes, ListenerTypes
    <2>2. ChanTypes'
      BY <1>4, <1>11 DEF CallTypes, ChanTypes
    <2> QED BY <1>4, <2>1, <2>2 DEF CallTypes, SenderTypes, LogTypes
  <1>13. ASSUME NEW q \in Rooms
         PROVE  /\ IsInjective(subscribers'[q])
                /\ \A i \in DOMAIN subscribers'[q] :
                     /\ listener'[subscribers'[q][i]].at \in {"on", "cancelled"}
                     /\ listener'[subscribers'[q][i]].room = q
    <2>1. CASE q = r
      <3>1. \A j \in DOMAIN subs : /\ listener[subs[j]].at \in {"on", "cancelled"}
                                   /\ listener[subs[j]].room = r /\ subs[j] \in Listeners
                                   /\ j # p => subs[j] # k
        BY <1>1, <1>2, <1>6 DEF Registered, subs, IsInjective
      <3>2. subscribers'[q] = shorter
        BY <1>1, <1>4, <2>1
      <3> QED BY <1>8, <1>10, <1>11, <2>1, <3>1, <3>2
    <2>2. CASE q # r
      <3>1. subscribers'[q] = subscribers[q] /\ subscribers[q] \in Seq(Listeners)
        BY <1>1, <1>4, <2>2
      <3>2. \A i \in DOMAIN subscribers[q] : subscribers[q][i] \in Listeners \ {k}
        BY <2>2, <3>1 DEF Registered, r
      <3> QED BY <1>11, <3>1, <3>2 DEF Registered
    <2> QED BY <2>1, <2>2
  <1>14. ASSUME NEW j \in Listeners, listener'[j].at \in {"on", "cancelled"}
         PROVE  \E i \in DOMAIN subscribers'[listener'[j].room] :
                  subscribers'[listener'[j].room][i] = j
    <2>1. j # k /\ listener'[j] = listener[j] /\ listener[j].room \in Rooms
      BY <1>11, <1>14 DEF CallTypes, ListenerTypes
    <2>2. PICK i \in DOMAIN subscribers[listener[j].room] : subscribers[listener[j].room][i] = j
      BY <1>14, <2>1 DEF Registered
    <2>3. CASE listener[j].room = r
      <3>1. i \in DOMAIN subs \ {p} /\ subs[i] = j
        BY <1>2, <2>1, <2>2, <2>3 DEF subs
      <3>2. subscribers'[r] = shorter
        BY <1>1, <1>4
      <3> QED BY <1>9, <2>1, <2>3, <3>1, <3>2
    <2>4. CASE listener[j].room # r
      BY <1>1, <1>4, <2>1, <2>2, <2>4
    <2> QED BY <2>3, <2>4
  <1>15. ASSUME NEW j \in Listeners
         PROVE  /\ chan'[j].closed <=> listener'[j].at = "gone"
                /\ listener'[j].at \notin {"on", "cancelled", "gone"} =>
                     got'[j] = <<>> /\ chan'[j].queue = <<>>
    BY <1>4, <1>11 DEF Registered
  <1> QED BY <1>12, <1>13, <1>14, <1>15 DEF Registered

\* FindRoom and Cancel change one listener, and leave the lists alone.
LEMMA FindOrCancelTyped ==
  ASSUME CallTypes, Registered, NEW k \in Listeners,
         Cancel(k) \/ \E r \in Rooms : FindRoom(k, r)
  PROVE  CallTypes' /\ Registered'
  <1>1. /\ UNCHANGED <<storeVars, chan, sender, log, got, excused>>
        /\ \A j \in Listeners \ {k} : listener'[j] = listener[j]
        /\ listener' \in [Listeners -> SubCalls] /\ listener'[k].room \in Rooms
        /\ \/ listener[k].at = "on" /\ listener'[k].at = "cancelled" /\ listener'[k].room = listener[k].room
           \/ listener[k].at = "idle" /\ listener'[k].at \in {"found", "refused"}
    <2>1. CASE Cancel(k)
      BY <2>1 DEF Cancel, CallTypes, ListenerTypes, SubCalls
    <2>2. CASE \E r \in Rooms : FindRoom(k, r)
      <3>0. PICK r \in Rooms : FindRoom(k, r)
        BY <2>2
      <3> DEFINE c == [at |-> IF r \in rooms THEN "found" ELSE "refused", room |-> r]
      <3>1. c \in SubCalls /\ c.room \in Rooms /\ c.at \in {"found", "refused"}
        BY ChatAssumption DEF SubCalls
      <3>2. listener' = [listener EXCEPT ![k] = c] /\ listener[k].at = "idle"
            /\ UNCHANGED <<storeVars, chan, sender, log, got, excused>>
        BY <3>0 DEF FindRoom
      <3> HIDE DEF c
      <3> QED BY <3>1, <3>2 DEF CallTypes, ListenerTypes
    <2> QED BY <2>1, <2>2
  <1>2. CallTypes'
    <2>1. ListenerTypes'
      BY <1>1 DEF CallTypes, ListenerTypes, storeVars
    <2> QED BY <1>1, <2>1 DEF CallTypes, SenderTypes, ChanTypes, LogTypes, storeVars
  <1>3. \A j \in Listeners : listener[j].at \in {"on", "cancelled"} <=> listener'[j].at \in {"on", "cancelled"}
    BY <1>1
  <1>4. \A j \in Listeners : listener[j].at \in {"on", "cancelled"} => listener'[j].room = listener[j].room
    BY <1>1
  <1>5. \A r \in Rooms : \A i \in DOMAIN subscribers[r] : subscribers[r][i] \in Listeners
    BY DEF CallTypes, ListenerTypes
  <1>6. \A j \in Listeners : /\ chan[j].closed <=> listener'[j].at = "gone"
                             /\ listener'[j].at \notin {"on", "cancelled", "gone"} =>
                                  got[j] = <<>> /\ chan[j].queue = <<>>
    BY <1>1 DEF Registered
  <1>7. UNCHANGED <<subscribers, chan, got>>
    BY <1>1 DEF storeVars
  <1> QED BY <1>2, <1>3, <1>4, <1>5, <1>6, <1>7 DEF Registered

-----------------------------------------------------------------------------
(* Broadcasts *)

\* What a listener received or still has to read.
Heard(k) == got[k] \o chan[k].queue

\* What is sent was stored in the room, once; whom it is sent to subscribed to
\* the room, occurs once in the copy, and has not heard it yet.
SendInv(s) ==
  LET m == sender[s].msg
      subs == sender[s].subs IN
  /\ sender[s].at \in {"stored", "sending", "ok", "failed"} =>
       m < nextMsgID /\ m \in ToSet(log[sender[s].room])
  /\ sender[s].at = "stored" =>
       sender[s].pos = 1 /\ \A k \in Listeners : m \notin ToSet(Heard(k))
  /\ sender[s].at = "sending" =>
       /\ IsInjective(subs)
       /\ \A i \in sender[s].pos..Len(subs) : m \notin ToSet(Heard(subs[i]))
       /\ \A i \in DOMAIN subs : /\ listener[subs[i]].at \in {"on", "cancelled", "gone"}
                                 /\ listener[subs[i]].room = sender[s].room
  /\ sender[s].at = "failed" => \E i \in DOMAIN subs : listener[subs[i]].at = "gone"

HeardInv(k) ==
  /\ IsInjective(Heard(k))
  /\ listener[k].at \in {"on", "cancelled", "gone"} =>
       ToSet(Heard(k)) \subseteq ToSet(log[listener[k].room])

OnceInv ==
  /\ \A s \in Senders : SendInv(s)
  /\ \A s, q \in Senders : /\ sender[s].at \in {"stored", "sending"}
                           /\ sender[q].at \in {"stored", "sending"} /\ s # q
                           => sender[s].msg # sender[q].msg
  /\ \A k \in Listeners : HeardInv(k)
  /\ \A r \in Rooms : \A m \in ToSet(log[r]) : m < nextMsgID

LEMMA InitOnce == Init => OnceInv
  <1> SUFFICES ASSUME Init PROVE OnceInv
    OBVIOUS
  <1>1. \A k \in Listeners : Heard(k) = <<>>
    BY DEF Init, Heard
  <1>2. IsInjective(<<>>) /\ ToSet(<<>>) = {}
    BY DEF IsInjective, ToSet
  <1>3. \A s \in Senders : sender[s].at = "idle"
    BY DEF Init, Idle
  <1> QED BY <1>1, <1>2, <1>3 DEF Init, OnceInv, SendInv, HeardInv

LEMMA ToSetAppend ==
  ASSUME NEW S, NEW seq \in Seq(S), NEW e \in S
  PROVE  ToSet(Append(seq, e)) = ToSet(seq) \cup {e}
  <1> DEFINE longer == Append(seq, e)
  <1>1. /\ longer \in Seq(S) /\ DOMAIN longer = 1..Len(seq) + 1
        /\ DOMAIN seq = 1..Len(seq) /\ Len(seq) \in Nat
        /\ \A i \in 1..Len(seq) : longer[i] = seq[i]
        /\ longer[Len(seq) + 1] = e
    BY AppendProperties
  <1> HIDE DEF longer
  <1>2. \A x : (\E i \in DOMAIN longer : longer[i] = x) <=> (\E i \in DOMAIN seq : seq[i] = x) \/ x = e
    BY <1>1
  <1> QED BY <1>2 DEF ToSet, longer

LEMMA HeardType ==
  ASSUME CallTypes, NEW k \in Listeners
  PROVE  Heard(k) \in Seq(Messages) /\ got[k] \in Seq(Messages) /\ chan[k].queue \in Seq(Messages)
  <1>1. got[k] \in Seq(Messages) /\ chan[k].queue \in Seq(Messages)
    BY DEF CallTypes, ChanTypes, Channels
  <1> QED BY <1>1, ConcatProperties DEF Heard

\* Taking a value from the channel changes nothing of what a listener heard.
LEMMA ReceiveHears ==
  ASSUME CallTypes, NEW k \in Listeners, Receive(k)
  PROVE  \A j \in Listeners : Heard(j)' = Heard(j)
  <1> DEFINE q == chan[k].queue
             g == got[k]
  <1>1. /\ q \in Seq(Messages) /\ g \in Seq(Messages) /\ q # <<>>
        /\ chan \in [Listeners -> Channels] /\ got \in [Listeners -> Seq(Messages)]
    BY HeardType DEF Receive, CallTypes, ChanTypes
  <1>2. /\ chan'[k].queue = Tail(q) /\ got'[k] = Append(g, Head(q))
        /\ \A j \in Listeners \ {k} : chan'[j] = chan[j] /\ got'[j] = got[j]
    BY <1>1 DEF Receive, Channels
  <1> HIDE DEF q, g
  <1>3. Head(q) \in Messages /\ Tail(q) \in Seq(Messages) /\ <<Head(q)>> \in Seq(Messages)
    BY <1>1, HeadTailProperties
  <1>4. q = <<Head(q)>> \o Tail(q)
    <2>1. /\ Len(q) \in Nat \ {0} /\ Len(Tail(q)) = Len(q) - 1
          /\ \A i \in 1..Len(q) - 1 : Tail(q)[i] = q[i + 1]
      BY <1>1, HeadTailProperties, EmptySeq
    <2>2. /\ <<Head(q)>> \o Tail(q) \in Seq(Messages)
          /\ Len(<<Head(q)>> \o Tail(q)) = 1 + Len(Tail(q))
          /\ \A i \in 1..1 + Len(Tail(q)) :
               (<<Head(q)>> \o Tail(q))[i] = IF i <= 1 THEN <<Head(q)>>[i] ELSE Tail(q)[i - 1]
      BY <1>3, ConcatProperties
    <2>3. Head(q) = q[1]
      BY <1>1
    <2>4. \A i \in 1..Len(q) : q[i] = (<<Head(q)>> \o Tail(q))[i]
      BY <2>1, <2>2, <2>3
    <2> QED BY <1>1, <2>1, <2>2, <2>4, SeqEqual
  <1>5. Append(g, Head(q)) = g \o <<Head(q)>>
    BY <1>1, <1>3, AppendIsConcat
  <1>6. (g \o <<Head(q)>>) \o Tail(q) = g \o (<<Head(q)>> \o Tail(q))
    BY <1>1, <1>3, ConcatAssociative
  <1> QED BY <1>2, <1>4, <1>5, <1>6 DEF Heard, q, g

\* An offer is heard last by its target alone, or is excused.
LEMMA OfferHears ==
  ASSUME CallTypes, NEW s \in Senders, Offer(s), NEW k \in Listeners, k = Target(s)
  PROVE  /\ \A j \in Listeners \ {k} : Heard(j)' = Heard(j) /\ excused'[j] = excused[j]
         /\ \/ Heard(k)' = Heard(k) /\ excused'[k] = excused[k] \cup {sender[s].msg}
            \/ Heard(k)' = Append(Heard(k), sender[s].msg) /\ excused'[k] = excused[k]
         /\ sender[s].msg \in Messages
  <1> DEFINE m == sender[s].msg
             q == chan[k].queue
             g == got[k]
  <1>1. /\ q \in Seq(Messages) /\ g \in Seq(Messages)
        /\ chan \in [Listeners -> Channels] /\ excused \in [Listeners -> SUBSET Messages]
    BY HeardType DEF CallTypes, ChanTypes
  <1>2. m \in Messages
    BY DEF Offer, Sending, CallTypes, SenderTypes
  <1>3. /\ got' = got
        /\ \/ chan' = chan /\ excused' = [excused EXCEPT ![k] = @ \cup {m}]
           \/ chan' = [chan EXCEPT ![k].queue = Append(q, m)] /\ excused' = excused
    BY DEF Offer
  <1> HIDE DEF m, q, g
  <1>4. g \o Append(q, m) = Append(g \o q, m)
    <2>1. /\ <<m>> \in Seq(Messages) /\ g \o q \in Seq(Messages)
      BY <1>1, <1>2, ConcatProperties
    <2>2. Append(q, m) = q \o <<m>> /\ Append(g \o q, m) = (g \o q) \o <<m>>
      BY <1>1, <1>2, <2>1, AppendIsConcat
    <2>3. (g \o q) \o <<m>> = g \o (q \o <<m>>)
      BY <1>1, <2>1, ConcatAssociative
    <2> QED BY <2>2, <2>3
  <1>5. CASE chan' = chan /\ excused' = [excused EXCEPT ![k] = @ \cup {m}]
    BY <1>1, <1>2, <1>3, <1>5 DEF Heard, m
  <1>6. CASE chan' = [chan EXCEPT ![k].queue = Append(q, m)] /\ excused' = excused
    <2>1. \A j \in Listeners \ {k} : chan'[j] = chan[j]
      BY <1>1, <1>6
    <2>2. chan'[k].queue = Append(q, m)
      BY <1>1, <1>6 DEF Channels
    <2> QED BY <1>2, <1>3, <1>4, <1>6, <2>1, <2>2 DEF Heard, m, q, g
  <1> QED BY <1>3, <1>5, <1>6

\* A step of a listener leaves what is being sent, and what it heard, alone.
LEMMA OnceListener ==
  ASSUME CallTypes, OnceInv, UNCHANGED <<sender, log, nextMsgID>>,
         \A k \in Listeners :
           /\ Heard(k)' = Heard(k)
           /\ listener[k].at \in {"on", "cancelled", "gone"} =>
                listener'[k].at \in {"on", "cancelled", "gone"} /\ listener'[k].room = listener[k].room
           /\ listener[k].at = "gone" => listener'[k].at = "gone"
           /\ listener'[k].at \in {"on", "cancelled", "gone"} =>
                listener[k].at \in {"on", "cancelled", "gone"} \/ Heard(k) = <<>>
  PROVE  OnceInv'
  <1>1. ASSUME NEW s \in Senders PROVE SendInv(s)'
    <2> DEFINE subs == sender[s].subs
    <2>1. /\ subs \in Seq(Listeners) /\ DOMAIN subs = 1..Len(subs)
          /\ \A i \in DOMAIN subs : subs[i] \in Listeners
          /\ sender[s].pos \in Nat \ {0}
      BY DEF CallTypes, SenderTypes, SendCalls
    <2>2. \A i \in sender[s].pos..Len(subs) : Heard(subs[i])' = Heard(subs[i])
      BY <2>1
    <2>3. SendInv(s)
      BY DEF OnceInv
    <2> QED BY <2>1, <2>2, <2>3 DEF SendInv
  <1>2. ASSUME NEW k \in Listeners PROVE HeardInv(k)'
    <2>1. ToSet(<<>>) = {}
      BY DEF ToSet
    <2>2. HeardInv(k)
      BY DEF OnceInv
    <2>3. IsInjective(Heard(k))'
      BY <2>2 DEF HeardInv, IsInjective
    <2>4. ASSUME listener'[k].at \in {"on", "cancelled", "gone"}
          PROVE  ToSet(Heard(k))' \subseteq ToSet(log[listener[k].room])'
      <3>1. ToSet(Heard(k))' = ToSet(Heard(k)) /\ log' = log
        BY DEF ToSet
      <3>2. CASE Heard(k) = <<>>
        BY <2>1, <3>1, <3>2
      <3>3. CASE listener[k].at \in {"on", "cancelled", "gone"}
        BY <2>2, <3>1, <3>3 DEF HeardInv
      <3> QED BY <2>4, <3>2, <3>3
    <2> QED BY <2>3, <2>4 DEF HeardInv
  <1> QED BY <1>1, <1>2 DEF OnceInv

\* A step of a sender that reaches no channel.
LEMMA OnceSender ==
  ASSUME CallTypes, OnceInv, NEW s \in Senders, SendInv(s)',
         UNCHANGED <<listener, log, nextMsgID, got, chan>>,
         \A q \in Senders \ {s} : sender'[q] = sender[q],
         sender'[s].at \in {"stored", "sending"} =>
           sender[s].at \in {"stored", "sending"} /\ sender'[s].msg = sender[s].msg
  PROVE  OnceInv'
  <1>1. \A k : Heard(k)' = Heard(k)
    BY DEF Heard
  <1>2. ASSUME NEW q \in Senders PROVE SendInv(q)'
    <2>1. CASE q # s
      <3>1. SendInv(q) /\ sender'[q] = sender[q]
        BY <2>1 DEF OnceInv
      <3> QED BY <1>1, <3>1 DEF SendInv
    <2> QED BY <2>1
  <1>3. \A k \in Listeners : HeardInv(k)'
    BY <1>1 DEF OnceInv, HeardInv
  <1> QED BY <1>2, <1>3 DEF OnceInv

LEMMA StoreOnce ==
  ASSUME CallTypes, Registered, OnceInv, NEW s \in Senders, NEW r \in Rooms, Store(s, r)
  PROVE  OnceInv'
  <1> DEFINE m == nextMsgID
  <1>1. /\ m \in Messages /\ m \in Nat /\ nextMsgID' = m + 1 /\ sender[s].at = "idle"
        /\ log' = [log EXCEPT ![r] = Append(log[r], m)]
        /\ log \in [Rooms -> Seq(Messages)]
        /\ UNCHANGED <<listener, got, chan>>
    BY ChatAssumption DEF Store, CallTypes, LogTypes, Messages
  <1>2. /\ sender'[s].at = "stored" /\ sender'[s].room = r /\ sender'[s].msg = m /\ sender'[s].pos = 1
        /\ \A q \in Senders \ {s} : sender'[q] = sender[q]
    BY DEF Store, CallTypes, SenderTypes, Idle
  <1> HIDE DEF m
  <1>3. /\ \A q \in Rooms \ {r} : log'[q] = log[q]
        /\ ToSet(log'[r]) = ToSet(log[r]) \cup {m}
    BY <1>1, ToSetAppend
  <1>4. \A q \in Rooms : ToSet(log[q]) \subseteq ToSet(log'[q])
    BY <1>3
  <1>5. \A k : Heard(k)' = Heard(k)
    BY <1>1 DEF Heard
  <1>6. \A k \in Listeners : m \notin ToSet(Heard(k))
    <2> SUFFICES ASSUME NEW k \in Listeners PROVE m \notin ToSet(Heard(k))
      OBVIOUS
    <2>1. CASE listener[k].at \in {"on", "cancelled", "gone"}
      <3>1. ToSet(Heard(k)) \subseteq ToSet(log[listener[k].room]) /\ listener[k].room \in Rooms
        BY <2>1 DEF OnceInv, HeardInv, CallTypes, ListenerTypes
      <3> QED BY <1>1, <3>1 DEF OnceInv, m
    <2>2. CASE listener[k].at \notin {"on", "cancelled", "gone"}
      <3>1. Heard(k) = <<>> \o <<>>
        BY <2>2 DEF Registered, Heard
      <3>2. Heard(k) = <<>>
        BY <3>1
      <3> QED BY <3>2 DEF ToSet
    <2> QED BY <2>1, <2>2
  <1>7. \A q \in Senders : sender[q].at \in {"stored", "sending", "ok", "failed"} =>
          sender[q].msg # m /\ sender[q].msg < m + 1 /\ sender[q].room \in Rooms /\ sender[q].msg \in Nat
    <2> SUFFICES ASSUME NEW q \in Senders, sender[q].at \in {"stored", "sending", "ok", "failed"}
                 PROVE  sender[q].msg # m /\ sender[q].msg < m + 1
                        /\ sender[q].room \in Rooms /\ sender[q].msg \in Nat
      OBVIOUS
    <2>1. sender[q].msg < nextMsgID
      BY DEF OnceInv, SendInv
    <2>2. sender[q].room \in Rooms /\ sender[q].msg \in Nat
      BY DEF CallTypes, SenderTypes, Messages
    <2>3. m = nextMsgID /\ nextMsgID \in Nat
      BY <1>1 DEF m
    <2> QED BY <2>1, <2>2, <2>3
  <1>8. ASSUME NEW q \in Senders PROVE SendInv(q)'
    <2>1. CASE q = s
      <3>1. m \in ToSet(log'[r]) /\ m < m + 1
        BY <1>1, <1>3
      <3> QED BY <1>1, <1>2, <1>5, <1>6, <2>1, <3>1 DEF SendInv
    <2>2. CASE q # s
      <3>1. SendInv(q) /\ sender'[q] = sender[q]
        BY <1>2, <2>2 DEF OnceInv
      <3> QED BY <1>1, <1>4, <1>5, <1>7, <3>1 DEF SendInv
    <2> QED BY <2>1, <2>2
  <1>9. \A k \in Listeners : HeardInv(k)'
    <2>1. \A k \in Listeners : listener[k].at \in {"on", "cancelled", "gone"} => listener[k].room \in Rooms
      BY DEF CallTypes, ListenerTypes
    <2> QED BY <1>1, <1>4, <1>5, <2>1 DEF OnceInv, HeardInv
  <1>10. \A q \in Rooms : \A x \in ToSet(log'[q]) : x < nextMsgID'
    <2> SUFFICES ASSUME NEW q \in Rooms, NEW x \in ToSet(log'[q]) PROVE x < m + 1
      BY <1>1
    <2>1. x \in Messages
      <3>1. log'[q] \in Seq(Messages)
        BY <1>1
      <3> QED BY <3>1 DEF ToSet
    <2>2. x = m \/ x \in ToSet(log[q])
      BY <1>3
    <2>3. x \in Nat
      BY <2>1, ChatAssumption DEF Messages
    <2>4. x = m \/ x < m
      BY <2>2 DEF OnceInv, m
    <2> QED BY <1>1, <2>3, <2>4
  <1>11. \A q, p \in Senders : /\ sender'[q].at \in {"stored", "sending"}
                               /\ sender'[p].at \in {"stored", "sending"} /\ q # p
                               => sender'[q].msg # sender'[p].msg
    BY <1>2, <1>7 DEF OnceInv
  <1> QED BY <1>8, <1>9, <1>10, <1>11 DEF OnceInv

LEMMA OfferOnce ==
  ASSUME CallTypes, Registered, OnceInv, NEW s \in Senders, Offer(s)
  PROVE  OnceInv'
  <1>0. PICK subs \in Seq(Listeners), pos \in Nat \ {0}, m \in Messages :
          subs = sender[s].subs /\ pos = sender[s].pos /\ m = sender[s].msg
    BY DEF Offer, Sending, CallTypes, SenderTypes, SendCalls
  <1>a. sender[s].at = "sending" /\ pos <= Len(subs) /\ Target(s) = subs[pos]
    BY <1>0 DEF Offer, Sending, Recipients, Target
  <1>b. /\ DOMAIN subs = 1..Len(subs) /\ Len(subs) \in Nat /\ pos \in DOMAIN subs
        /\ \A i \in DOMAIN subs : subs[i] \in Listeners
    BY <1>a
  <1>c. PICK k \in Listeners : k = Target(s) /\ k = subs[pos]
    BY <1>a, <1>b
  <1>1. /\ sender[s].at = "sending" /\ sender[s].subs = subs /\ sender[s].pos = pos
        /\ sender[s].msg = m /\ sender[s].room \in Rooms
    BY <1>0, <1>a DEF CallTypes, SenderTypes
  <1>2. /\ sender'[s].at = "sending" /\ sender'[s].subs = subs /\ sender'[s].pos = pos + 1
        /\ sender'[s].msg = m /\ sender'[s].room = sender[s].room
        /\ \A q \in Senders \ {s} : sender'[q] = sender[q]
        /\ UNCHANGED <<listener, log, nextMsgID>>
    BY <1>0, <1>1 DEF Offer, CallTypes, SenderTypes, SendCalls, storeVars
  <1>3. /\ \A j \in Listeners \ {k} : Heard(j)' = Heard(j)
        /\ Heard(k)' = Heard(k) \/ Heard(k)' = Append(Heard(k), m)
        /\ m \in Messages
    BY <1>1, <1>c, OfferHears
  <1>4. SendInv(s) /\ HeardInv(k)
    BY <1>1 DEF OnceInv
  <1>5. m \notin ToSet(Heard(k))
    BY <1>1, <1>b, <1>c, <1>4 DEF SendInv
  <1>6. Heard(k) \in Seq(Messages)
    BY <1>1, HeardType
  <1>7. \A j \in Listeners : ToSet(Heard(j))' \subseteq ToSet(Heard(j)) \cup {m}
    <2>1. ToSet(Append(Heard(k), m)) = ToSet(Heard(k)) \cup {m}
      BY <1>6, ToSetAppend
    <2>2. \A j \in Listeners : Heard(j)' = Heard(j) \/ (j = k /\ Heard(j)' = Append(Heard(j), m))
      BY <1>3
    <2> QED BY <2>1, <2>2
  <1>8. \A j \in Listeners \ {k} : ToSet(Heard(j))' = ToSet(Heard(j))
    BY <1>3
  <1>9. ASSUME NEW q \in Senders PROVE SendInv(q)'
    <2>1. CASE q = s
      <3>1. ASSUME NEW i \in pos + 1..Len(subs) PROVE m \notin ToSet(Heard(subs[i]))'
        <4>1. i \in DOMAIN subs /\ i \in pos..Len(subs) /\ i # pos
          BY <1>b, <3>1
        <4>2. subs[i] # k /\ subs[i] \in Listeners
          BY <1>1, <1>b, <1>c, <1>4, <4>1 DEF SendInv, IsInjective
        <4>3. m \notin ToSet(Heard(subs[i]))
          BY <1>1, <1>4, <4>1 DEF SendInv
        <4> QED BY <1>8, <4>2, <4>3
      <3> QED BY <1>1, <1>2, <1>4, <2>1, <3>1 DEF SendInv
    <2>2. CASE q # s
      <3>1. SendInv(q) /\ sender'[q] = sender[q]
        BY <1>2, <2>2 DEF OnceInv
      <3>2. sender[q].at \in {"stored", "sending"} => sender[q].msg # m
        BY <1>1, <2>2 DEF OnceInv
      <3>3. /\ sender[q].subs \in Seq(Listeners) /\ sender[q].pos \in Nat \ {0}
            /\ DOMAIN sender[q].subs = 1..Len(sender[q].subs)
        BY DEF CallTypes, SenderTypes, SendCalls
      <3>4. \A i \in sender[q].pos..Len(sender[q].subs) : sender[q].subs[i] \in Listeners
        BY <3>3
      <3>5. sender[q].at = "stored" => \A j \in Listeners : sender[q].msg \notin ToSet(Heard(j))'
        BY <1>7, <3>1, <3>2 DEF SendInv
      <3>6. sender[q].at = "sending" =>
              \A i \in sender[q].pos..Len(sender[q].subs) :
                sender[q].msg \notin ToSet(Heard(sender[q].subs[i]))'
        BY <1>7, <3>1, <3>2, <3>4 DEF SendInv
      <3> QED BY <1>2, <3>1, <3>5, <3>6 DEF SendInv
    <2> QED BY <2>1, <2>2
  <1>10. ASSUME NEW j \in Listeners PROVE HeardInv(j)'
    <2>1. HeardInv(j)
      BY DEF OnceInv
    <2>2. CASE j # k
      BY <1>2, <1>3, <2>1, <2>2 DEF HeardInv
    <2>3. CASE j = k
      <3>1. IsInjective(Append(Heard(k), m))
        <4>1. \A i \in DOMAIN Heard(k) : Heard(k)[i] # m
          BY <1>5 DEF ToSet
        <4> QED BY <1>3, <1>4, <1>6, <4>1, StillInjective DEF HeardInv
      <3>2. IsInjective(Heard(k))'
        BY <1>3, <1>4, <3>1 DEF HeardInv
      <3>3. m \in ToSet(log[listener[k].room])
        BY <1>1, <1>b, <1>c, <1>4 DEF SendInv
      <3>4. ToSet(Heard(k)) \subseteq ToSet(log[listener[k].room])
        BY <1>1, <1>b, <1>c, <1>4 DEF HeardInv, SendInv
      <3>5. ToSet(Heard(k))' \subseteq ToSet(log[listener[k].room])
        BY <1>1, <1>7, <3>3, <3>4
      <3> QED BY <1>2, <2>3, <3>2, <3>5 DEF HeardInv
    <2> QED BY <2>2, <2>3
  <1>11. \A q, p \in Senders : /\ sender'[q].at \in {"stored", "sending"}
                               /\ sender'[p].at \in {"stored", "sending"} /\ q # p
                               => sender'[q].msg # sender'[p].msg
    BY <1>1, <1>2 DEF OnceInv
  <1> QED BY <1>2, <1>9, <1>10, <1>11 DEF OnceInv

LEMMA SendersOnce ==
  ASSUME CallTypes, Registered, OnceInv, NEW s \in Senders,
         \/ CopySubscribers(s) \/ SendPanics(s) \/ BroadcastDone(s) \/ SendAgain(s)
         \/ \E r \in Rooms : SendRefused(s, r)
  PROVE  OnceInv'
  <1>1. /\ UNCHANGED <<storeVars, chan, listener, log, got>>
        /\ \A q \in Senders \ {s} : sender'[q] = sender[q]
    BY DEF CopySubscribers, SendPanics, BroadcastDone, SendAgain, SendRefused, CallTypes, SenderTypes
  <1>2. UNCHANGED <<listener, log, nextMsgID, got, chan>> /\ \A k : Heard(k)' = Heard(k)
    BY <1>1 DEF storeVars, Heard
  <1>3. SendInv(s) /\ sender \in [Senders -> SendCalls]
    BY DEF OnceInv, CallTypes, SenderTypes
  <1>4. CASE CopySubscribers(s)
    <2>1. PICK r \in Rooms : r = sender[s].room
      BY <1>4 DEF CopySubscribers, CallTypes, SenderTypes
    <2>2. /\ sender[s].at = "stored" /\ sender'[s].at = "sending" /\ sender'[s].subs = subscribers[r]
          /\ sender'[s].room = r /\ sender'[s].msg = sender[s].msg /\ sender'[s].pos = sender[s].pos
      BY <1>3, <1>4, <2>1 DEF CopySubscribers, SendCalls
    <2>3. /\ subscribers[r] \in Seq(Listeners) /\ IsInjective(subscribers[r])
          /\ \A i \in DOMAIN subscribers[r] : /\ listener[subscribers[r][i]].at \in {"on", "cancelled"}
                                              /\ listener[subscribers[r][i]].room = r
      BY DEF CallTypes, ListenerTypes, Registered
    <2>4. \A i \in 1..Len(subscribers[r]) : subscribers[r][i] \in Listeners
      BY <2>3
    <2>5. SendInv(s)'
      BY <1>2, <1>3, <2>1, <2>2, <2>3, <2>4 DEF SendInv
    <2> QED BY <1>1, <1>2, <2>2, <2>5, OnceSender
  <1>5. CASE SendPanics(s)
    <2>1. PICK i \in DOMAIN sender[s].subs : chan[sender[s].subs[i]].closed
      BY <1>3, <1>5 DEF SendPanics, Sending, Target, Recipients, SendCalls
    <2>2. listener[sender[s].subs[i]].at = "gone"
      <3>1. sender[s].subs \in Seq(Listeners)
        BY <1>3 DEF SendCalls
      <3> QED BY <2>1, <3>1 DEF Registered
    <2>3. /\ sender[s].at = "sending" /\ sender'[s].at = "failed" /\ sender'[s].subs = sender[s].subs
          /\ sender'[s].room = sender[s].room /\ sender'[s].msg = sender[s].msg
      BY <1>3, <1>5 DEF SendPanics, Sending, SendCalls
    <2>4. SendInv(s)'
      BY <1>2, <1>3, <2>1, <2>2, <2>3 DEF SendInv
    <2> QED BY <1>1, <1>2, <2>3, <2>4, OnceSender
  <1>6. CASE BroadcastDone(s)
    <2>1. /\ sender[s].at = "sending" /\ sender'[s].at = "ok"
          /\ sender'[s].room = sender[s].room /\ sender'[s].msg = sender[s].msg
      BY <1>3, <1>6 DEF BroadcastDone, SendCalls
    <2>2. SendInv(s)'
      BY <1>2, <1>3, <2>1 DEF SendInv
    <2> QED BY <1>1, <1>2, <2>1, <2>2, OnceSender
  <1>7. CASE SendAgain(s) \/ \E r \in Rooms : SendRefused(s, r)
    <2>1. sender'[s].at \in {"idle", "refused"}
      BY <1>3, <1>7 DEF SendAgain, SendRefused, Idle, SendCalls
    <2>2. SendInv(s)'
      BY <2>1 DEF SendInv
    <2> QED BY <1>1, <1>2, <2>1, <2>2, OnceSender
  <1> QED BY <1>4, <1>5, <1>6, <1>7

LEMMA ListenersOnce ==
  ASSUME CallTypes, Registered, OnceInv, NEW k \in Listeners,
         \/ Subscribe(k) \/ Receive(k) \/ Cancel(k) \/ Unsubscribe(k)
         \/ \E r \in Rooms : FindRoom(k, r)
  PROVE  OnceInv'
  <1>1. UNCHANGED <<sender, log, nextMsgID>> /\ listener \in [Listeners -> SubCalls]
        /\ chan \in [Listeners -> Channels]
    BY DEF Subscribe, Receive, Cancel, Unsubscribe, FindRoom, storeVars, CallTypes, ListenerTypes, ChanTypes
  <1>2. \A j \in Listeners : Heard(j)' = Heard(j)
    <2>1. CASE Receive(k)
      BY <2>1, ReceiveHears
    <2>2. CASE Unsubscribe(k)
      <3>1. got' = got /\ \A j \in Listeners : chan'[j].queue = chan[j].queue
        <4>1. got' = got /\ (chan' = chan \/ chan' = [chan EXCEPT ![k].closed = TRUE])
          BY <2>2 DEF Unsubscribe
        <4> QED BY <1>1, <4>1 DEF Channels
      <3> QED BY <3>1 DEF Heard
    <2>3. CASE Subscribe(k) \/ Cancel(k) \/ \E r \in Rooms : FindRoom(k, r)
      BY <2>3 DEF Subscribe, Cancel, FindRoom, Heard
    <2> QED BY <2>1, <2>2, <2>3
  <1>3. \A j \in Listeners :
          \/ listener'[j] = listener[j]
          \/ /\ listener[j].at \notin {"on", "cancelled", "gone"}
          \/ /\ listener[j].at # "gone" /\ listener[j].at \in {"on", "cancelled"}
             /\ listener'[j].at \in {"on", "cancelled", "gone"} /\ listener'[j].room = listener[j].room
    BY <1>1 DEF Subscribe, Receive, Cancel, Unsubscribe, FindRoom, SubCalls
  <1>4. \A j \in Listeners : listener[j].at \notin {"on", "cancelled", "gone"} => Heard(j) = <<>>
    <2>1. <<>> \o <<>> = <<>>
      OBVIOUS
    <2> QED BY <2>1 DEF Registered, Heard
  <1> QED BY <1>1, <1>2, <1>3, <1>4, OnceListener

\* What is sent is delivered at most once, and only in its room.
ChatInv == CallTypes /\ Registered /\ OnceInv

LEMMA ChatInvariant == Spec => []ChatInv
  <1>1. Init => ChatInv
    BY InitTyped, InitOnce DEF ChatInv
  <1>2. ChatInv /\ [Next]_vars => ChatInv'
    <2> SUFFICES ASSUME CallTypes, Registered, OnceInv, [Next]_vars PROVE ChatInv'
      BY DEF ChatInv
    <2>1. Addressed
      BY DEF Addressed, OnceInv, SendInv
    <2>2. ASSUME NEW s \in Senders, NEW r \in Rooms, SendRefused(s, r) \/ Store(s, r) PROVE ChatInv'
      BY <2>2, SendersTyped, SendersOnce, StoreOnce DEF ChatInv
    <2>3. ASSUME NEW s \in Senders,
                 CopySubscribers(s) \/ SendPanics(s) \/ BroadcastDone(s) \/ SendAgain(s)
          PROVE  ChatInv'
      BY <2>3, SendersTyped, SendersOnce DEF ChatInv
    <2>4. ASSUME NEW s \in Senders, Offer(s) PROVE ChatInv'
      BY <2>1, <2>4, OfferTyped, OfferOnce DEF ChatInv
    <2>5. ASSUME NEW k \in Listeners, Subscribe(k) \/ Receive(k) \/ Unsubscribe(k) PROVE ChatInv'
      BY <2>5, SubscribeTyped, ReceiveTyped, UnsubscribeTyped, ListenersOnce DEF ChatInv
    <2>6. ASSUME NEW k \in Listeners, Cancel(k) \/ \E r \in Rooms : FindRoom(k, r) PROVE ChatInv'
      BY <2>6, FindOrCancelTyped, ListenersOnce DEF ChatInv
    <2>7. ASSUME (\E r \in Rooms : CreateRoom(r)) \/ UNCHANGED vars PROVE ChatInv'
      <3>1. /\ UNCHANGED <<nextMsgID, subscribers, chan, sender, listener, log, got, excused>>
            /\ rooms' \subseteq Rooms
        BY <2>7 DEF CreateRoom, vars, storeVars, CallTypes, LogTypes
      <3>2. CallTypes'
        BY <3>1 DEF CallTypes, SenderTypes, ListenerTypes, ChanTypes, LogTypes
      <3>3. Registered'
        BY <3>1 DEF Registered
      <3>4. OnceInv'
        <4>1. \A k \in Listeners : Heard(k)' = Heard(k)
          BY <3>1 DEF Heard
        <4> QED BY <3>1, <4>1, OnceListener
      <3> QED BY <3>2, <3>3, <3>4 DEF ChatInv
    <2> QED BY <2>2, <2>3, <2>4, <2>5, <2>6, <2>7 DEF Next, Send
  <1> QED BY <1>1, <1>2, PTL DEF Spec

\* No listener is sent a message twice, and none of another room: whatever the
\* order in which broadcasts, subscriptions and departures interleave.
THEOREM DeliversOnce == Spec => []OncePerListener
  <1>1. ChatInv => OncePerListener
    <2> SUFFICES ASSUME ChatInv, NEW k \in Listeners
                 PROVE  /\ IsInjective(Heard(k))
                        /\ ToSet(Heard(k)) \subseteq
                             ToSet(IF listener[k].room \in Rooms THEN log[listener[k].room] ELSE <<>>)
      BY DEF OncePerListener, Heard
    <2>1. IsInjective(Heard(k))
      BY DEF ChatInv, OnceInv, HeardInv
    <2>2. CASE listener[k].at \in {"on", "cancelled", "gone"}
      BY <2>1, <2>2 DEF ChatInv, OnceInv, HeardInv, CallTypes, ListenerTypes
    <2>3. CASE listener[k].at \notin {"on", "cancelled", "gone"}
      <3>1. Heard(k) = <<>> \o <<>>
        BY <2>3 DEF ChatInv, Registered, Heard
      <3>2. ToSet(Heard(k)) = {}
        BY <3>1 DEF ToSet
      <3> QED BY <2>1, <3>2
    <2> QED BY <2>2, <2>3
  <1> QED BY <1>1, ChatInvariant, PTL

\* SendMessage fails after it stored its message only because a listener whose
\* channel it had copied has unsubscribed since.
THEOREM FailsForLeavers == Spec => []FailsOnlyForLeavers
  <1>1. ChatInv => FailsOnlyForLeavers
    <2> SUFFICES ASSUME ChatInv, NEW s \in Senders, sender[s].at = "failed"
                 PROVE  \E k \in ToSet(sender[s].subs) : listener[k].at = "gone"
      BY DEF FailsOnlyForLeavers
    <2>1. SendInv(s)
      BY DEF ChatInv, OnceInv
    <2> QED BY <2>1 DEF SendInv, ToSet
  <1> QED BY <1>1, ChatInvariant, PTL

\* A listener that stays has heard what was sent to its room since, or is still
\* ahead of the sender in its copy of the list.
Reached(s, k) ==
  /\ listener[k].at = "on" /\ sender[s].at \in {"sending", "ok", "failed"}
  /\ sender[s].room = listener[k].room
  => \/ sender[s].msg \in ToSet(Heard(k)) \cup excused[k]
     \/ /\ sender[s].at = "sending"
        /\ \E i \in sender[s].pos..Len(sender[s].subs) : sender[s].subs[i] = k

ReachInv == \A s \in Senders, k \in Listeners : Reached(s, k)

\* What a listener heard or was excused from only grows while it is subscribed.
LEMMA ReachedStays ==
  ASSUME NEW s \in Senders, NEW k \in Listeners, Reached(s, k), sender'[s] = sender[s],
         listener'[k].at = "on" => listener[k] = listener'[k],
         ToSet(Heard(k)) \subseteq ToSet(Heard(k))', excused[k] \subseteq excused'[k]
  PROVE  Reached(s, k)'
  BY DEF Reached

LEMMA SendersReach ==
  ASSUME ChatInv, ReachInv, NEW s \in Senders,
         \/ CopySubscribers(s) \/ SendPanics(s) \/ BroadcastDone(s) \/ SendAgain(s)
         \/ \E r \in Rooms : SendRefused(s, r) \/ Store(s, r)
  PROVE  ReachInv'
  <1>0. /\ sender \in [Senders -> SendCalls] /\ excused \in [Listeners -> SUBSET Messages]
        /\ subscribers \in [Rooms -> Seq(Listeners)]
    BY DEF ChatInv, CallTypes, SenderTypes, ChanTypes, ListenerTypes
  <1>1. /\ UNCHANGED <<listener, chan, got>> /\ \A q \in Senders \ {s} : sender'[q] = sender[q]
        /\ \A k \in Listeners : excused[k] \subseteq excused'[k]
    BY <1>0 DEF CopySubscribers, SendPanics, BroadcastDone, SendAgain, SendRefused, Store
  <1>2. \A k : Heard(k)' = Heard(k)
    BY <1>1 DEF Heard
  <1>3. ASSUME NEW k \in Listeners PROVE Reached(s, k)'
    <2>0. Reached(s, k)
      BY DEF ReachInv
    <2>1. CASE CopySubscribers(s)
      <3>1. /\ sender[s].at = "stored" /\ sender[s].pos = 1 /\ sender[s].room \in Rooms
        BY <2>1 DEF CopySubscribers, ChatInv, OnceInv, SendInv, CallTypes, SenderTypes
      <3>2. /\ sender'[s].at = "sending" /\ sender'[s].subs = subscribers[sender[s].room]
            /\ sender'[s].room = sender[s].room /\ sender'[s].pos = 1
        BY <1>0, <2>1, <3>1 DEF CopySubscribers, SendCalls
      <3>3. listener[k].at = "on" /\ sender[s].room = listener[k].room =>
              \E i \in DOMAIN subscribers[sender[s].room] : subscribers[sender[s].room][i] = k
        BY DEF ChatInv, Registered
      <3>4. DOMAIN subscribers[sender[s].room] = 1..Len(subscribers[sender[s].room])
        BY <1>0, <3>1
      <3> QED BY <1>1, <3>2, <3>3, <3>4 DEF Reached
    <2>2. CASE SendPanics(s)
      <3>1. /\ sender[s].at = "sending" /\ sender'[s].at = "failed"
            /\ sender'[s].room = sender[s].room /\ sender'[s].msg = sender[s].msg
        BY <1>0, <2>2 DEF SendPanics, Sending, SendCalls
      <3>2. (\E i \in sender[s].pos..Len(sender[s].subs) : sender[s].subs[i] = k)
              => sender[s].msg \in excused'[k]
        BY <2>2 DEF SendPanics, Recipients
      <3> QED BY <1>1, <1>2, <2>0, <3>1, <3>2 DEF Reached
    <2>3. CASE BroadcastDone(s)
      <3>1. /\ sender[s].at = "sending" /\ sender'[s].at = "ok"
            /\ sender'[s].room = sender[s].room /\ sender'[s].msg = sender[s].msg
        BY <1>0, <2>3 DEF BroadcastDone, SendCalls
      <3>2. ~(\E i \in sender[s].pos..Len(sender[s].subs) : TRUE)
        BY <1>0, <2>3, <3>1 DEF BroadcastDone, Sending, Recipients, SendCalls
      <3> QED BY <1>1, <1>2, <2>0, <3>1, <3>2 DEF Reached
    <2>4. CASE SendAgain(s) \/ \E r \in Rooms : SendRefused(s, r) \/ Store(s, r)
      <3>1. sender'[s].at \notin {"sending", "ok", "failed"}
        <4>1. ASSUME NEW r \in Rooms, Store(s, r) PROVE sender'[s].at = "stored"
          BY <1>0, <4>1 DEF Store, Idle
        <4>2. ASSUME NEW r \in Rooms, SendRefused(s, r) PROVE sender'[s].at = "refused"
          BY <1>0, <4>2 DEF SendRefused, SendCalls
        <4>3. CASE SendAgain(s)
          BY <1>0, <4>3 DEF SendAgain, Idle
        <4> QED BY <2>4, <4>1, <4>2, <4>3
      <3> QED BY <3>1 DEF Reached
    <2> QED BY <2>1, <2>2, <2>3, <2>4
  <1>4. ASSUME NEW q \in Senders \ {s}, NEW k \in Listeners PROVE Reached(q, k)'
    BY <1>1, <1>2, ReachedStays DEF ReachInv
  <1> QED BY <1>3, <1>4 DEF ReachInv

LEMMA OfferReach ==
  ASSUME ChatInv, ReachInv, NEW s \in Senders, Offer(s)
  PROVE  ReachInv'
  <1>0. PICK subs \in Seq(Listeners), pos \in Nat \ {0}, m \in Messages :
          subs = sender[s].subs /\ pos = sender[s].pos /\ m = sender[s].msg
    <2>1. sender[s] \in SendCalls /\ sender[s].msg \in Messages
      BY DEF Offer, Sending, ChatInv, CallTypes, SenderTypes
    <2> QED BY <2>1 DEF SendCalls
  <1>1. /\ sender[s].at = "sending" /\ pos <= Len(subs) /\ Target(s) = subs[pos]
        /\ DOMAIN subs = 1..Len(subs) /\ Len(subs) \in Nat
    <2>1. sender[s].at = "sending" /\ pos <= Len(subs) /\ Target(s) = subs[pos]
      BY <1>0 DEF Offer, Sending, Recipients, Target
    <2>2. DOMAIN subs = 1..Len(subs) /\ Len(subs) \in Nat
      BY LenProperties
    <2> QED BY <2>1, <2>2
  <1>2. PICK k \in Listeners : k = Target(s) /\ k = subs[pos]
    <2>1. pos \in 1..Len(subs)
      BY <1>1
    <2> QED BY <1>1, <2>1, ElementOfSeq
  <1>3. /\ sender'[s].at = "sending" /\ sender'[s].subs = subs /\ sender'[s].pos = pos + 1
        /\ sender'[s].msg = m /\ sender'[s].room = sender[s].room
        /\ \A q \in Senders \ {s} : sender'[q] = sender[q]
        /\ listener' = listener
    BY <1>0, <1>1 DEF Offer, ChatInv, CallTypes, SenderTypes, SendCalls
  <1>4. /\ \A j \in Listeners \ {k} : Heard(j)' = Heard(j) /\ excused'[j] = excused[j]
        /\ \/ Heard(k)' = Heard(k) /\ excused'[k] = excused[k] \cup {m}
           \/ Heard(k)' = Append(Heard(k), m) /\ excused'[k] = excused[k]
    BY <1>0, <1>2, OfferHears DEF ChatInv
  <1>5. Heard(k) \in Seq(Messages)
    BY HeardType DEF ChatInv
  <1>6. /\ \A j \in Listeners : ToSet(Heard(j)) \subseteq ToSet(Heard(j))' /\ excused[j] \subseteq excused'[j]
        /\ m \in ToSet(Heard(k))' \cup excused'[k]
    <2>1. ToSet(Append(Heard(k), m)) = ToSet(Heard(k)) \cup {m}
      BY <1>5, ToSetAppend
    <2>2. ToSet(Heard(k)) \subseteq ToSet(Heard(k))' /\ excused[k] \subseteq excused'[k]
          /\ m \in ToSet(Heard(k))' \cup excused'[k]
      BY <1>4, <2>1
    <2> QED BY <1>4, <2>2
  <1>7. ASSUME NEW j \in Listeners PROVE Reached(s, j)'
    <2>1. Reached(s, j)
      BY DEF ReachInv
    <2>2. CASE j = k
      BY <1>3, <1>6, <2>2 DEF Reached
    <2>3. CASE j # k
      <3>1. \A i \in pos..Len(subs) : subs[i] = j => i \in pos + 1..Len(subs)
        BY <1>1, <1>2, <2>3
      <3> QED BY <1>0, <1>1, <1>3, <1>4, <2>1, <2>3, <3>1 DEF Reached
    <2> QED BY <2>2, <2>3
  <1>8. ASSUME NEW q \in Senders \ {s}, NEW j \in Listeners PROVE Reached(q, j)'
    BY <1>3, <1>6, ReachedStays DEF ReachInv
  <1> QED BY <1>7, <1>8 DEF ReachInv

LEMMA ListenersReach ==
  ASSUME ChatInv, ReachInv, NEW k \in Listeners,
         \/ Subscribe(k) \/ Receive(k) \/ Cancel(k) \/ Unsubscribe(k)
         \/ \E r \in Rooms : FindRoom(k, r)
  PROVE  ReachInv'
  <1>1. /\ sender' = sender /\ listener \in [Listeners -> SubCalls]
        /\ chan \in [Listeners -> Channels] /\ excused \in [Listeners -> SUBSET Messages]
    BY DEF Subscribe, Receive, Cancel, Unsubscribe, FindRoom, storeVars, ChatInv, CallTypes,
           ListenerTypes, ChanTypes
  <1>2. \A j \in Listeners : Heard(j)' = Heard(j)
    <2>1. CASE Receive(k)
      BY <2>1, ReceiveHears DEF ChatInv
    <2>2. CASE Unsubscribe(k)
      <3>1. got' = got /\ \A j \in Listeners : chan'[j].queue = chan[j].queue
        <4>1. got' = got /\ (chan' = chan \/ chan' = [chan EXCEPT ![k].closed = TRUE])
          BY <2>2 DEF Unsubscribe
        <4> QED BY <1>1, <4>1 DEF Channels
      <3> QED BY <3>1 DEF Heard
    <2>3. CASE Subscribe(k) \/ Cancel(k) \/ \E r \in Rooms : FindRoom(k, r)
      BY <2>3 DEF Subscribe, Cancel, FindRoom, Heard
    <2> QED BY <2>1, <2>2, <2>3
  <1>3. CASE Receive(k) \/ Cancel(k) \/ Unsubscribe(k) \/ \E r \in Rooms : FindRoom(k, r)
    <2>1. excused' = excused /\ \A j \in Listeners : listener'[j].at = "on" => listener[j] = listener'[j]
      BY <1>1, <1>3 DEF Receive, Cancel, Unsubscribe, FindRoom, SubCalls
    <2> QED BY <1>1, <1>2, <2>1, ReachedStays DEF ReachInv
  <1>4. CASE Subscribe(k)
    <2>1. /\ \A j \in Listeners \ {k} : listener'[j] = listener[j] /\ excused'[j] = excused[j]
          /\ excused'[k] = 1..nextMsgID - 1
      BY <1>1, <1>4 DEF Subscribe
    <2>2. ASSUME NEW s \in Senders PROVE Reached(s, k)'
      <3>1. sender[s].at \in {"sending", "ok", "failed"} => sender[s].msg \in 1..nextMsgID - 1
        <4>1. sender[s].at \in {"sending", "ok", "failed"} =>
                sender[s].msg < nextMsgID /\ sender[s].msg \in 1..MaxMessages
          BY DEF ChatInv, OnceInv, SendInv, CallTypes, SenderTypes, Messages
        <4>2. nextMsgID \in Nat
          BY ChatAssumption DEF ChatInv, CallTypes, LogTypes
        <4> QED BY <4>1, <4>2, ChatAssumption
      <3> QED BY <1>1, <2>1, <3>1 DEF Reached
    <2>3. ASSUME NEW s \in Senders, NEW j \in Listeners \ {k} PROVE Reached(s, j)'
      BY <1>1, <1>2, <2>1, ReachedStays DEF ReachInv
    <2> QED BY <2>2, <2>3 DEF ReachInv
  <1> QED BY <1>3, <1>4

\* A listener that stays misses a message stored after it subscribed only if
\* its channel was full or the broadcast met a channel that had been closed.
THEOREM ReachesAll == Spec => []NotSkipped
  <1>1. Init => ReachInv
    BY DEF Init, ReachInv, Reached
  <1>2. ChatInv /\ ReachInv /\ [Next]_vars => ReachInv'
    <2> SUFFICES ASSUME ChatInv, ReachInv, [Next]_vars PROVE ReachInv'
      OBVIOUS
    <2>1. ASSUME (\E r \in Rooms : CreateRoom(r)) \/ UNCHANGED vars PROVE ReachInv'
      <3>1. UNCHANGED <<chan, sender, listener, got, excused>>
        BY <2>1 DEF CreateRoom, vars
      <3>2. \A k \in Listeners : Heard(k)' = Heard(k)
        BY <3>1 DEF Heard
      <3> QED BY <3>1, <3>2 DEF ReachInv, Reached
    <2> QED BY <2>1, SendersReach, OfferReach, ListenersReach DEF Next, Send
  <1>3. ReachInv => NotSkipped
    BY DEF ReachInv, Reached, NotSkipped, Heard
  <1> QED BY <1>1, <1>2, <1>3, ChatInvariant, PTL DEF Spec

-----------------------------------------------------------------------------
(* Histories *)

Arrays == Seq(Nat)
Slices == [array : Nat, lo : Nat, hi : Nat]

\* A slice of one of the arrays, or of none; what is behind it is unused.
Fits(old, sl) ==
  /\ sl \in Slices /\ sl.lo <= sl.hi
  /\ sl.array = 0 => sl.hi = 0
  /\ sl.array # 0 => /\ sl.array \in 1..Len(old) /\ sl.hi <= Len(old[sl.array])
                     /\ \A i \in sl.hi + 1..Len(old[sl.array]) : old[sl.array][i] = 0

\* The slice holds what another one held, and m after it.
Extends(old, sl, later, new, m) ==
  /\ Fits(later, new) /\ new.array # 0 /\ new.hi - new.lo = sl.hi - sl.lo + 1
  /\ \A i \in 1..sl.hi - sl.lo : later[new.array][new.lo + i] = old[sl.array][sl.lo + i]
  /\ later[new.array][new.hi] = m

\* Arrays are added and filled, and no element of one is written twice.
OnlyFilled(old, later) ==
  /\ Len(old) <= Len(later)
  /\ \A a \in 1..Len(old) : /\ Len(later[a]) = Len(old[a])
                           /\ \A i \in 1..Len(old[a]) : old[a][i] # 0 => later[a][i] = old[a][i]

\* append fills an element behind the slice, or an array of its own.
LEMMA AppendedProperties ==
  ASSUME NEW old \in Seq(Arrays), NEW sl \in Slices, Fits(old, sl), NEW m \in Nat,
         NEW new, new = Appended(old, sl, m)
  PROVE  /\ new.arrays \in Seq(Arrays) /\ Extends(old, sl, new.arrays, new.slice, m)
         /\ OnlyFilled(old, new.arrays)
         /\ \A a \in 1..Len(old) : a # sl.array => new.arrays[a] = old[a]
         /\ new.slice.array = sl.array \/ new.slice.array = Len(old) + 1
  <1> DEFINE len == sl.hi - sl.lo
             room == IF sl.array = 0 THEN 0 ELSE Len(old[sl.array]) - sl.lo
  <1>1. /\ sl.array \in Nat /\ sl.lo \in Nat /\ sl.hi \in Nat /\ sl.lo <= sl.hi /\ len \in Nat
        /\ Len(old) \in Nat /\ DOMAIN old = 1..Len(old)
        /\ \A a \in 1..Len(old) : /\ old[a] \in Arrays /\ Len(old[a]) \in Nat
                                 /\ DOMAIN old[a] = 1..Len(old[a])
    <2>1. sl.array \in Nat /\ sl.lo \in Nat /\ sl.hi \in Nat
      BY DEF Slices
    <2>2. sl.lo <= sl.hi
      BY DEF Fits
    <2>3. len \in Nat
      BY <2>1, <2>2
    <2>4. Len(old) \in Nat /\ DOMAIN old = 1..Len(old)
      BY LenProperties
    <2>5. \A a \in 1..Len(old) : old[a] \in Arrays
      BY ElementOfSeq
    <2>6. \A a \in Arrays : Len(a) \in Nat /\ DOMAIN a = 1..Len(a)
      BY LenProperties DEF Arrays
    <2> QED BY <2>1, <2>2, <2>3, <2>4, <2>5, <2>6
  <1>2. len <= room /\ room \in Nat
    BY <1>1 DEF Fits
  <1>3. CASE len < room
    <2>1. new = [slice  |-> [sl EXCEPT !.hi = @ + 1],
                 arrays |-> [old EXCEPT ![sl.array][sl.hi + 1] = m]]
      BY <1>3 DEF Appended, Length, Room
    <2>2. sl.array \in 1..Len(old) /\ sl.hi + 1 \in 1..Len(old[sl.array])
      BY <1>1, <1>3 DEF Fits
    <2>a. PICK src \in Arrays : src = old[sl.array] /\ sl.hi + 1 \in 1..Len(src) /\ Len(src) \in Nat
      BY <1>1, <2>2
    <2> DEFINE arr == [src EXCEPT ![sl.hi + 1] = m]
    <2>3. /\ arr \in Arrays /\ Len(arr) = Len(src)
          /\ \A i \in 1..Len(arr) : arr[i] = IF i = sl.hi + 1 THEN m ELSE src[i]
      BY <2>a, ExceptSeq DEF Arrays
    <2> HIDE DEF arr
    <2>4. new.arrays = [old EXCEPT ![sl.array] = arr]
      BY <2>1, <2>a DEF arr
    <2>5. /\ new.arrays \in Seq(Arrays) /\ Len(new.arrays) = Len(old)
          /\ \A a \in 1..Len(old) : new.arrays[a] = IF a = sl.array THEN arr ELSE old[a]
      BY <2>2, <2>3, <2>4, ExceptSeq
    <2>6. /\ new.slice \in Slices /\ new.slice.array = sl.array /\ new.slice.lo = sl.lo
          /\ new.slice.hi = sl.hi + 1
      BY <1>1, <2>1 DEF Slices
    <2>b. /\ new.arrays[new.slice.array] = arr /\ new.slice.array \in 1..Len(new.arrays)
          /\ new.slice.array # 0
      BY <2>2, <2>5, <2>6
    <2>c. \A i \in sl.hi + 1..Len(src) : src[i] = 0
      BY <2>2, <2>a DEF Fits
    <2>7. Fits(new.arrays, new.slice)
      <3>1. ASSUME NEW i \in sl.hi + 2..Len(arr) PROVE arr[i] = 0
        <4>1. i \in sl.hi + 1..Len(src) /\ i # sl.hi + 1 /\ i \in 1..Len(arr)
          BY <1>1, <2>a, <2>3
        <4> QED BY <2>3, <2>c, <4>1
      <3>2. sl.hi + 1 <= Len(arr) /\ sl.lo <= sl.hi + 1 /\ sl.hi + 1 + 1 = sl.hi + 2
        BY <1>1, <2>a, <2>3
      <3> QED BY <2>6, <2>b, <3>1, <3>2 DEF Fits
    <2>8. Extends(old, sl, new.arrays, new.slice, m)
      <3>1. ASSUME NEW i \in 1..len PROVE arr[sl.lo + i] = src[sl.lo + i]
        <4>1. sl.lo + i \in 1..Len(arr) /\ sl.lo + i # sl.hi + 1
          BY <1>1, <2>a, <2>3
        <4> QED BY <2>3, <4>1
      <3>2. arr[sl.hi + 1] = m /\ (sl.hi + 1) - sl.lo = (sl.hi - sl.lo) + 1
        BY <1>1, <2>a, <2>3
      <3>3. new.slice.hi - new.slice.lo = sl.hi - sl.lo + 1
        BY <2>6, <3>2
      <3>4. \A i \in 1..sl.hi - sl.lo :
              new.arrays[new.slice.array][new.slice.lo + i] = old[sl.array][sl.lo + i]
        BY <2>6, <2>a, <2>b, <3>1
      <3>5. new.arrays[new.slice.array][new.slice.hi] = m
        BY <2>6, <2>b, <3>2
      <3> QED BY <2>7, <2>b, <3>3, <3>4, <3>5 DEF Extends
    <2>9. OnlyFilled(old, new.arrays)
      <3>1. src[sl.hi + 1] = 0
        BY <1>1, <2>a, <2>c
      <3>2. \A i \in 1..Len(src) : src[i] # 0 => arr[i] = src[i]
        BY <2>3, <3>1
      <3>3. ASSUME NEW a \in 1..Len(old)
            PROVE  /\ Len(new.arrays[a]) = Len(old[a])
                   /\ \A i \in 1..Len(old[a]) : old[a][i] # 0 => new.arrays[a][i] = old[a][i]
        <4>1. CASE a = sl.array
          BY <2>a, <2>3, <2>5, <3>2, <4>1
        <4>2. CASE a # sl.array
          BY <2>5, <4>2
        <4> QED BY <4>1, <4>2
      <3>4. Len(old) <= Len(new.arrays)
        BY <1>1, <2>5
      <3> QED BY <3>3, <3>4 DEF OnlyFilled
    <2> QED BY <2>5, <2>6, <2>8, <2>9
  <1>4. CASE ~(len < room)
    <2> DEFINE copy == Contents(old, sl)
               cap == IF room = 0 THEN 1 ELSE 2 * room
               arr == [i \in 1..cap |-> IF i <= len THEN copy[i] ELSE IF i = len + 1 THEN m ELSE 0]
    <2>1. /\ new.slice = [array |-> Len(old) + 1, lo |-> 0, hi |-> len + 1]
          /\ new.arrays = Append(old, arr)
      BY <1>4 DEF Appended, Length, Room
    <2>2. cap \in Nat /\ len + 1 <= cap /\ len = room
      BY <1>1, <1>2, <1>4
    <2>3. \A i \in 1..len : copy[i] = old[sl.array][sl.lo + i] /\ copy[i] \in Nat
      <3>1. CASE sl.array = 0
        BY <1>1, <3>1 DEF Fits
      <3>2. CASE sl.array # 0
        <4>1. PICK src \in Arrays : src = old[sl.array] /\ sl.hi <= Len(src) /\ Len(src) \in Nat
          BY <1>1, <3>2 DEF Fits
        <4>2. copy = SubSeq(src, sl.lo + 1, sl.hi)
          BY <3>2, <4>1 DEF Contents
        <4>3. \A i \in sl.lo + 1..sl.hi : src[i] \in Nat
          <5>1. \A i \in sl.lo + 1..sl.hi : i \in 1..Len(src)
            BY <1>1, <4>1
          <5> QED BY <5>1, ElementOfSeq DEF Arrays
        <4>4. \A i \in 1..sl.hi - (sl.lo + 1) + 1 :
                SubSeq(src, sl.lo + 1, sl.hi)[i] = src[sl.lo + 1 + i - 1]
          <5>1. sl.lo + 1 \in Int /\ sl.hi \in Int
            BY <1>1
          <5> QED BY <4>3, <5>1, SubSeqProperties
        <4>5. \A i \in 1..len : /\ i \in 1..sl.hi - (sl.lo + 1) + 1
                                /\ sl.lo + 1 + i - 1 = sl.lo + i /\ sl.lo + i \in sl.lo + 1..sl.hi
          <5>1. PICK lo \in Nat, hi \in Nat : lo = sl.lo /\ hi = sl.hi /\ lo <= hi
            BY <1>1
          <5>2. \A i \in 1..hi - lo : /\ i \in 1..hi - (lo + 1) + 1
                                      /\ lo + 1 + i - 1 = lo + i /\ lo + i \in lo + 1..hi
            OBVIOUS
          <5> QED BY <5>1, <5>2
        <4> QED BY <4>1, <4>2, <4>3, <4>4, <4>5
      <3> QED BY <3>1, <3>2
    <2> HIDE DEF copy, cap
    <2>4. arr \in [1..cap -> Nat]
      BY <1>1, <2>2, <2>3
    <2>5. arr \in Arrays /\ Len(arr) = cap
      BY <2>2, <2>4, SeqDef DEF Arrays
    <2>6. \A i \in 1..cap : arr[i] = IF i <= len THEN copy[i] ELSE IF i = len + 1 THEN m ELSE 0
      OBVIOUS
    <2> HIDE DEF arr
    <2>7. /\ new.arrays \in Seq(Arrays) /\ Len(new.arrays) = Len(old) + 1
          /\ \A a \in 1..Len(old) : new.arrays[a] = old[a]
          /\ new.arrays[Len(old) + 1] = arr
      BY <2>1, <2>5, AppendProperties
    <2>8. Fits(new.arrays, new.slice)
      <3>1. new.slice \in Slices
        BY <1>1, <2>1 DEF Slices
      <3>2. ASSUME NEW i \in len + 2..cap PROVE arr[i] = 0
        <4>1. i \in 1..cap /\ ~(i <= len) /\ i # len + 1
          BY <1>1, <2>2
        <4> QED BY <2>6, <4>1
      <3> QED BY <1>1, <2>1, <2>2, <2>5, <2>7, <3>1, <3>2 DEF Fits
    <2>9. Extends(old, sl, new.arrays, new.slice, m)
      BY <1>1, <2>1, <2>2, <2>3, <2>6, <2>7, <2>8 DEF Extends
    <2>10. OnlyFilled(old, new.arrays)
      BY <1>1, <2>7 DEF OnlyFilled
    <2> QED BY <2>1, <2>7, <2>9, <2>10
  <1> QED BY <1>3, <1>4

\* A slice that is longer than the capacity is cut at its front.
LEMMA TrimmedProperties ==
  ASSUME NEW later \in Seq(Arrays), NEW longer \in Slices, Fits(later, longer), longer.array # 0,
         longer.hi - longer.lo <= Cap + 1,
         NEW new, new = Trimmed([slice |-> longer, arrays |-> later])
  PROVE  /\ new.arrays = later /\ new.slice \in Slices /\ Fits(later, new.slice)
         /\ new.slice.array = longer.array /\ new.slice.hi = longer.hi
         /\ new.slice.hi - new.slice.lo = IF longer.hi - longer.lo <= Cap THEN longer.hi - longer.lo ELSE Cap
  <1>1. PICK from \in Nat, to \in Nat : from = longer.lo /\ to = longer.hi
    BY DEF Slices
  <1>2. from <= to /\ to - from <= Cap + 1 /\ Cap \in Nat \ {0}
    BY <1>1, ChatAssumption DEF Fits
  <1>3. CASE to - from <= Cap
    <2>1. new = [slice |-> longer, arrays |-> later]
      BY <1>1, <1>3 DEF Trimmed, Length
    <2> QED BY <1>1, <1>3, <2>1
  <1>4. CASE ~(to - from <= Cap)
    <2>1. new = [slice |-> [longer EXCEPT !.lo = to - Cap], arrays |-> later]
      BY <1>1, <1>4 DEF Trimmed, Length
    <2>2. to - Cap \in Nat /\ to - Cap <= to /\ to - (to - Cap) = Cap
      BY <1>2, <1>4
    <2>3. /\ new.arrays = later /\ new.slice \in Slices /\ new.slice.lo = to - Cap
          /\ new.slice.hi = to /\ new.slice.array = longer.array
      <3>1. [longer EXCEPT !.lo = to - Cap] \in Slices
        BY <2>2 DEF Slices
      <3> QED BY <1>1, <2>1, <3>1 DEF Slices
    <2>4. Fits(later, new.slice)
      BY <1>1, <2>2, <2>3 DEF Fits
    <2> QED BY <1>1, <1>4, <2>2, <2>3, <2>4
  <1> QED BY <1>3, <1>4

\* The history of each room is the end of its log, in an array of its own.
Kept(r) ==
  LET sl == messages[r]
      n == Len(log[r])
      len == sl.hi - sl.lo IN
  /\ Fits(arrays, sl)
  /\ len = IF n <= Cap THEN n ELSE Cap
  /\ \A i \in 1..len : arrays[sl.array][sl.lo + i] = log[r][(n - len) + i]
  /\ \A q \in Rooms \ {r} : sl.array # 0 => messages[q].array # sl.array

HistInv ==
  /\ messages \in [Rooms -> Slices] /\ arrays \in Seq(Arrays)
  /\ \A r \in Rooms : Kept(r)

\* The slice of another room's history is over another array, which stays.
LEMMA OthersKept ==
  ASSUME HistInv, NEW r \in Rooms, NEW q \in Rooms \ {r}, NEW later \in Seq(Arrays),
         Len(arrays) <= Len(later),
         \A a \in 1..Len(arrays) : a # messages[r].array => later[a] = arrays[a],
         arrays' = later, messages'[q] = messages[q], log'[q] = log[q],
         NEW a \in Nat \ {0}, a = messages[r].array \/ a = Len(arrays) + 1,
         messages'[r].array = a, \A p \in Rooms \ {r} : messages'[p] = messages[p]
  PROVE  Kept(q)' /\ messages[q].array # a
  <1> DEFINE sl == messages[q]
             b == sl.array
  <1>1. Kept(q) /\ Kept(r) /\ Len(arrays) \in Nat /\ b \in Nat /\ messages[r].array \in Nat
    BY LenProperties DEF HistInv, Slices
  <1>2. b # 0 => b \in 1..Len(arrays) /\ b # messages[r].array /\ later[b] = arrays[b]
    BY <1>1 DEF Kept, Fits
  <1>3. b # a
    BY <1>1, <1>2
  <1>4. Fits(later, sl)
    <2>1. b # 0 => b \in 1..Len(later)
      BY <1>1, <1>2, LenProperties
    <2> QED BY <1>1, <1>2, <2>1 DEF Kept, Fits
  <1>5. b = 0 => sl.hi - sl.lo = 0
    BY <1>1 DEF Kept, Fits, Slices
  <1>6. \A i \in 1..sl.hi - sl.lo : later[b][sl.lo + i] = log[q][(Len(log[q]) - (sl.hi - sl.lo)) + i]
    BY <1>1, <1>2, <1>5 DEF Kept
  <1>7. \A p \in Rooms \ {q} : b # 0 => messages'[p].array # b
    BY <1>1, <1>3 DEF Kept
  <1> QED BY <1>1, <1>3, <1>4, <1>6, <1>7 DEF Kept

LEMMA StoreKept ==
  ASSUME CallTypes, HistInv, NEW s \in Senders, NEW r \in Rooms, Store(s, r)
  PROVE  HistInv' /\ OnlyFilled(arrays, arrays')
  <1>1. PICK m \in Messages, sl \in Slices, h \in Seq(Messages) :
          m = nextMsgID /\ sl = messages[r] /\ h = log[r] /\ m \in Nat
    BY ChatAssumption DEF Store, CallTypes, LogTypes, Messages, HistInv
  <1>2. PICK longer, new : longer = Appended(arrays, sl, m) /\ new = Trimmed(longer)
    OBVIOUS
  <1>3. /\ messages' = [messages EXCEPT ![r] = new.slice] /\ arrays' = new.arrays
        /\ log' = [log EXCEPT ![r] = Append(h, m)]
    BY <1>1, <1>2 DEF Store
  <1>4. /\ arrays \in Seq(Arrays) /\ log \in [Rooms -> Seq(Messages)] /\ messages \in [Rooms -> Slices]
        /\ Kept(r) /\ Fits(arrays, sl)
    BY <1>1 DEF HistInv, CallTypes, LogTypes, Kept
  <1>5. /\ longer.arrays \in Seq(Arrays) /\ Extends(arrays, sl, longer.arrays, longer.slice, m)
        /\ OnlyFilled(arrays, longer.arrays)
        /\ \A a \in 1..Len(arrays) : a # sl.array => longer.arrays[a] = arrays[a]
        /\ longer.slice.array = sl.array \/ longer.slice.array = Len(arrays) + 1
    BY <1>1, <1>2, <1>4, AppendedProperties
  <1>6. PICK n \in Nat, lo \in Nat, hi \in Nat, len \in Nat :
          n = Len(h) /\ lo = sl.lo /\ hi = sl.hi /\ len = hi - lo /\ hi = lo + len
    <2>1. Len(h) \in Nat /\ sl.lo \in Nat /\ sl.hi \in Nat /\ sl.lo <= sl.hi
      BY <1>1, <1>4, LenProperties DEF Fits, Slices
    <2>2. sl.hi - sl.lo \in Nat /\ sl.hi = sl.lo + (sl.hi - sl.lo)
      BY <2>1
    <2> QED BY <2>1, <2>2
  <1>7. /\ len = IF n <= Cap THEN n ELSE Cap
        /\ \A i \in 1..len : arrays[sl.array][lo + i] = h[(n - len) + i]
        /\ Cap \in Nat \ {0} /\ len <= Cap /\ len <= n
    <2>1. len = IF n <= Cap THEN n ELSE Cap
      BY <1>1, <1>4, <1>6 DEF Kept
    <2>2. \A i \in 1..len : arrays[sl.array][lo + i] = h[(n - len) + i]
      BY <1>1, <1>4, <1>6 DEF Kept
    <2> QED BY <2>1, <2>2, ChatAssumption
  <1>8. PICK from \in Nat, to \in Nat :
          /\ from = longer.slice.lo /\ to = longer.slice.hi /\ to = from + (len + 1)
          /\ longer.slice \in Slices /\ Fits(longer.arrays, longer.slice) /\ longer.slice.array # 0
          /\ \A i \in 1..len : longer.arrays[longer.slice.array][from + i] = arrays[sl.array][lo + i]
          /\ longer.arrays[longer.slice.array][to] = m
    <2>1. /\ Fits(longer.arrays, longer.slice) /\ longer.slice.array # 0 /\ longer.slice \in Slices
          /\ longer.slice.hi - longer.slice.lo = len + 1
          /\ \A i \in 1..len :
               longer.arrays[longer.slice.array][longer.slice.lo + i] = arrays[sl.array][lo + i]
          /\ longer.arrays[longer.slice.array][longer.slice.hi] = m
      BY <1>5, <1>6 DEF Extends, Fits
    <2>2. longer.slice.lo \in Nat /\ longer.slice.hi \in Nat
      BY <2>1 DEF Slices
    <2>3. longer.slice.hi = longer.slice.lo + (len + 1)
      BY <2>1, <2>2
    <2> QED BY <2>1, <2>2, <2>3
  <1>9. longer = [slice |-> longer.slice, arrays |-> longer.arrays]
    BY <1>2 DEF Appended
  <1>10. /\ new.arrays = longer.arrays /\ new.slice \in Slices /\ Fits(longer.arrays, new.slice)
         /\ new.slice.array = longer.slice.array /\ new.slice.hi = to
         /\ new.slice.hi - new.slice.lo = IF to - from <= Cap THEN to - from ELSE Cap
    <2>1. longer.slice.hi - longer.slice.lo <= Cap + 1
      BY <1>7, <1>8
    <2>2. new = Trimmed([slice |-> longer.slice, arrays |-> longer.arrays])
      BY <1>2, <1>9
    <2>3. longer.arrays \in Seq(Arrays) /\ longer.slice \in Slices
          /\ Fits(longer.arrays, longer.slice) /\ longer.slice.array # 0
      BY <1>5, <1>8
    <2>4. /\ new.arrays = longer.arrays /\ new.slice \in Slices /\ Fits(longer.arrays, new.slice)
          /\ new.slice.array = longer.slice.array /\ new.slice.hi = longer.slice.hi
          /\ new.slice.hi - new.slice.lo =
               IF longer.slice.hi - longer.slice.lo <= Cap THEN longer.slice.hi - longer.slice.lo ELSE Cap
      BY <2>1, <2>2, <2>3, TrimmedProperties
    <2> QED BY <1>8, <2>4
  <1>11. PICK at \in Nat, kept \in Nat :
           /\ at = new.slice.lo /\ kept = to - at /\ at <= to
           /\ kept = IF n + 1 <= Cap THEN n + 1 ELSE Cap
           /\ kept <= len + 1 /\ to = at + kept
    <2>1. new.slice.lo \in Nat /\ new.slice.lo <= to
      BY <1>10 DEF Fits, Slices
    <2>2. to - from = len + 1
      BY <1>8
    <2>3. to - new.slice.lo = IF len + 1 <= Cap THEN len + 1 ELSE Cap
      BY <1>8, <1>10, <2>2
    <2>4. to - new.slice.lo \in Nat /\ to = new.slice.lo + (to - new.slice.lo)
      BY <2>1
    <2>5. to - new.slice.lo = IF n + 1 <= Cap THEN n + 1 ELSE Cap
      BY <1>7, <2>3
    <2>6. to - new.slice.lo <= len + 1
      BY <1>7, <2>3
    <2> QED BY <2>1, <2>4, <2>5, <2>6
  <1>12. /\ Append(h, m) \in Seq(Messages) /\ Len(Append(h, m)) = n + 1
         /\ \A i \in 1..n : Append(h, m)[i] = h[i]
         /\ Append(h, m)[n + 1] = m
    BY <1>1, <1>6, AppendProperties
  <1>13. ASSUME NEW i \in 1..kept
         PROVE  new.arrays[new.slice.array][at + i] = Append(h, m)[((n + 1) - kept) + i]
    <2>1. PICK p \in 1..len + 1 : /\ p = i + ((len + 1) - kept) /\ at + i = from + p
                                  /\ ((n + 1) - kept) + i = (n - len) + p
      <3>0. to = at + kept /\ to = from + (len + 1) /\ kept <= len + 1
        BY <1>8, <1>11
      <3>1. i \in Nat /\ i + ((len + 1) - kept) \in 1..len + 1
        BY <3>0
      <3>2. at + i = from + (i + ((len + 1) - kept))
        BY <3>0, <3>1
      <3>3. ((n + 1) - kept) + i = (n - len) + (i + ((len + 1) - kept))
        BY <3>1
      <3> QED BY <3>1, <3>2, <3>3
    <2>2. CASE p = len + 1
      <3>1. from + p = to /\ (n - len) + p = n + 1
        BY <1>8, <2>2
      <3> QED BY <1>8, <1>10, <1>12, <2>1, <3>1
    <2>3. CASE p # len + 1
      <3>1. p \in 1..len /\ (n - len) + p \in 1..n
        BY <1>7, <2>3
      <3>2. h[(n - len) + p] = Append(h, m)[(n - len) + p]
        BY <1>12, <3>1
      <3>3. longer.arrays[longer.slice.array][from + p] = h[(n - len) + p]
        BY <1>7, <1>8, <3>1
      <3> QED BY <1>10, <2>1, <3>2, <3>3
    <2> QED BY <2>2, <2>3
  <1>14. /\ messages'[r] = new.slice /\ log'[r] = Append(h, m)
         /\ \A q \in Rooms \ {r} : messages'[q] = messages[q] /\ log'[q] = log[q]
         /\ messages' \in [Rooms -> Slices] /\ arrays' \in Seq(Arrays)
    BY <1>3, <1>4, <1>5, <1>10
  <1>15. PICK a \in Nat \ {0} : a = new.slice.array /\ (a = sl.array \/ a = Len(arrays) + 1)
    BY <1>5, <1>8, <1>10 DEF Slices
  <1>16. ASSUME NEW q \in Rooms \ {r} PROVE Kept(q)' /\ messages[q].array # a
    <2>1. /\ Len(arrays) <= Len(longer.arrays) /\ arrays' = longer.arrays
          /\ messages'[r].array = a /\ (a = messages[r].array \/ a = Len(arrays) + 1)
      BY <1>1, <1>3, <1>5, <1>10, <1>14, <1>15 DEF OnlyFilled
    <2>2. \A b \in 1..Len(arrays) : b # messages[r].array => longer.arrays[b] = arrays[b]
      BY <1>1, <1>5
    <2> QED BY <1>5, <1>14, <2>1, <2>2, OthersKept
  <1>17. Kept(r)'
    <2>1. Len(log'[r]) = n + 1
      BY <1>12, <1>14
    <2>2. messages'[r].hi - messages'[r].lo = kept /\ messages'[r].lo = at
      BY <1>10, <1>11, <1>14
    <2>3. \A i \in 1..kept : arrays'[messages'[r].array][at + i] = log'[r][((n + 1) - kept) + i]
      BY <1>3, <1>13, <1>14
    <2>4. Fits(arrays, messages[r])'
      BY <1>3, <1>10, <1>14 DEF Fits
    <2>5. \A q \in Rooms \ {r} : messages'[r].array # 0 => messages'[q].array # messages'[r].array
      BY <1>14, <1>15, <1>16
    <2> QED BY <1>11, <2>1, <2>2, <2>3, <2>4, <2>5 DEF Kept
  <1>18. HistInv'
    BY <1>14, <1>16, <1>17 DEF HistInv
  <1>19. OnlyFilled(arrays, arrays')
    BY <1>3, <1>5, <1>10
  <1> QED BY <1>18, <1>19

LEMMA InitKept == Init => HistInv
  <1> SUFFICES ASSUME Init PROVE HistInv
    OBVIOUS
  <1>1. messages = [r \in Rooms |-> Empty] /\ arrays = <<>> /\ log = [r \in Rooms |-> <<>>]
    BY DEF Init
  <1>2. Empty \in Slices /\ <<>> \in Seq(Arrays) /\ Len(<<>>) = 0
    BY DEF Empty, Slices
  <1>3. Fits(arrays, Empty)
    BY <1>2 DEF Fits, Empty
  <1>4. ASSUME NEW r \in Rooms PROVE Kept(r)
    <2>1. messages[r] = Empty /\ log[r] = <<>> /\ Empty.hi - Empty.lo = 0 /\ Empty.array = 0
      BY <1>1 DEF Empty
    <2> QED BY <1>2, <1>3, <2>1, ChatAssumption DEF Kept
  <1> QED BY <1>1, <1>2, <1>4 DEF HistInv

\* Only a step that stores a message touches a history.
LEMMA NextKept ==
  ASSUME CallTypes, HistInv, [Next]_vars
  PROVE  HistInv' /\ OnlyFilled(arrays, arrays')
  <1>1. ASSUME UNCHANGED <<messages, arrays, log>> PROVE HistInv' /\ OnlyFilled(arrays, arrays')
    <2>1. HistInv'
      BY <1>1 DEF HistInv, Kept
    <2>2. Len(arrays) \in Nat
      BY LenProperties DEF HistInv
    <2> QED BY <1>1, <2>1, <2>2 DEF OnlyFilled
  <1>2. ASSUME NEW s \in Senders, NEW r \in Rooms, Store(s, r)
        PROVE  HistInv' /\ OnlyFilled(arrays, arrays')
    BY <1>2, StoreKept
  <1> QED BY <1>1, <1>2 DEF Next, Send, vars, storeVars, CreateRoom, SendRefused, CopySubscribers, Offer,
             SendPanics, BroadcastDone, SendAgain, FindRoom, Subscribe, Receive, Cancel, Unsubscribe

LEMMA HistInvariant == Spec => []HistInv
  <1>1. ChatInv /\ HistInv /\ [Next]_vars => HistInv'
    BY NextKept DEF ChatInv
  <1> QED BY <1>1, InitKept, ChatInvariant, PTL DEF Spec

\* Rooms, messages, channels and calls keep their types, and no history or
\* channel grows over its capacity.
THEOREM TypeCorrect == Spec => []TypeOK
  <1>1. ChatInv /\ HistInv => TypeOK
    <2> SUFFICES ASSUME CallTypes, HistInv PROVE TypeOK
      BY DEF ChatInv
    <2>1. \A r \in Rooms : Length(messages[r]) \in 0..Cap
      <3> SUFFICES ASSUME NEW r \in Rooms PROVE messages[r].hi - messages[r].lo \in 0..Cap
        BY DEF Length
      <3>1. Len(log[r]) \in Nat /\ Kept(r)
        BY LenProperties DEF CallTypes, LogTypes, HistInv
      <3> QED BY <3>1, ChatAssumption DEF Kept
    <2>2. \A r \in Rooms : ToSet(subscribers[r]) \subseteq Listeners
      BY DEF CallTypes, ListenerTypes, ToSet
    <2>3. \A k \in Listeners : /\ Len(chan[k].queue) <= ChanCap
                               /\ ToSet(got[k]) \cup excused[k] \subseteq Messages
      BY DEF CallTypes, ChanTypes, ToSet
    <2>4. \A s \in Senders : sender[s].at \in {"idle", "refused", "stored", "sending", "ok", "failed"}
      BY DEF CallTypes, SenderTypes, SendCalls
    <2> QED BY <2>1, <2>2, <2>3, <2>4 DEF TypeOK, CallTypes, LogTypes
  <1> QED BY <1>1, ChatInvariant, HistInvariant, PTL

\* The len elements of a sequence that end at n.
LEMMA Cut ==
  ASSUME NEW S, NEW seq, NEW from \in Nat, NEW n \in Nat, NEW len \in Nat, n = (from - 1) + len,
         \A i \in from..n : seq[i] \in S
  PROVE  /\ SubSeq(seq, from, n) \in Seq(S) /\ Len(SubSeq(seq, from, n)) = len
         /\ \A i \in 1..len : SubSeq(seq, from, n)[i] = seq[(n - len) + i]
  <1>1. /\ SubSeq(seq, from, n) \in Seq(S)
        /\ Len(SubSeq(seq, from, n)) = IF from <= n THEN n - from + 1 ELSE 0
        /\ \A i \in 1..n - from + 1 : SubSeq(seq, from, n)[i] = seq[from + i - 1]
    <2>1. from \in Int /\ n \in Int
      OBVIOUS
    <2> QED BY <2>1, SubSeqProperties
  <1>2. (IF from <= n THEN n - from + 1 ELSE 0) = len
    OBVIOUS
  <1>3. \A i \in 1..len : i \in 1..n - from + 1 /\ from + i - 1 = (n - len) + i
    OBVIOUS
  <1> QED BY <1>1, <1>2, <1>3

\* A room's history is the last Cap messages stored in it, however often its
\* slice moved over its array or to another array, and whatever the other
\* rooms' histories did.
THEOREM HistoryKept == Spec => []HistoryExact
  <1>1. CallTypes /\ HistInv => HistoryExact
    <2> SUFFICES ASSUME CallTypes, HistInv, NEW r \in Rooms
                 PROVE  Contents(arrays, messages[r]) =
                          SubSeq(log[r], IF Len(log[r]) > Cap THEN Len(log[r]) - Cap + 1 ELSE 1, Len(log[r]))
      BY DEF HistoryExact
    <2>1. PICK sl \in Slices, h \in Seq(Messages), n \in Nat :
            sl = messages[r] /\ h = log[r] /\ n = Len(h)
      BY LenProperties DEF HistInv, CallTypes, LogTypes
    <2>2. PICK lo \in Nat, hi \in Nat, len \in Nat : lo = sl.lo /\ hi = sl.hi /\ hi = lo + len
      <3>1. sl.lo \in Nat /\ sl.hi \in Nat /\ sl.lo <= sl.hi
        BY <2>1 DEF HistInv, Kept, Fits, Slices
      <3>2. sl.hi - sl.lo \in Nat /\ sl.hi = sl.lo + (sl.hi - sl.lo)
        BY <3>1
      <3> QED BY <3>1, <3>2
    <2>3. /\ len = IF n <= Cap THEN n ELSE Cap
          /\ \A i \in 1..len : arrays[sl.array][lo + i] = h[(n - len) + i]
      <3>1. sl.hi - sl.lo = len
        BY <2>2
      <3> QED BY <2>1, <2>2, <3>1 DEF HistInv, Kept
    <2>4. PICK from \in Nat : /\ from = (n - len) + 1 /\ n = (from - 1) + len
                              /\ from = IF n > Cap THEN n - Cap + 1 ELSE 1
      <3>1. len <= n /\ ((n - len) + 1) \in Nat
        BY <2>3, ChatAssumption
      <3>2. (n - len) + 1 = IF n > Cap THEN n - Cap + 1 ELSE 1
        BY <2>3, ChatAssumption
      <3>3. n = (((n - len) + 1) - 1) + len
        OBVIOUS
      <3> QED BY <3>1, <3>2, <3>3
    <2>5. \A i \in from..n : h[i] \in Messages
      <3>1. 1 <= from
        BY <2>3, <2>4, ChatAssumption
      <3>2. \A i \in from..n : i \in 1..Len(h)
        BY <2>1, <3>1
      <3> QED BY <3>2, ElementOfSeq
    <2>6. /\ SubSeq(h, from, n) \in Seq(Messages) /\ Len(SubSeq(h, from, n)) = len
          /\ \A i \in 1..len : SubSeq(h, from, n)[i] = h[(n - len) + i]
      BY <2>4, <2>5, Cut
    <2>7. CASE sl.array = 0
      <3>1. len = 0
        <4>1. sl.hi = 0
          BY <2>1, <2>7 DEF HistInv, Kept, Fits
        <4>2. hi = 0 /\ hi = lo + len
          BY <2>2, <4>1
        <4> QED BY <4>2
      <3>2. SubSeq(h, from, n) = <<>>
        BY <2>6, <3>1, EmptySeq
      <3> QED BY <2>1, <2>4, <2>7, <3>2 DEF Contents
    <2>8. CASE sl.array # 0
      <3>1. PICK src \in Arrays : src = arrays[sl.array] /\ hi <= Len(src) /\ Len(src) \in Nat
        <4>1. sl.array \in 1..Len(arrays) /\ sl.hi <= Len(arrays[sl.array])
          BY <2>1, <2>8 DEF HistInv, Kept, Fits
        <4> QED BY <2>2, <4>1, ElementOfSeq, LenProperties DEF HistInv, Arrays
      <3>2. \A i \in 1..len : src[lo + i] = SubSeq(h, from, n)[i] /\ src[lo + i] \in Messages
        <4>1. \A i \in 1..len : src[lo + i] = SubSeq(h, from, n)[i]
          BY <2>3, <2>6, <3>1
        <4> QED BY <2>6, <4>1, ElementOfSeq
      <3>3. /\ SubSeq(src, lo + 1, hi) \in Seq(Messages) /\ Len(SubSeq(src, lo + 1, hi)) = len
            /\ \A i \in 1..len : SubSeq(src, lo + 1, hi)[i] = src[(hi - len) + i]
        <4>1. \A i \in lo + 1..hi : src[i] \in Messages
          <5>1. \A i \in lo + 1..hi : i - lo \in 1..len /\ lo + (i - lo) = i
            BY <2>2
          <5> QED BY <3>2, <5>1
        <4>2. lo + 1 \in Nat /\ hi = ((lo + 1) - 1) + len
          BY <2>2
        <4> QED BY <4>1, <4>2, Cut
      <3>4. hi - len = lo
        BY <2>2
      <3>5. SubSeq(src, lo + 1, hi) = SubSeq(h, from, n)
        BY <2>6, <3>2, <3>3, <3>4, SeqEqual
      <3> QED BY <2>1, <2>2, <2>4, <2>8, <3>1, <3>5 DEF Contents
    <2> QED BY <2>7, <2>8
  <1> QED BY <1>1, ChatInvariant, HistInvariant, PTL DEF ChatInv

\* A list that was handed out stays as it is while its response is encoded: no
\* element of a history's array is written twice.
THEOREM ListsKept == Spec => ListsStable
  <1>1. CallTypes /\ HistInv /\ [Next]_vars =>
          [\A a \in DOMAIN arrays : \A i \in DOMAIN arrays[a] :
             arrays[a][i] # 0 => arrays'[a][i] = arrays[a][i]]_vars
    <2> SUFFICES ASSUME CallTypes, HistInv, [Next]_vars, NEW a \in DOMAIN arrays,
                        NEW i \in DOMAIN arrays[a], arrays[a][i] # 0
                 PROVE  arrays'[a][i] = arrays[a][i]
      OBVIOUS
    <2>1. a \in 1..Len(arrays) /\ i \in 1..Len(arrays[a])
      <3>1. DOMAIN arrays = 1..Len(arrays)
        BY LenProperties DEF HistInv
      <3>2. arrays[a] \in Seq(Nat)
        BY <3>1, ElementOfSeq DEF HistInv, Arrays
      <3> QED BY <3>1, <3>2, LenProperties
    <2> QED BY <2>1, NextKept DEF OnlyFilled
  <1> QED BY <1>1, ChatInvariant, HistInvariant, PTL DEF Spec, ListsStable, ChatInv
=============================================================================
