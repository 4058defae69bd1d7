------------------------- MODULE BatchStreamProofs -------------------------
(***************************************************************************)
(* Proofs about streamed batches, for every number of procedures.          *)
(*                                                                         *)
(* Control first (who runs, when the channel is closed), then where each   *)
(* result is: in the channel, in the handler's hands, or in the response.  *)
(* The syntax of the response follows from the handler's position.         *)
(***************************************************************************)
EXTENDS BatchStream, TLAPS

In(x, s) == \E j \in 1..Len(s) : s[j] = x

Distinct(s) == \A j, k \in 1..Len(s) : s[j] = s[k] => j = k

\* A value is in a sequence with one more element if it was, or is the element.
LEMMA InAppend ==
  ASSUME NEW S, NEW s \in Seq(S), NEW x \in S, NEW y
  PROVE  In(y, Append(s, x)) <=> In(y, s) \/ y = x
  <1>1. /\ Append(s, x) \in Seq(S) /\ Len(Append(s, x)) = Len(s) + 1 /\ Len(s) \in Nat
        /\ Append(s, x)[Len(s) + 1] = x
        /\ \A j \in 1..Len(s) : Append(s, x)[j] = s[j]
    OBVIOUS
  <1>2. ASSUME In(y, Append(s, x)) PROVE In(y, s) \/ y = x
    <2>1. PICK j \in 1..Len(s) + 1 : Append(s, x)[j] = y
      BY <1>1, <1>2 DEF In
    <2>2. j \in 1..Len(s) \/ j = Len(s) + 1
      BY <1>1
    <2> QED BY <1>1, <2>1, <2>2 DEF In
  <1>3. ASSUME In(y, s) PROVE In(y, Append(s, x))
    <2>1. PICK j \in 1..Len(s) : s[j] = y
      BY <1>3 DEF In
    <2>2. j \in 1..Len(Append(s, x)) /\ Append(s, x)[j] = y
      BY <1>1, <2>1
    <2> QED BY <2>2 DEF In
  <1>4. ASSUME y = x PROVE In(y, Append(s, x))
    <2>1. Len(s) + 1 \in 1..Len(Append(s, x))
      BY <1>1
    <2> QED BY <1>1, <1>4, <2>1 DEF In
  <1> QED BY <1>2, <1>3, <1>4

\* The values in a sequence without repetition are its head and, apart from
\* that, those in its tail.
LEMMA InTail ==
  ASSUME NEW S, NEW s \in Seq(S), s # <<>>, Distinct(s)
  PROVE  /\ Head(s) \in S /\ Tail(s) \in Seq(S) /\ Len(Tail(s)) = Len(s) - 1
         /\ In(Head(s), s) /\ ~In(Head(s), Tail(s)) /\ Distinct(Tail(s))
         /\ \A y : In(y, s) <=> In(y, Tail(s)) \/ y = Head(s)
  <1>1. /\ Head(s) \in S /\ Tail(s) \in Seq(S) /\ Len(Tail(s)) = Len(s) - 1
        /\ Len(s) \in Nat /\ Len(s) >= 1 /\ Head(s) = s[1]
        /\ \A j \in 1..Len(s) - 1 : Tail(s)[j] = s[j + 1]
    OBVIOUS
  <1>2. In(Head(s), s)
    BY <1>1 DEF In
  <1>3. ASSUME NEW j \in 1..Len(Tail(s)) PROVE j + 1 \in 1..Len(s) /\ Tail(s)[j] = s[j + 1]
    BY <1>1
  <1>4. ~In(Head(s), Tail(s))
    <2>1. SUFFICES ASSUME NEW j \in 1..Len(Tail(s)), Tail(s)[j] = Head(s) PROVE FALSE
      BY DEF In
    <2>2. j + 1 \in 1..Len(s) /\ s[j + 1] = s[1] /\ 1 \in 1..Len(s)
      BY <1>1, <1>3, <2>1
    <2>3. j + 1 = 1
      BY <2>2 DEF Distinct
    <2> QED BY <1>1, <2>3
  <1>5. Distinct(Tail(s))
    <2>1. SUFFICES ASSUME NEW j \in 1..Len(Tail(s)), NEW k \in 1..Len(Tail(s)),
                          Tail(s)[j] = Tail(s)[k]
                   PROVE  j = k
      BY DEF Distinct
    <2>2. j + 1 = k + 1
      BY <1>3, <2>1 DEF Distinct
    <2> QED BY <1>1, <2>2
  <1>6. ASSUME NEW y PROVE In(y, s) <=> In(y, Tail(s)) \/ y = Head(s)
    <2>1. ASSUME In(y, s), y # Head(s) PROVE In(y, Tail(s))
      <3>1. PICK j \in 1..Len(s) : s[j] = y
        BY <2>1 DEF In
      <3>2. j - 1 \in 1..Len(Tail(s)) /\ Tail(s)[j - 1] = y
        BY <1>1, <2>1, <3>1
      <3> QED BY <3>2 DEF In
    <2>2. ASSUME In(y, Tail(s)) PROVE In(y, s)
      BY <1>3, <2>2 DEF In
    <2> QED BY <1>2, <2>1, <2>2
  <1> QED BY <1>1, <1>2, <1>4, <1>5, <1>6

-----------------------------------------------------------------------------
(* Types *)

\* The handler writes a result it has received.
Holding == pc \in {"encode", "comma", "item"}

TInv == TypeOK /\ (Holding => held \in Items)

\* A batch starts well typed.
LEMMA InitTyped == Init => TInv
  <1> SUFFICES ASSUME Init PROVE TInv
    OBVIOUS
  <1>1. spawned \in 0..N /\ held \in Items \cup {None} /\ ~Holding
    BY BatchAssumption DEF Init, Holding
  <1>2. worker \in [Items -> {"none", "call", "send", "done"}]
    BY DEF Init
  <1>3. kind \in [Items -> Kinds \cup {"pending"}]
    BY DEF Init
  <1>4. ch \in Seq(Items) /\ Len(ch) <= N /\ out \in Seq(Tokens)
    BY BatchAssumption DEF Init
  <1> QED BY <1>1, <1>2, <1>3, <1>4 DEF Init, TypeOK, TInv

\* A token appended to the response leaves it a sequence of tokens.
LEMMA Written ==
  ASSUME TypeOK, NEW t \in Tokens, Write(t)
  PROVE  out' \in Seq(Tokens)
  BY DEF TypeOK, Write

\* Every step of handleBatchStream keeps the types.
LEMMA HandlerTyped == TInv /\ Handler => TInv'
  <1> SUFFICES ASSUME TInv, Handler PROVE TInv'
    OBVIOUS
  <1> USE BatchAssumption DEF TInv, Holding
  <1>t. LeftBrace \in Tokens /\ Comma \in Tokens /\ RightBrace \in Tokens /\ Items \subseteq Tokens
    BY DEF Tokens
  <1>1. CASE Begin
    <2>1. out' \in Seq(Tokens)
      BY <1>t, <1>1, Written DEF Begin, TypeOK
    <2> QED BY <1>1, <2>1 DEF TypeOK, Begin, workVars
  <1>2. CASE Spawn
    <2>1. spawned' \in 0..N
      BY <1>2 DEF Spawn, TypeOK
    <2>2. worker' \in [Items -> {"none", "call", "send", "done"}]
      BY <1>2 DEF Spawn, TypeOK
    <2> QED BY <1>2, <2>1, <2>2 DEF TypeOK, Spawn
  <1>3. CASE SpawnCloser
    BY <1>3 DEF TypeOK, SpawnCloser
  <1>4. CASE Receive
    <2>1. Head(ch) \in Items /\ Tail(ch) \in Seq(Items) /\ Len(Tail(ch)) <= N
      BY <1>4 DEF Receive, TypeOK
    <2> QED BY <1>4, <2>1 DEF TypeOK, Receive, workVars
  <1>5. CASE RangeEnds
    BY <1>5 DEF TypeOK, RangeEnds, workVars
  <1>6. CASE Encode
    BY <1>6 DEF TypeOK, Encode, workVars
  <1>7. CASE WriteFails
    BY <1>7 DEF TypeOK, WriteFails, workVars
  <1>8. CASE WriteComma
    <2>1. out' \in Seq(Tokens)
      BY <1>t, <1>8, Written DEF WriteComma
    <2> QED BY <1>8, <2>1 DEF TypeOK, WriteComma, workVars
  <1>9. CASE WriteItem
    <2>1. out' \in Seq(Tokens)
      BY <1>t, <1>9, Written DEF WriteItem
    <2> QED BY <1>9, <2>1 DEF TypeOK, WriteItem, workVars
  <1>10. CASE End
    <2>1. out' \in Seq(Tokens)
      BY <1>t, <1>10, Written DEF End, TypeOK
    <2> QED BY <1>10, <2>1 DEF TypeOK, End, workVars
  <1> QED BY <1>1, <1>2, <1>3, <1>4, <1>5, <1>6, <1>7, <1>8, <1>9, <1>10 DEF Handler

\* So do the goroutines it starts.
LEMMA GoroutinesTyped ==
  TInv /\ ((\E i \in Items : Call(i) \/ Send(i)) \/ CloseResults) => TInv'
  <1> USE DEF TInv, Holding
  <1>1. ASSUME TInv, NEW i \in Items, Call(i) PROVE TInv'
    <2>1. worker' \in [Items -> {"none", "call", "send", "done"}]
      BY <1>1 DEF TypeOK, Call
    <2>2. kind' \in [Items -> Kinds \cup {"pending"}]
      BY <1>1 DEF TypeOK, Call
    <2> QED BY <1>1, <2>1, <2>2 DEF TypeOK, Call
  <1>2. ASSUME TInv, NEW i \in Items, Send(i) PROVE TInv'
    <2>1. Append(ch, i) \in Seq(Items) /\ Len(Append(ch, i)) <= N
      BY <1>2, BatchAssumption DEF TypeOK, Send
    <2>2. worker' \in [Items -> {"none", "call", "send", "done"}]
      BY <1>2 DEF TypeOK, Send
    <2> QED BY <1>2, <2>1, <2>2 DEF TypeOK, Send
  <1>3. ASSUME TInv, CloseResults PROVE TInv'
    BY <1>3 DEF TypeOK, CloseResults
  <1> QED BY <1>1, <1>2, <1>3

\* The steps of a batch, one goroutine each.
LEMMA NextCases ==
  [Next]_vars => \/ Handler \/ CloseResults \/ UNCHANGED vars
                 \/ \E i \in Items : Call(i) \/ Send(i)
  BY DEF Next, Terminated

\* Types, with the held result.
LEMMA TypedInvariant == Spec => []TInv
  <1>1. TInv /\ [Next]_vars => TInv'
    <2>1. TInv /\ UNCHANGED vars => TInv'
      BY DEF TInv, TypeOK, Holding, vars
    <2> QED BY <2>1, NextCases, HandlerTyped, GoroutinesTyped
  <1> QED BY <1>1, InitTyped, PTL DEF Spec

\* Type correctness of streamed batches (handleBatchStream).
THEOREM TypeCorrect == Spec => []TypeOK
  BY TypedInvariant, PTL DEF TInv

-----------------------------------------------------------------------------
(* Control: the goroutines, the closer and the channel *)

CtrlInv ==
  /\ \A i \in Items : worker[i] = "none" <=> i > spawned
  /\ pc \in {"begin", "spawn"} => closer = "none"
  /\ closer # "none" => spawned = N
  /\ closed <=> closer = "done"
  /\ closed => \A i \in Items : worker[i] = "done"
  /\ pc = "end" => closed /\ ch = <<>>

\* Who was started, and when the channel may be closed.
LEMMA ControlInvariant == Spec => []CtrlInv
  <1>1. Init => CtrlInv
    BY BatchAssumption DEF Init, CtrlInv, Items
  <1>2. ASSUME TInv, CtrlInv, Handler PROVE CtrlInv'
    <2>1. CASE Begin
      BY <1>2, <2>1 DEF Begin, CtrlInv, workVars
    <2>2. CASE Spawn
      <3>1. \A i \in Items : worker'[i] = "none" <=> i > spawned'
        BY <1>2, <2>2, BatchAssumption DEF Spawn, CtrlInv, TInv, TypeOK, Items
      <3>2. ~closed
        BY <1>2, <2>2 DEF Spawn, CtrlInv
      <3> QED BY <1>2, <2>2, <3>1, <3>2 DEF Spawn, CtrlInv
    <2>3. CASE SpawnCloser
      BY <1>2, <2>3 DEF SpawnCloser, CtrlInv
    <2>4. CASE Receive
      BY <1>2, <2>4 DEF Receive, CtrlInv, workVars
    <2>5. CASE RangeEnds
      BY <1>2, <2>5 DEF RangeEnds, CtrlInv, workVars
    <2>6. CASE Encode
      BY <1>2, <2>6 DEF Encode, CtrlInv, workVars
    <2>7. CASE WriteFails
      BY <1>2, <2>7 DEF WriteFails, CtrlInv, workVars
    <2>8. CASE WriteComma
      BY <1>2, <2>8 DEF WriteComma, CtrlInv, workVars
    <2>9. CASE WriteItem
      BY <1>2, <2>9 DEF WriteItem, CtrlInv, workVars
    <2>10. CASE End
      BY <1>2, <2>10 DEF End, CtrlInv, workVars
    <2> QED BY <1>2, <2>1, <2>2, <2>3, <2>4, <2>5, <2>6, <2>7, <2>8, <2>9, <2>10
            DEF Handler
  <1>3. ASSUME TInv, CtrlInv, NEW i \in Items, Call(i) PROVE CtrlInv'
    <2>1. \A j \in Items : worker'[j] = "none" <=> j > spawned'
      BY <1>3 DEF Call, CtrlInv, TInv, TypeOK
    <2>2. ~closed
      BY <1>3 DEF Call, CtrlInv
    <2> QED BY <1>3, <2>1, <2>2 DEF Call, CtrlInv
  <1>4. ASSUME TInv, CtrlInv, NEW i \in Items, Send(i) PROVE CtrlInv'
    <2>1. \A j \in Items : worker'[j] = "none" <=> j > spawned'
      BY <1>4 DEF Send, CtrlInv, TInv, TypeOK
    <2>2. ~closed
      BY <1>4 DEF Send, CtrlInv
    <2> QED BY <1>4, <2>1, <2>2 DEF Send, CtrlInv
  <1>5. ASSUME TInv, CtrlInv, CloseResults PROVE CtrlInv'
    BY <1>5 DEF CloseResults, CtrlInv, Items
  <1>6. CtrlInv /\ UNCHANGED vars => CtrlInv'
    BY DEF CtrlInv, vars
  <1>7. TInv /\ CtrlInv /\ [Next]_vars => CtrlInv'
    BY <1>2, <1>3, <1>4, <1>5, <1>6, NextCases
  <1> QED BY <1>1, <1>7, TypedInvariant, PTL DEF Spec

\* No goroutine of a batch is still to send when resultCh is closed: the
\* closer waits for all of them, and all were started before it.
THEOREM ClosedAfterSends == Spec => []NoSendAfterClose
  <1>1. CtrlInv => NoSendAfterClose
    BY DEF CtrlInv, NoSendAfterClose
  <1> QED BY <1>1, ControlInvariant, PTL

-----------------------------------------------------------------------------
(* Where each result is *)

InHand(i) == Holding /\ held = i

Sent(i) == In(i, ch) \/ InHand(i) \/ In(i, out)

FlowInv ==
  /\ Distinct(ch)
  /\ \A i \in Items : Sent(i) => worker[i] = "done"
  /\ \A i \in Items : /\ ~(In(i, ch) /\ InHand(i))
                      /\ ~(In(i, ch) /\ In(i, out))
                      /\ ~(InHand(i) /\ In(i, out))
  /\ \A i \in Items : In(i, out) => kind[i] = "encodable"
  /\ pc \in {"comma", "item"} => kind[held] = "encodable"
  /\ failed => pc \in {"recv", "done"}
  /\ \A i \in Items : worker[i] \in {"send", "done"} => kind[i] \in Kinds
  /\ pc # "done" /\ ~failed =>
       \A i \in Items : worker[i] = "done" /\ kind[i] = "encodable" => Sent(i)

\* A step that moves no result and changes no worker keeps the flow.
LEMMA FlowFrame ==
  ASSUME FlowInv, UNCHANGED <<ch, worker, kind, held, failed>>,
         \A i \in Items : In(i, out') <=> In(i, out),
         Holding' <=> Holding,
         pc' \in {"comma", "item"} => kind[held] = "encodable",
         pc' = pc \/ pc' = "done" \/ (~failed /\ pc # "done")
  PROVE  FlowInv'
  <1>1. \A i \in Items : Sent(i)' <=> Sent(i)
    BY DEF Sent, InHand, In
  <1>2. \A i \in Items : InHand(i)' <=> InHand(i)
    BY DEF InHand
  <1>3. \A i \in Items : In(i, out)' <=> In(i, out)
    BY DEF In
  <1>4. \A i \in Items : In(i, ch)' <=> In(i, ch)
    BY DEF In
  <1>5. Distinct(ch)'
    BY DEF Distinct, FlowInv
  <1> QED BY <1>1, <1>2, <1>3, <1>4, <1>5 DEF FlowInv

\* Punctuation is no result.
LEMMA Punctuated ==
  ASSUME TypeOK, NEW t \in {LeftBrace, Comma, RightBrace}, Write(t)
  PROVE  \A i \in Items : In(i, out') <=> In(i, out)
  <1>1. t \in Tokens /\ t \notin Items
    BY DEF Tokens, Items, LeftBrace, Comma, RightBrace
  <1>2. \A i \in Items : In(i, Append(out, t)) <=> In(i, out) \/ i = t
    BY <1>1, InAppend DEF TypeOK
  <1> QED BY <1>1, <1>2 DEF Write

\* The handler drops the result in its hands, which it cannot write.
LEMMA Dropped ==
  ASSUME FlowInv, UNCHANGED <<ch, worker, kind, held, out>>, Holding,
         pc' \in {"recv", "done"},
         failed' \/ pc' = "done" \/ (kind[held] # "encodable" /\ ~failed)
  PROVE  FlowInv'
  <1>1. \A i \in Items : /\ In(i, ch)' <=> In(i, ch)
                         /\ In(i, out)' <=> In(i, out)
                         /\ InHand(i) <=> i = held
                         /\ ~InHand(i)'
    BY DEF In, InHand, Holding
  <1>2. Distinct(ch)'
    BY DEF Distinct, FlowInv
  <1> QED BY <1>1, <1>2 DEF FlowInv, Sent, Holding

\* The handler receives, writes or drops a result, and never two at once.
LEMMA HandlerFlow == TInv /\ CtrlInv /\ FlowInv /\ Handler => FlowInv'
  <1> SUFFICES ASSUME TInv, CtrlInv, FlowInv, Handler PROVE FlowInv'
    OBVIOUS
  <1>0. TypeOK /\ (Holding => held \in Items)
    BY DEF TInv
  <1>o. ASSUME UNCHANGED out PROVE \A i \in Items : In(i, out') <=> In(i, out)
    BY <1>o
  <1>1. CASE Begin
    <2>1. \A i \in Items : In(i, out') <=> In(i, out)
      BY <1>0, <1>1, <1>o, Punctuated DEF Begin
    <2>2. ~failed
      BY <1>1 DEF Begin, FlowInv
    <2> QED BY <1>1, <2>1, <2>2, FlowFrame DEF Begin, workVars, Holding
  <1>2. CASE Spawn
    <2>1. spawned + 1 \in Items /\ worker[spawned + 1] = "none"
      <3>1. spawned + 1 \in 1..N /\ spawned + 1 > spawned
        BY <1>0, <1>2, BatchAssumption DEF Spawn, TypeOK
      <3> QED BY <3>1 DEF CtrlInv, Items
    <2>2. \A i \in Items : worker'[i] = IF i = spawned + 1 THEN "call" ELSE worker[i]
      BY <1>0, <1>2 DEF Spawn, TypeOK
    <2>3. \A i \in Items : Sent(i)' <=> Sent(i)
      BY <1>2 DEF Spawn, Sent, InHand, Holding, In
    <2>4. \A i \in Items : /\ In(i, ch)' <=> In(i, ch)
                           /\ In(i, out)' <=> In(i, out)
                           /\ InHand(i)' <=> InHand(i)
      BY <1>2 DEF Spawn, InHand, Holding, In
    <2>5. Distinct(ch)'
      BY <1>2 DEF Spawn, FlowInv, Distinct
    <2> QED BY <1>2, <2>1, <2>2, <2>3, <2>4, <2>5 DEF Spawn, FlowInv
  <1>3. CASE SpawnCloser
    <2>1. ~failed
      BY <1>3 DEF SpawnCloser, FlowInv
    <2> QED BY <1>3, <1>o, <2>1, FlowFrame DEF SpawnCloser, Holding
  <1>4. CASE Receive
    <2>1. /\ Head(ch) \in Items /\ In(Head(ch), ch) /\ ~In(Head(ch), Tail(ch))
          /\ Distinct(Tail(ch))
          /\ \A i : In(i, ch) <=> In(i, Tail(ch)) \/ i = Head(ch)
      BY <1>0, <1>4, InTail DEF Receive, TypeOK, FlowInv
    <2>2. /\ Distinct(ch)'
          /\ \A i \in Items : /\ In(i, ch)' <=> In(i, Tail(ch))
                              /\ In(i, out)' <=> In(i, out)
                              /\ ~InHand(i)
      BY <1>4, <2>1 DEF Receive, Distinct, In, InHand, Holding
    <2>3. CASE failed
      <3>1. \A i \in Items : ~InHand(i)'
        BY <1>4, <2>3 DEF Receive, InHand, Holding
      <3> QED BY <1>4, <2>1, <2>2, <2>3, <3>1 DEF Receive, workVars, FlowInv, Sent
    <2>4. CASE ~failed
      <3>1. \A i \in Items : InHand(i)' <=> i = Head(ch)
        BY <1>4, <2>4 DEF Receive, InHand, Holding
      <3>2. \A i \in Items : Sent(i)' <=> Sent(i)
        BY <2>1, <2>2, <3>1 DEF Sent
      <3> QED BY <1>4, <2>1, <2>2, <2>4, <3>1, <3>2 DEF Receive, workVars, FlowInv, Sent
    <2> QED BY <2>3, <2>4
  <1>5. CASE RangeEnds
    BY <1>5, <1>o, FlowFrame DEF RangeEnds, workVars, Holding
  <1>6. CASE Encode
    <2>1. held \in Items /\ InHand(held)
      BY <1>0, <1>6 DEF Encode, Holding, InHand
    <2>2. kind[held] \in Kinds
      BY <2>1 DEF FlowInv, Sent
    <2>3. CASE kind[held] = "encodable"
      <3>1. ~failed
        BY <1>6 DEF Encode, FlowInv
      <3> QED BY <1>6, <1>o, <2>3, <3>1, FlowFrame DEF Encode, workVars, Holding
    <2>4. CASE kind[held] # "encodable"
      <3>1. pc' \in {"recv", "done"}
        BY <1>6, <2>2, <2>4 DEF Encode, Kinds
      <3> QED BY <1>6, <2>4, <3>1, Dropped DEF Encode, workVars, Holding, FlowInv
    <2> QED BY <2>3, <2>4
  <1>7. CASE WriteFails
    BY <1>7, Dropped DEF WriteFails, workVars, Holding
  <1>8. CASE WriteComma
    <2>1. \A i \in Items : In(i, out') <=> In(i, out)
      BY <1>0, <1>8, Punctuated DEF WriteComma
    <2>2. ~failed
      BY <1>8 DEF WriteComma, FlowInv
    <2>3. kind[held] = "encodable"
      BY <1>8 DEF WriteComma, FlowInv
    <2> QED BY <1>8, <2>1, <2>2, <2>3, FlowFrame DEF WriteComma, workVars, Holding
  <1>9. CASE WriteItem
    <2>1. held \in Items /\ InHand(held) /\ kind[held] = "encodable" /\ ~failed
      BY <1>0, <1>9 DEF WriteItem, Holding, InHand, FlowInv
    <2>2. \A i \in Items : In(i, out)' <=> In(i, out) \/ i = held
      <3>1. held \in Tokens /\ out \in Seq(Tokens)
        BY <1>0, <2>1 DEF TypeOK, Tokens
      <3>2. \A i : In(i, Append(out, held)) <=> In(i, out) \/ i = held
        BY <3>1, InAppend
      <3> QED BY <1>9, <3>2 DEF WriteItem, Write, In
    <2>3. \A i \in Items : /\ In(i, ch)' <=> In(i, ch)
                           /\ InHand(i) <=> i = held
                           /\ ~InHand(i)'
      BY <1>9 DEF WriteItem, In, InHand, Holding
    <2>4. \A i \in Items : Sent(i)' <=> Sent(i)
      BY <2>2, <2>3 DEF Sent
    <2>5. Distinct(ch)'
      BY <1>9 DEF WriteItem, Distinct, FlowInv
    <2> QED BY <1>9, <2>1, <2>2, <2>3, <2>4, <2>5 DEF WriteItem, workVars, FlowInv
  <1>10. CASE End
    <2>1. \A i \in Items : In(i, out') <=> In(i, out)
      BY <1>0, <1>10, <1>o, Punctuated DEF End
    <2>2. ~failed
      BY <1>10 DEF End, FlowInv
    <2> QED BY <1>10, <2>1, <2>2, FlowFrame DEF End, workVars, Holding
  <1> QED BY <1>1, <1>2, <1>3, <1>4, <1>5, <1>6, <1>7, <1>8, <1>9, <1>10 DEF Handler

\* A goroutine sends its result once.
LEMMA GoroutinesFlow ==
  TInv /\ FlowInv /\ ((\E i \in Items : Call(i) \/ Send(i)) \/ CloseResults)
    => FlowInv'
  <1> SUFFICES ASSUME TInv, FlowInv,
                      (\E i \in Items : Call(i) \/ Send(i)) \/ CloseResults
               PROVE  FlowInv'
    OBVIOUS
  <1>0. TypeOK /\ (Holding => held \in Items)
    BY DEF TInv
  <1>1. ASSUME NEW i \in Items, Call(i) PROVE FlowInv'
    <2>1. ~Sent(i)
      BY <1>1 DEF Call, FlowInv
    <2>2. \A j \in Items : /\ worker'[j] = IF j = i THEN "send" ELSE worker[j]
                           /\ j # i => kind'[j] = kind[j]
          /\ kind'[i] \in Kinds
      BY <1>0, <1>1 DEF Call, TypeOK
    <2>3. \A j \in Items : /\ In(j, ch)' <=> In(j, ch)
                           /\ In(j, out)' <=> In(j, out)
                           /\ InHand(j)' <=> InHand(j)
                           /\ Sent(j)' <=> Sent(j)
      BY <1>1 DEF Call, In, InHand, Holding, Sent
    <2>4. pc' \in {"comma", "item"} => kind'[held'] = "encodable"
      <3>1. Holding => held # i
        BY <1>0, <2>1 DEF Sent, InHand
      <3> QED BY <1>0, <1>1, <2>2, <3>1 DEF Call, FlowInv, Holding
    <2>5. Distinct(ch)'
      BY <1>1 DEF Call, Distinct, FlowInv
    <2> QED BY <1>1, <2>1, <2>2, <2>3, <2>4, <2>5 DEF Call, FlowInv, Sent
  <1>2. ASSUME NEW i \in Items, Send(i) PROVE FlowInv'
    <2>1. ~Sent(i)
      BY <1>2 DEF Send, FlowInv
    <2>2. \A j \in Items : worker'[j] = IF j = i THEN "done" ELSE worker[j]
      BY <1>0, <1>2 DEF Send, TypeOK
    <2>3. \A j \in Items : /\ In(j, ch)' <=> In(j, ch) \/ j = i
                           /\ In(j, out)' <=> In(j, out)
                           /\ InHand(j)' <=> InHand(j)
      <3>1. \A j : In(j, Append(ch, i)) <=> In(j, ch) \/ j = i
        BY <1>0, InAppend DEF TypeOK
      <3> QED BY <1>2, <3>1 DEF Send, In, InHand, Holding
    <2>4. \A j \in Items : Sent(j)' <=> Sent(j) \/ j = i
      BY <2>3 DEF Sent
    <2>5. Distinct(ch)'
      BY <1>0, <1>2, <2>1 DEF Send, Distinct, FlowInv, Sent, In, TypeOK
    <2> QED BY <1>2, <2>1, <2>2, <2>3, <2>4, <2>5 DEF Send, FlowInv, Sent
  <1>3. ASSUME CloseResults PROVE FlowInv'
    <2>1. \A j \in Items : In(j, out') <=> In(j, out)
      BY <1>3 DEF CloseResults
    <2> QED BY <1>3, <2>1, FlowFrame DEF CloseResults, Holding, FlowInv
  <1> QED BY <1>1, <1>2, <1>3

\* Every result that returned is in one place.
LEMMA FlowInvariant == Spec => []FlowInv
  <1>1. Init => FlowInv
    BY DEF Init, FlowInv, Sent, In, InHand, Holding, Distinct
  <1>2. FlowInv /\ UNCHANGED vars => FlowInv'
    <2> SUFFICES ASSUME FlowInv, UNCHANGED vars PROVE FlowInv'
      OBVIOUS
    <2>1. \A j \in Items : In(j, out') <=> In(j, out)
      BY DEF vars
    <2> QED BY <2>1, FlowFrame DEF vars, Holding, FlowInv
  <1>3. TInv /\ CtrlInv /\ FlowInv /\ [Next]_vars => FlowInv'
    BY <1>2, NextCases, HandlerFlow, GoroutinesFlow
  <1> QED BY <1>1, <1>3, TypedInvariant, ControlInvariant, PTL DEF Spec

-----------------------------------------------------------------------------
(* The syntax of the response *)

LastToken == out[Len(out)]

\* What the next write may append, by the handler's position.
SyntaxInv ==
  /\ ObjectPrefix
  /\ pc = "begin" => out = <<>> /\ first /\ ~failed
  /\ pc # "done" => ~In(RightBrace, out)
  /\ pc \notin {"begin", "done"} /\ ~failed =>
       IF first THEN pc # "comma" /\ Len(out) = 1
       ELSE Len(out) >= 2 /\ IF pc = "item" THEN LastToken = Comma ELSE LastToken \in Items

\* One more token, where the grammar allows it, keeps a prefix of an object.
LEMMA PrefixGrows ==
  ASSUME TypeOK, ObjectPrefix, ~In(RightBrace, out), NEW t \in Tokens, Write(t),
         t = LeftBrace <=> Len(out) = 0,
         t = Comma => LastToken \in Items,
         t = RightBrace => LastToken # Comma,
         t \in Items => ~In(t, out) /\ (Len(out) = 1 \/ LastToken = Comma)
  PROVE  ObjectPrefix'
  <1>1. /\ Len(out) \in Nat /\ Len(out') = Len(out) + 1
        /\ out'[Len(out) + 1] = t
        /\ \A k \in 1..Len(out) : out'[k] = out[k]
    BY DEF TypeOK, Write
  <1>2. ASSUME NEW k \in 1..Len(out')
        PROVE  /\ out'[k] = LeftBrace <=> k = 1
               /\ out'[k] = RightBrace => k = Len(out') /\ out'[k - 1] # Comma
               /\ out'[k] = Comma => out'[k - 1] \in Items
               /\ out'[k] \in Items => out'[k - 1] = Comma \/ k = 2
    <2>1. CASE k \in 1..Len(out)
      <3>1. out'[k] = out[k] /\ out[k] # RightBrace
        BY <1>1, <2>1 DEF In
      <3>2. k # 1 => out'[k - 1] = out[k - 1]
        BY <1>1, <2>1
      <3>3. k = 1 => out'[k] = LeftBrace
        BY <2>1, <3>1 DEF ObjectPrefix
      <3> QED BY <2>1, <3>1, <3>2, <3>3 DEF ObjectPrefix, LeftBrace, Comma, RightBrace, Items
    <2>2. CASE k = Len(out) + 1
      <3>1. out'[k] = t /\ k = Len(out')
        BY <1>1, <2>2
      <3>2. Len(out) # 0 => k - 1 \in 1..Len(out) /\ out'[k - 1] = LastToken
        BY <1>1, <2>2 DEF LastToken
      <3>3. Len(out) = 0 => t = LeftBrace
        OBVIOUS
      <3> QED BY <1>1, <2>2, <3>1, <3>2, <3>3 DEF LeftBrace, Comma, RightBrace, Items
    <2> QED BY <1>1, <2>1, <2>2
  <1>3. ASSUME NEW j \in 1..Len(out'), NEW k \in 1..Len(out'),
               out'[j] = out'[k], out'[j] \in Items
        PROVE  j = k
    <2>1. CASE j \in 1..Len(out) /\ k \in 1..Len(out)
      BY <1>1, <1>3, <2>1 DEF ObjectPrefix
    <2>2. CASE j \in 1..Len(out) /\ k = Len(out) + 1
      BY <1>1, <1>3, <2>2 DEF In
    <2>3. CASE j = Len(out) + 1 /\ k \in 1..Len(out)
      BY <1>1, <1>3, <2>3 DEF In
    <2> QED BY <1>1, <2>1, <2>2, <2>3
  <1> QED BY <1>2, <1>3 DEF ObjectPrefix

\* A step that writes nothing keeps the syntax if it respects the position.
LEMMA SyntaxFrame ==
  ASSUME SyntaxInv, UNCHANGED <<out, first>>, pc # "begin", pc' # "begin",
         pc # "done",
         \/ failed' \/ pc' = "done"
         \/ /\ ~failed
            /\ first => pc' # "comma"
            /\ ~first => (pc' = "item" <=> pc = "item")
  PROVE  SyntaxInv'
  <1>1. ObjectPrefix'
    BY DEF SyntaxInv, ObjectPrefix
  <1>2. ~In(RightBrace, out)'
    BY DEF SyntaxInv, In
  <1> QED BY <1>1, <1>2 DEF SyntaxInv, LastToken

\* Every write of the handler is one the grammar allows.
LEMMA HandlerSyntax == TInv /\ FlowInv /\ SyntaxInv /\ Handler => SyntaxInv'
  <1> SUFFICES ASSUME TInv, FlowInv, SyntaxInv, Handler PROVE SyntaxInv'
    OBVIOUS
  <1>0. TypeOK /\ (Holding => held \in Items)
    BY DEF TInv
  <1>t. /\ LeftBrace \in Tokens /\ Comma \in Tokens /\ RightBrace \in Tokens
        /\ Items \subseteq Tokens
        /\ LeftBrace # Comma /\ LeftBrace # RightBrace /\ Comma # RightBrace
        /\ LeftBrace \notin Items /\ Comma \notin Items /\ RightBrace \notin Items
    BY DEF Tokens, Items, LeftBrace, Comma, RightBrace
  <1>a. ASSUME NEW t \in Tokens, Write(t)
        PROVE  /\ Len(out) \in Nat /\ Len(out') = Len(out) + 1 /\ LastToken' = t
               /\ In(RightBrace, out') <=> In(RightBrace, out) \/ RightBrace = t
    <2>1. In(RightBrace, Append(out, t)) <=> In(RightBrace, out) \/ RightBrace = t
      BY <1>0, InAppend DEF TypeOK
    <2> QED BY <1>0, <1>a, <2>1 DEF Write, TypeOK, LastToken
  <1>1. CASE Begin
    <2>1. CASE Write(LeftBrace) /\ pc' = "spawn"
      <3>1. Len(out) = 0 /\ out = <<>> /\ ~In(RightBrace, out) /\ first /\ ~failed
        BY <1>1 DEF Begin, SyntaxInv
      <3>2. ObjectPrefix'
        BY <1>0, <1>t, <2>1, <3>1, PrefixGrows DEF SyntaxInv
      <3>3. Len(out') = 1 /\ ~In(RightBrace, out')
        BY <1>a, <1>t, <2>1, <3>1
      <3> QED BY <1>1, <2>1, <3>1, <3>2, <3>3 DEF Begin, SyntaxInv, In
    <2>2. CASE UNCHANGED out /\ pc' = "done"
      <3>1. ObjectPrefix'
        BY <2>2 DEF SyntaxInv, ObjectPrefix
      <3> QED BY <2>2, <3>1 DEF SyntaxInv
    <2> QED BY <1>1, <2>1, <2>2 DEF Begin
  <1>2. CASE Spawn
    BY <1>2, SyntaxFrame DEF Spawn, FlowInv
  <1>3. CASE SpawnCloser
    BY <1>3, SyntaxFrame DEF SpawnCloser, FlowInv
  <1>4. CASE Receive
    BY <1>4, SyntaxFrame DEF Receive
  <1>5. CASE RangeEnds
    BY <1>5, SyntaxFrame DEF RangeEnds
  <1>6. CASE Encode
    BY <1>6, SyntaxFrame DEF Encode, FlowInv
  <1>7. CASE WriteFails
    BY <1>7, SyntaxFrame DEF WriteFails
  <1>8. CASE WriteComma
    <2>1. ~failed /\ ~first /\ ~In(RightBrace, out) /\ Len(out) >= 2 /\ LastToken \in Items
      BY <1>8 DEF WriteComma, SyntaxInv, FlowInv
    <2>2. Write(Comma) /\ Comma \in Tokens /\ Len(out) # 0
      BY <1>8, <1>t, <2>1 DEF WriteComma
    <2>3. ObjectPrefix'
      BY <1>0, <1>t, <2>1, <2>2, PrefixGrows DEF SyntaxInv
    <2>4. Len(out') >= 2 /\ LastToken' = Comma /\ ~In(RightBrace, out')
      BY <1>a, <1>t, <2>1, <2>2
    <2> QED BY <1>8, <2>1, <2>3, <2>4 DEF WriteComma, SyntaxInv, In
  <1>9. CASE WriteItem
    <2>1. /\ ~failed /\ ~In(RightBrace, out) /\ Len(out) # 0
          /\ Len(out) = 1 \/ LastToken = Comma
      <3>1. pc = "item" /\ ~failed
        BY <1>9 DEF WriteItem, FlowInv
      <3>2. IF first THEN Len(out) = 1 ELSE Len(out) >= 2 /\ LastToken = Comma
        BY <3>1 DEF SyntaxInv
      <3>3. ~In(RightBrace, out)
        BY <3>1 DEF SyntaxInv
      <3> QED BY <3>1, <3>2, <3>3
    <2>2. held \in Items /\ held \in Tokens /\ Write(held) /\ ~In(held, out)
      BY <1>0, <1>9, <1>t DEF WriteItem, Holding, InHand, FlowInv
    <2>3. ObjectPrefix'
      BY <1>0, <1>t, <2>1, <2>2, PrefixGrows DEF SyntaxInv
    <2>4. Len(out') >= 2 /\ LastToken' = held /\ ~In(RightBrace, out')
      BY <1>a, <1>t, <2>1, <2>2
    <2> QED BY <1>9, <2>1, <2>2, <2>3, <2>4 DEF WriteItem, SyntaxInv, In
  <1>10. CASE End
    <2>1. /\ ~failed /\ ~In(RightBrace, out) /\ Len(out) # 0 /\ LastToken # Comma
      BY <1>0, <1>10, <1>t DEF End, SyntaxInv, FlowInv, TypeOK, LastToken, ObjectPrefix
    <2>2. ObjectPrefix'
      <3>1. CASE Write(RightBrace)
        BY <1>0, <1>t, <2>1, <3>1, PrefixGrows DEF SyntaxInv
      <3>2. CASE UNCHANGED out
        BY <3>2 DEF SyntaxInv, ObjectPrefix
      <3> QED BY <1>10, <3>1, <3>2 DEF End
    <2> QED BY <1>10, <2>2 DEF End, SyntaxInv
  <1> QED BY <1>1, <1>2, <1>3, <1>4, <1>5, <1>6, <1>7, <1>8, <1>9, <1>10 DEF Handler

\* The syntax, and what may come next.
LEMMA SyntaxInvariant == Spec => []SyntaxInv
  <1>1. Init => SyntaxInv
    BY DEF Init, SyntaxInv, ObjectPrefix, In
  <1>2. ASSUME SyntaxInv, UNCHANGED <<pc, out, first, failed>> PROVE SyntaxInv'
    <2>1. ObjectPrefix'
      BY <1>2 DEF SyntaxInv, ObjectPrefix
    <2> QED BY <1>2, <2>1 DEF SyntaxInv, LastToken, In
  <1>3. (\E i \in Items : Call(i) \/ Send(i)) \/ CloseResults \/ UNCHANGED vars
          => UNCHANGED <<pc, out, first, failed>>
    BY DEF Call, Send, CloseResults, vars
  <1>4. TInv /\ FlowInv /\ SyntaxInv /\ [Next]_vars => SyntaxInv'
    BY <1>2, <1>3, NextCases, HandlerSyntax
  <1> QED BY <1>1, <1>4, TypedInvariant, FlowInvariant, PTL DEF Spec

\* The response of a streamed batch is a prefix of one JSON object with
\* distinct keys, whatever fails.
THEOREM ResponseWellFormed == Spec => []ObjectPrefix
  BY SyntaxInvariant, PTL DEF SyntaxInv

-----------------------------------------------------------------------------
(* The closed object *)

\* A complete object has all the results that could be written.
CompleteInv ==
  In(RightBrace, out) =>
    /\ pc = "done" /\ closed
    /\ \A i \in Items : kind[i] = "encodable" <=> In(i, out)

\* The closing brace comes after every result that can be encoded.
LEMMA EndCompletes ==
  ASSUME TInv, CtrlInv, FlowInv, End
  PROVE  CompleteInv'
  <1>1. pc = "end" /\ closed /\ ch = <<>> /\ ~failed /\ ~Holding
    BY DEF End, CtrlInv, FlowInv, Holding
  <1>2. ASSUME NEW i \in Items PROVE kind[i] = "encodable" <=> In(i, out)
    <2>1. worker[i] = "done" /\ ~In(i, ch) /\ ~InHand(i)
      BY <1>1 DEF CtrlInv, In, InHand
    <2> QED BY <1>1, <2>1 DEF FlowInv, Sent
  <1>3. \A i \in Items : In(i, out') <=> In(i, out)
    <2>1. CASE Write(RightBrace)
      BY <2>1, Punctuated DEF TInv
    <2>2. CASE UNCHANGED out
      BY <2>2
    <2> QED BY <2>1, <2>2 DEF End
  <1>4. pc' = "done" /\ closed' /\ kind' = kind
    BY <1>1 DEF End, workVars
  <1> QED BY <1>2, <1>3, <1>4 DEF CompleteInv, In

\* A closed object stays complete.
LEMMA CompleteInvariant == Spec => []CompleteInv
  <1>1. Init => CompleteInv
    BY DEF Init, CompleteInv, In
  <1>2. ASSUME TInv, CtrlInv, FlowInv, SyntaxInv, SyntaxInv', CompleteInv, Handler
        PROVE  CompleteInv'
    <2>1. CASE End
      BY <1>2, <2>1, EndCompletes
    <2>2. CASE pc' # "done"
      BY <2>2, <1>2 DEF SyntaxInv, CompleteInv, In
    <2>3. CASE ~End /\ pc' = "done"
      <3>1. pc # "done" /\ UNCHANGED out
        BY <1>2, <2>3
           DEF Handler, Begin, Spawn, SpawnCloser, Receive, RangeEnds, Encode,
               WriteFails, WriteComma, WriteItem
      <3>2. ~In(RightBrace, out')
        BY <1>2, <3>1 DEF SyntaxInv
      <3> QED BY <3>2 DEF CompleteInv, In
    <2> QED BY <2>1, <2>2, <2>3
  <1>3. ASSUME TInv, CtrlInv, CompleteInv,
               (\E i \in Items : Call(i) \/ Send(i)) \/ CloseResults \/ UNCHANGED vars
        PROVE  CompleteInv'
    <2>1. UNCHANGED <<pc, out>> /\ (closed => closed')
      BY <1>3 DEF Call, Send, CloseResults, vars
    <2>2. closed => kind' = kind
      BY <1>3 DEF CtrlInv, Call, Send, CloseResults, vars
    <2> QED BY <1>3, <2>1, <2>2 DEF CompleteInv, In
  <1>4. TInv /\ CtrlInv /\ FlowInv /\ SyntaxInv /\ SyntaxInv' /\ CompleteInv /\ [Next]_vars
          => CompleteInv'
    BY <1>2, <1>3, NextCases
  <1> QED BY <1>1, <1>4, TypedInvariant, ControlInvariant, FlowInvariant,
             SyntaxInvariant, PTL DEF Spec

\* A streamed batch whose object was closed has every result that can be
\* encoded, and no other.
THEOREM ClosedObjectComplete == Spec => []CompleteObject
  <1>1. CompleteInv => CompleteObject
    BY DEF CompleteInv, CompleteObject, In
  <1> QED BY <1>1, CompleteInvariant, PTL
=============================================================================
