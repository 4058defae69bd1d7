---------------------------- MODULE BatchStream ----------------------------
(***************************************************************************)
(* A streamed batch (handleBatchStream in pkg/router/handler_stream.go).   *)
(*                                                                         *)
(* The handler writes "{", starts one goroutine per requested procedure    *)
(* and one that closes the results channel after the last of them, and     *)
(* writes each result as it arrives, so that the response is one JSON      *)
(* object keyed by the index of the procedure in the request.  The client  *)
(* may be gone at any time, which fails a write; a result may not be       *)
(* encodable, or its MarshalJSON may panic.                                *)
(*                                                                         *)
(* The response is modelled as the sequence of tokens written: an item is  *)
(* represented by its position in the batch, counted from 1, and the       *)
(* punctuation by numbers that are no position.                            *)
(***************************************************************************)
EXTENDS Integers, Sequences, FiniteSets

CONSTANT N  \* procedures in the batch; strings.Split never yields none

ASSUME BatchAssumption == N \in Nat \ {0}

Items == 1..N

LeftBrace == 0
Comma == -1
RightBrace == -2

\* What callProcedure returned, by what json.Marshal makes of it.
Kinds == {"encodable", "unencodable", "panicking"}

None == 0

VARIABLES
  pc,       \* control of the handler
  spawned,  \* procedures whose goroutine was started
  worker,   \* control of each goroutine
  kind,     \* the result of each procedure, "pending" before it returns
  ch,       \* resultCh, with a capacity of one slot per procedure
  closer,   \* the goroutine that waits for the others: "none", "waiting", "done"
  closed,   \* resultCh is closed
  held,     \* the result being written
  first,    \* no result was written yet
  failed,   \* writeErr # nil
  out       \* tokens written to the response

workVars == <<spawned, worker, kind, closer, closed>>
vars == <<pc, spawned, worker, kind, ch, closer, closed, held, first, failed, out>>

Tokens == {LeftBrace, Comma, RightBrace} \cup Items

TypeOK ==
  /\ pc \in {"begin", "spawn", "recv", "encode", "comma", "item", "end", "done"}
  /\ spawned \in 0..N
  /\ worker \in [Items -> {"none", "call", "send", "done"}]
  /\ kind \in [Items -> Kinds \cup {"pending"}]
  /\ ch \in Seq(Items) /\ Len(ch) <= N
  /\ closer \in {"none", "waiting", "done"}
  /\ closed \in BOOLEAN /\ first \in BOOLEAN /\ failed \in BOOLEAN
  /\ held \in Items \cup {None}
  /\ out \in Seq(Tokens)

Init ==
  /\ pc = "begin"
  /\ spawned = 0
  /\ worker = [i \in Items |-> "none"]
  /\ kind = [i \in Items |-> "pending"]
  /\ ch = <<>>
  /\ closer = "none" /\ closed = FALSE
  /\ held = None
  /\ first = TRUE /\ failed = FALSE
  /\ out = <<>>

Write(token) == out' = Append(out, token)

-----------------------------------------------------------------------------
(* The handler *)

\* The headers and "{"; if the write fails nothing is started.
Begin ==
  /\ pc = "begin"
  /\ \/ pc' = "spawn" /\ Write(LeftBrace)
     \/ pc' = "done" /\ UNCHANGED out
  /\ UNCHANGED <<workVars, ch, held, first, failed>>

\* Mutation: one goroutine too many is started.
SpawnOneMore ==
  /\ pc = "spawn"
  /\ spawned <= N
  /\ spawned' = spawned + 1
  /\ worker' = [worker EXCEPT ![spawned + 1] = "call"]
  /\ UNCHANGED <<pc, kind, ch, closer, closed, held, first, failed, out>>

\* wg.Add(1); go func
Spawn ==
  /\ pc = "spawn"
  /\ spawned < N
  /\ spawned' = spawned + 1
  /\ worker' = [worker EXCEPT ![spawned + 1] = "call"]
  /\ UNCHANGED <<pc, kind, ch, closer, closed, held, first, failed, out>>

SpawnCloser ==
  /\ pc = "spawn"
  /\ spawned = N
  /\ closer' = "waiting"
  /\ pc' = "recv"
  /\ UNCHANGED <<spawned, worker, kind, ch, closed, held, first, failed, out>>

\* for ir := range resultCh; after a write error the channel is drained.
Receive ==
  /\ pc = "recv"
  /\ ch # <<>>
  /\ ch' = Tail(ch)
  /\ IF failed THEN UNCHANGED <<pc, held>>
               ELSE pc' = "encode" /\ held' = Head(ch)
  /\ UNCHANGED <<workVars, first, failed, out>>

RangeEnds ==
  /\ pc = "recv"
  /\ ch = <<>> /\ closed
  /\ pc' = IF failed THEN "done" ELSE "end"
  /\ UNCHANGED <<workVars, ch, held, first, failed, out>>

\* A result json.Marshal fails on is logged and left out; a panic leaves the
\* handler, and net/http aborts the response.
Encode ==
  /\ pc = "encode"
  /\ pc' = CASE kind[held] = "unencodable" -> "recv"
             [] kind[held] = "panicking" -> "done"
             [] OTHER -> IF first THEN "item" ELSE "comma"
  /\ UNCHANGED <<workVars, ch, held, first, failed, out>>

\* Mutation: the comma's error is shadowed, and the loop goes on writing.
WriteErrorShadowed ==
  /\ pc \in {"comma", "item"}
  /\ pc' = "recv"
  /\ UNCHANGED <<workVars, ch, held, first, failed, out>>

WriteFails ==
  /\ pc \in {"comma", "item"}
  /\ failed' = TRUE
  /\ pc' = "recv"
  /\ UNCHANGED <<workVars, ch, held, first, out>>

WriteComma ==
  /\ pc = "comma"
  /\ Write(Comma)
  /\ pc' = "item"
  /\ UNCHANGED <<workVars, ch, held, first, failed>>

\* Mutation: `first` is never reset.
WriteItemStillFirst ==
  /\ pc = "item"
  /\ Write(held)
  /\ pc' = "recv"
  /\ UNCHANGED <<workVars, ch, held, first, failed>>

WriteItem ==
  /\ pc = "item"
  /\ Write(held)
  /\ first' = FALSE
  /\ pc' = "recv"
  /\ UNCHANGED <<workVars, ch, held, failed>>

\* "}", unless the write fails.
End ==
  /\ pc = "end"
  /\ Write(RightBrace) \/ UNCHANGED out
  /\ pc' = "done"
  /\ UNCHANGED <<workVars, ch, held, first, failed>>

Handler ==
  \/ Begin \/ Spawn \/ SpawnCloser \/ Receive \/ RangeEnds \/ Encode
  \/ WriteFails \/ WriteComma \/ WriteItem \/ End

-----------------------------------------------------------------------------
(* The goroutines *)

\* callProcedure returns; it recovers from panics of the procedure.
Call(i) ==
  /\ worker[i] = "call"
  /\ worker' = [worker EXCEPT ![i] = "send"]
  /\ \E k \in Kinds : kind' = [kind EXCEPT ![i] = k]
  /\ UNCHANGED <<pc, spawned, ch, closer, closed, held, first, failed, out>>

\* Mutation: resultCh has a single slot.
SendOneSlot(i) ==
  /\ worker[i] = "send"
  /\ ch = <<>>
  /\ ch' = Append(ch, i)
  /\ worker' = [worker EXCEPT ![i] = "done"]
  /\ UNCHANGED <<pc, spawned, kind, closer, closed, held, first, failed, out>>

\* resultCh <- ...; wg.Done().  The channel has a slot for every procedure.
Send(i) ==
  /\ worker[i] = "send"
  /\ Len(ch) < N
  /\ ch' = Append(ch, i)
  /\ worker' = [worker EXCEPT ![i] = "done"]
  /\ UNCHANGED <<pc, spawned, kind, closer, closed, held, first, failed, out>>

\* Mutation: the channel is closed once every procedure has returned.
CloseBeforeSends ==
  /\ closer = "waiting"
  /\ \A i \in 1..spawned : worker[i] # "call"
  /\ closed' = TRUE
  /\ closer' = "done"
  /\ UNCHANGED <<pc, spawned, worker, kind, ch, held, first, failed, out>>

\* wg.Wait(); close(resultCh)
CloseResults ==
  /\ closer = "waiting"
  /\ \A i \in 1..spawned : worker[i] = "done"
  /\ closed' = TRUE
  /\ closer' = "done"
  /\ UNCHANGED <<pc, spawned, worker, kind, ch, held, first, failed, out>>

Terminated ==
  /\ pc = "done"
  /\ \A i \in Items : worker[i] \in {"none", "done"}
  /\ closer \in {"none", "done"}
  /\ UNCHANGED vars

Next ==
  \/ Handler
  \/ \E i \in Items : Call(i) \/ Send(i)
  \/ CloseResults
  \/ Terminated

\* Goroutines run, and procedures return.
Fairness ==
  /\ WF_vars(Handler) /\ WF_vars(CloseResults)
  /\ \A i \in Items : WF_vars(Call(i)) /\ WF_vars(Send(i))

Spec == Init /\ [][Next]_vars

FairSpec == Spec /\ Fairness

-----------------------------------------------------------------------------
(* Properties *)

\* What was written is always a prefix of one JSON object whose keys are
\* distinct: commas are right whatever results were left out or failed.
ObjectPrefix ==
  /\ \A k \in 1..Len(out) :
       /\ out[k] = LeftBrace <=> k = 1
       /\ out[k] = RightBrace => k = Len(out) /\ out[k - 1] # Comma
       /\ out[k] = Comma => out[k - 1] \in Items
       /\ out[k] \in Items => out[k - 1] = Comma \/ k = 2
  /\ \A j, k \in 1..Len(out) : out[j] = out[k] /\ out[j] \in Items => j = k

\* A complete object has every result that can be encoded.
CompleteObject ==
  \A k \in 1..Len(out) : out[k] = RightBrace =>
    \A i \in Items : kind[i] = "encodable" <=> \E j \in 1..Len(out) : out[j] = i

\* Nothing is sent on the closed channel, which would panic in a goroutine
\* that has no recover.
NoSendAfterClose == closed => \A i \in Items : worker[i] = "done"

\* Every goroutine ends, however the handler left: on a write error, after a
\* panic, or because the opening brace could not be written.
GoroutinesEnd ==
  <>[](pc = "done" /\ closer # "waiting" /\ \A i \in Items : worker[i] \in {"none", "done"})
=============================================================================
