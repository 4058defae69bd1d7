---------------------------- MODULE CallsProofs ----------------------------
(***************************************************************************)
(* Proofs about concurrent calls, for any connections, requests,           *)
(* procedures and middlewares, and any limits.                             *)
(*                                                                         *)
(* Control first: where the goroutine of a connection stands in its chain. *)
(* On it rest the slots of MaxConnectionsPerIP, counted by the calls       *)
(* inside it, and the tokens of RateLimitByKey, which an eviction may not  *)
(* give anew.                                                              *)
(***************************************************************************)
EXTENDS Calls, FiniteSetTheorems, WellFoundedInduction, TLAPS

-----------------------------------------------------------------------------
(* Control *)

\* The connection is inside a chain of middlewares.
InChain(c) == pc[c] \in {"chain", "allow", "unwind"}

PCs == {"idle", "begin", "append", "apply", "chain", "allow", "unwind", "stream", "write", "sent"}

Outs == Results \cup {Error("panic")}

ConnInv(c) ==
  /\ pc[c] # "idle" => req[c] \in Requests
  /\ pc[c] \in {"append", "apply"} => Gate(c)
  /\ pc[c] \in {"idle", "append", "apply"} => results[c] = <<>>
  /\ pc[c] = "apply" /\ Len(Own(c)) <= Room =>
       \A i \in 1..Len(Own(c)) : spare[i] \in Kinds
  /\ ~InChain(c) => depth[c] = 0
  /\ depth[c] <= Len(chain[c])
  /\ pc[c] = "allow" => depth[c] < Len(chain[c]) /\ Upcoming(c) = "keyRate"
  /\ pc[c] = "unwind" => out[c] \in Outs /\ (Gate(c) => out[c] \in Results)

CtrlInv ==
  /\ pc \in [Conns -> PCs]
  /\ req \in [Conns -> Requests \cup {None}]
  /\ chain \in [Conns -> Seq(Kinds)]
  /\ depth \in [Conns -> Nat]
  /\ out \in [Conns -> Outs \cup {None}]
  /\ results \in [Conns -> Seq(Results)]
  /\ spare \in [1..Room -> Kinds \cup {None}]
  /\ \A c \in Conns : ConnInv(c)

\* Everything a connection has of its own.
Same(d) ==
  /\ pc'[d] = pc[d] /\ req'[d] = req[d] /\ chain'[d] = chain[d]
  /\ depth'[d] = depth[d] /\ out'[d] = out[d] /\ results'[d] = results[d]

\* The room behind r.middlewares is a number.
LEMMA RoomIsNat == Room \in Nat
  BY CallsAssumption DEF Room

\* A subscription's procedure is registered, and its middlewares are a list.
LEMMA GateOwn ==
  ASSUME NEW c \in Conns, Gate(c), results[c] = <<>>
  PROVE  Own(c) \in Seq(Kinds)
  <1>1. Item(c) = 1
    BY DEF Item
  <1>2. IsSubscription(Name(c))
    BY <1>1 DEF Gate, Route, Name
  <1> QED BY <1>2, CallsAssumption DEF IsSubscription, Own

\* A connection another one's step leaves alone keeps its invariant.
LEMMA OtherConn ==
  ASSUME NEW d \in Conns, ConnInv(d), Same(d), spare' = spare
  PROVE  ConnInv(d)'
  BY DEF ConnInv, Same, InChain, Gate, Own, Name, Item, Upcoming

\* The codes and results callProcedure knows.
LEMMA ResultTypes ==
  /\ \A code \in Codes : Error(code) \in Results /\ code # "OK" /\ Error(code).code = code
  /\ [code |-> "OK", env |-> FALSE, enc |-> "fine"] \in Results
  /\ \A enc \in {"fine", "fails", "panics"} : [code |-> "OK", env |-> FALSE, enc |-> enc] \in Results
  /\ {"MethodNotFound", "Unauthorized", "Forbidden", "BadRequest", "TooManyRequests",
      "ParseError", "InternalError", "NotFound"} \subseteq Codes
  /\ Error("panic").code = "panic" /\ Results \subseteq Outs /\ Error("panic") \in Outs
  BY DEF Results, Error, Codes, HTTPStatus, Outs

\* What callProcedure returns is a result.
LEMMA OutcomeType ==
  ASSUME NEW c \in Conns, out[c] \in Outs PROVE Outcome(c) \in Results
  <1>1. CASE out[c].code = "panic"
    BY <1>1, ResultTypes DEF Outcome
  <1>2. CASE out[c].code # "panic"
    <2>1. out[c] \in Results
      BY <1>2, ResultTypes DEF Outs
    <2>2. ~Failed(out[c]) => out[c] \in [code : {"OK"}, env : BOOLEAN, enc : {"fine", "fails", "panics"}]
      BY <2>1, ResultTypes DEF Results, Failed
    <2>3. ~Failed(out[c]) => [out[c] EXCEPT !.env = TRUE] \in Results
      BY <2>2 DEF Results
    <2> QED BY <1>2, <2>1, <2>3, ResultTypes DEF Outcome
  <1> QED BY <1>1, <1>2

\* No connection has been accepted.
LEMMA InitCtrl == Init => CtrlInv
  <1> SUFFICES ASSUME Init PROVE CtrlInv
    OBVIOUS
  <1>1. spare \in [1..Room -> Kinds \cup {None}]
    BY DEF Init
  <1>2. chain \in [Conns -> Seq(Kinds)] /\ results \in [Conns -> Seq(Results)]
    BY DEF Init
  <1>3. ASSUME NEW c \in Conns PROVE ConnInv(c)
    BY <1>3 DEF Init, ConnInv, InChain
  <1> QED BY <1>1, <1>2, <1>3 DEF Init, CtrlInv, PCs

\* A middleware that does not call next, or the handler, begins the way back.
LEMMA LeaveCtrl ==
  ASSUME CtrlInv, NEW c \in Conns, InChain(c) \/ pc[c] = "begin", NEW result \in Outs, NEW did,
         Leave(c, result, did), Gate(c) => result \in Results
  PROVE  CtrlInv'
  <1> USE DEF CtrlInv
  <1>1. \A d \in Conns \ {c} : Same(d)
    BY DEF Leave, Same
  <1>2. pc' \in [Conns -> PCs] /\ out' \in [Conns -> Outs \cup {None}]
    BY DEF Leave, PCs
  <1>3. ConnInv(c)'
    BY DEF Leave, ConnInv, InChain, Gate
  <1> QED BY <1>1, <1>2, <1>3, OtherConn DEF Leave

\* callProcedure enters the middlewares, or refuses the call at once.
LEMMA BeginCases ==
  ASSUME NEW c, Begin(c)
  PROVE  /\ pc[c] = "begin" /\ UNCHANGED <<req, depth, results, reply, spare, limitVars>>
         /\ \/ /\ Name(c) \in DOMAIN Procs
               /\ pc' = [pc EXCEPT ![c] = "chain"]
               /\ chain' = [chain EXCEPT ![c] = Global \o Own(c)]
               /\ UNCHANGED <<out, ran>>
            \/ /\ \E code \in {"MethodNotFound", "ParseError", "InternalError"} : Refuse(c, code)
               /\ UNCHANGED chain
  BY DEF Begin, Callable, Refuse, Leave

\* Arrival, dispatch and the composition of middlewares.
LEMMA DispatchCtrl ==
  ASSUME CtrlInv, NEW c \in Conns,
         (\E q \in Requests : Accept(c, q)) \/ Begin(c) \/ AppendOwn(c) \/ ApplyGate(c)
  PROVE  CtrlInv'
  <1> USE DEF CtrlInv
  <1>o. ASSUME spare' = spare, \A d \in Conns \ {c} : Same(d), ConnInv(c)'
        PROVE  \A d \in Conns : ConnInv(d)'
    BY <1>o, OtherConn
  <1>1. ASSUME NEW q \in Requests, Accept(c, q) PROVE CtrlInv'
    <2>1. \A d \in Conns \ {c} : Same(d)
      BY <1>1 DEF Accept, Same
    <2>2. pc' \in [Conns -> PCs] /\ req' \in [Conns -> Requests \cup {None}]
      BY <1>1 DEF Accept, PCs
    <2>3. req'[c] = q /\ results'[c] = <<>> /\ depth'[c] = 0 /\ depth'[c] <= Len(chain'[c])
          /\ pc'[c] \in {"sent", "append", "begin"}
          /\ (pc'[c] = "append" => Route(q) = "subscription")
      BY <1>1 DEF Accept, ConnInv, InChain
    <2>4. ConnInv(c)'
      BY <2>3 DEF ConnInv, InChain, Gate
    <2> QED BY <1>1, <1>o, <2>1, <2>2, <2>4 DEF Accept
  <1>2. CASE Begin(c)
    <2>1. pc[c] = "begin" /\ UNCHANGED <<req, depth, results, spare>>
      BY <1>2, BeginCases
    <2>2. CASE \E code \in {"MethodNotFound", "ParseError", "InternalError"} : Refuse(c, code)
      BY <2>1, <2>2, LeaveCtrl, ResultTypes DEF Refuse
    <2>3. CASE /\ Name(c) \in DOMAIN Procs
               /\ pc' = [pc EXCEPT ![c] = "chain"]
               /\ chain' = [chain EXCEPT ![c] = Global \o Own(c)]
               /\ UNCHANGED out
      <3>1. \A d \in Conns \ {c} : Same(d)
        BY <2>1, <2>3 DEF Same
      <3>2. Global \o Own(c) \in Seq(Kinds)
        BY <2>3, CallsAssumption DEF Own
      <3>3. pc' \in [Conns -> PCs] /\ chain' \in [Conns -> Seq(Kinds)] /\ pc'[c] = "chain"
        BY <2>3, <3>2 DEF PCs
      <3>a. Len(chain'[c]) \in Nat
        BY <3>3
      <3>4. depth'[c] = 0 /\ Len(chain'[c]) \in Nat /\ req'[c] \in Requests
        BY <2>1, <3>a DEF ConnInv, InChain
      <3>5. ConnInv(c)'
        BY <3>3, <3>4 DEF ConnInv, InChain
      <3> QED BY <1>o, <2>1, <2>3, <3>1, <3>3, <3>5
    <2> QED BY <1>2, <2>2, <2>3, BeginCases
  <1>3. CASE AppendOwn(c)
    <2>1. Own(c) \in Seq(Kinds)
      BY <1>3, GateOwn DEF AppendOwn, Goto, ConnInv
    <2>2. spare' \in [1..Room -> Kinds \cup {None}]
      BY <1>3, <2>1, RoomIsNat DEF AppendOwn
    <2>3. \A i \in 1..Room : spare'[i] = spare[i] \/ spare'[i] \in Kinds
      BY <1>3, <2>1, RoomIsNat DEF AppendOwn
    <2>4. pc' \in [Conns -> PCs]
      BY <1>3 DEF AppendOwn, Goto, PCs
    <2>5. ASSUME NEW d \in Conns PROVE ConnInv(d)'
      <3>1. CASE d = c
        <4>1. /\ pc'[c] = "apply" /\ req'[c] = req[c] /\ results'[c] = results[c]
              /\ depth'[c] = depth[c] /\ chain'[c] = chain[c]
          BY <1>3 DEF AppendOwn, Goto
        <4>2. Own(c)' = Own(c)
          BY <4>1 DEF Own, Name, Item
        <4>3. Len(Own(c)) <= Room => \A i \in 1..Len(Own(c)) : spare'[i] \in Kinds
          BY <1>3, <2>1, RoomIsNat DEF AppendOwn
        <4> QED BY <1>3, <3>1, <4>1, <4>2, <4>3 DEF AppendOwn, Goto, ConnInv, InChain, Gate, Upcoming
      <3>2. CASE d # c /\ pc[d] = "apply"
        <4>1. Own(d)' = Own(d) /\ Own(d) \in Seq(Kinds)
          BY <1>3, <3>2, GateOwn DEF AppendOwn, Goto, ConnInv, Own, Name, Item
        <4>2. Len(Own(d)) <= Room => \A i \in 1..Len(Own(d)) : spare'[i] \in Kinds
          BY <2>3, <3>2, <4>1, RoomIsNat DEF ConnInv
        <4> QED BY <1>3, <3>2, <4>1, <4>2 DEF AppendOwn, Goto, ConnInv, InChain, Gate, Upcoming
      <3>3. CASE d # c /\ pc[d] # "apply"
        BY <1>3, <3>3 DEF AppendOwn, Goto, ConnInv, InChain, Gate, Upcoming
      <3> QED BY <3>1, <3>2, <3>3
    <2> QED BY <1>3, <2>2, <2>4, <2>5 DEF AppendOwn
  <1>4. CASE ApplyGate(c)
    <2>1. \A d \in Conns \ {c} : Same(d)
      BY <1>4 DEF ApplyGate, Same, Goto
    <2>2. Own(c) \in Seq(Kinds)
      BY <1>4, GateOwn DEF ApplyGate, Goto, ConnInv
    <2>3. Appended(c) \in Seq(Kinds)
      <3>1. CASE Len(Own(c)) > Room
        BY <2>2, <3>1 DEF Appended
      <3>2. CASE Len(Own(c)) <= Room
        <4>1. \A i \in 1..Len(Own(c)) : spare[i] \in Kinds
          BY <1>4, <3>2 DEF ApplyGate, Goto, ConnInv
        <4>2. SubSeq(spare, 1, Len(Own(c))) = [i \in 1..Len(Own(c)) |-> spare[i]]
          BY <2>2, <3>2, RoomIsNat
        <4> QED BY <2>2, <3>2, <4>1, <4>2, RoomIsNat DEF Appended
      <3> QED BY <2>2, <3>1, <3>2, RoomIsNat
    <2>4. /\ pc' \in [Conns -> PCs] /\ chain' \in [Conns -> Seq(Kinds)]
      BY <1>4, <2>3, CallsAssumption DEF ApplyGate, Goto, PCs
    <2>5. pc'[c] = "chain" /\ depth'[c] = 0 /\ req'[c] = req[c] /\ req[c] \in Requests
      BY <1>4 DEF ApplyGate, Goto, ConnInv, InChain
    <2>6. Len(chain'[c]) \in Nat
      BY <2>4
    <2>7. ConnInv(c)'
      BY <2>5, <2>6 DEF ConnInv, InChain
    <2> QED BY <1>4, <1>o, <2>1, <2>4, <2>7 DEF ApplyGate
  <1> QED BY <1>1, <1>2, <1>3, <1>4
\* A middleware that calls next goes one deeper.
LEMMA AdmitCtrl ==
  ASSUME CtrlInv, NEW c \in Conns, InChain(c), depth[c] < Len(chain[c]), Admit(c)
  PROVE  CtrlInv'
  <1> USE DEF CtrlInv
  <1>1. \A d \in Conns \ {c} : Same(d)
    BY DEF Admit, Same
  <1>2. pc' \in [Conns -> PCs] /\ depth' \in [Conns -> Nat]
    BY DEF Admit, PCs
  <1>3. /\ pc'[c] = "chain" /\ depth'[c] = depth[c] + 1 /\ chain'[c] = chain[c]
        /\ req'[c] = req[c] /\ req[c] \in Requests
    BY DEF Admit, ConnInv, InChain
  <1>4. Len(chain[c]) \in Nat /\ depth[c] \in Nat
    OBVIOUS
  <1>5. ConnInv(c)'
    BY <1>3, <1>4 DEF ConnInv, InChain
  <1> QED BY <1>1, <1>2, <1>5, OtherConn DEF Admit

\* Middlewares keep their connection's goroutine where it should be.
LEMMA MiddlewaresCtrl ==
  ASSUME CtrlInv, NEW c \in Conns, Middlewares(c)
  PROVE  CtrlInv'
  <1>c. ASSUME NEW code \in Codes, Refuse(c, code), InChain(c) PROVE CtrlInv'
    BY <1>c, LeaveCtrl, ResultTypes DEF Refuse
  <1>a. \A kind : At(c, kind) => InChain(c) /\ depth[c] < Len(chain[c])
    BY DEF At, InChain
  <1>1. CASE Auth(c)
    BY <1>1, <1>a, <1>c, AdmitCtrl, ResultTypes DEF Auth
  <1>2. CASE MaxInputSize(c)
    BY <1>2, <1>a, <1>c, AdmitCtrl, ResultTypes DEF MaxInputSize
  <1>3. CASE PassThrough(c)
    BY <1>3, <1>a, AdmitCtrl DEF PassThrough
  <1>4. CASE RateLimit(c)
    BY <1>4, <1>a, <1>c, AdmitCtrl, ResultTypes DEF RateLimit
  <1>5. CASE MaxConnectionsPerIP(c)
    BY <1>5, <1>a, <1>c, AdmitCtrl, ResultTypes DEF MaxConnectionsPerIP
  <1>6. CASE FindLimiter(c)
    <2> USE DEF CtrlInv
    <2>1. \A d \in Conns \ {c} : Same(d)
      BY <1>6 DEF FindLimiter, Same
    <2>2. pc' \in [Conns -> PCs]
      BY <1>6 DEF FindLimiter, PCs
    <2>3. ConnInv(c)'
      BY <1>6, <1>a DEF FindLimiter, ConnInv, InChain, At, Upcoming
    <2> QED BY <1>6, <2>1, <2>2, <2>3, OtherConn DEF FindLimiter
  <1>7. CASE Allow(c)
    <2>1. InChain(c) /\ depth[c] < Len(chain[c])
      BY <1>7 DEF Allow, CtrlInv, ConnInv, InChain
    <2> QED BY <1>7, <1>c, <2>1, AdmitCtrl, ResultTypes DEF Allow
  <1> QED BY <1>1, <1>2, <1>3, <1>4, <1>5, <1>6, <1>7 DEF Middlewares

\* So do the gate and the handlers.
LEMMA HandlersCtrl ==
  ASSUME CtrlInv, NEW c \in Conns, PassGate(c) \/ Decode(c) \/ Handle(c)
  PROVE  CtrlInv'
  <1>c. ASSUME NEW result \in Outs, NEW did, Leave(c, result, did), InChain(c),
               Gate(c) => result \in Results
        PROVE  CtrlInv'
    BY <1>c, LeaveCtrl
  <1>1. Entered(c) => InChain(c)
    BY DEF Entered, InChain
  <1>2. CASE PassGate(c)
    BY <1>1, <1>2, <1>c, ResultTypes DEF PassGate
  <1>3. CASE Decode(c)
    BY <1>1, <1>3, <1>c, ResultTypes DEF Decode, Refuse
  <1>4. CASE Handle(c)
    <2>1. InChain(c) /\ Thrown \subseteq Codes
      BY <1>1, <1>4, CallsAssumption DEF Handle
    <2> QED BY <1>4, <1>c, <2>1, ResultTypes DEF Handle
  <1> QED BY <1>2, <1>3, <1>4

\* The way back, and the end of a call or of a request.
LEMMA ReturnCtrl ==
  ASSUME CtrlInv, NEW c \in Conns,
         Unwind(c) \/ Return(c) \/ OpenStream(c) \/ Write(c) \/ Finish(c)
  PROVE  CtrlInv'
  <1> USE DEF CtrlInv
  <1>o. ASSUME spare' = spare, \A d \in Conns \ {c} : Same(d), ConnInv(c)'
        PROVE  \A d \in Conns : ConnInv(d)'
    BY <1>o, OtherConn
  <1>1. CASE Unwind(c)
    <2>1. \A d \in Conns \ {c} : Same(d)
      BY <1>1 DEF Unwind, Same
    <2>2. depth' \in [Conns -> Nat] /\ depth'[c] = depth[c] - 1
      BY <1>1 DEF Unwind
    <2>3. depth'[c] <= Len(chain[c])
      BY <2>2 DEF ConnInv
    <2>4. ConnInv(c)'
      BY <1>1, <2>3 DEF Unwind, ConnInv, InChain, Gate
    <2> QED BY <1>1, <1>o, <2>1, <2>2, <2>4 DEF Unwind
  <1>2. CASE Return(c)
    <2>1. \A d \in Conns \ {c} : Same(d)
      BY <1>2 DEF Return, Same
    <2>2. Append(results[c], Outcome(c)) \in Seq(Results)
      BY <1>2, OutcomeType DEF Return, ConnInv
    <2>3. /\ pc' \in [Conns -> PCs] /\ chain' \in [Conns -> Seq(Kinds)]
          /\ results' \in [Conns -> Seq(Results)] /\ out' \in [Conns -> Outs \cup {None}]
      BY <1>2, <2>2 DEF Return, PCs
    <2>4. /\ pc'[c] \in {"begin", "write"} /\ depth'[c] = 0 /\ chain'[c] = <<>>
          /\ req'[c] = req[c] /\ req[c] \in Requests
      BY <1>2 DEF Return, ConnInv, InChain
    <2>5. ConnInv(c)'
      BY <2>4 DEF ConnInv, InChain
    <2> QED BY <1>2, <1>o, <2>1, <2>3, <2>5 DEF Return
  <1>3. CASE OpenStream(c)
    <2>1. \A d \in Conns \ {c} : Same(d)
      BY <1>3 DEF OpenStream, Same
    <2>2. PICK r \in {out[c], Error("NotFound"), Error("InternalError")} :
            /\ results' = [results EXCEPT ![c] = <<r>>]
            /\ pc' = [pc EXCEPT ![c] = IF Failed(results'[c][1]) THEN "write" ELSE "stream"]
      BY <1>3 DEF OpenStream
    <2>3. r \in Results
      BY <1>3, <2>2, ResultTypes DEF OpenStream, ConnInv
    <2>4. pc' \in [Conns -> PCs] /\ results' \in [Conns -> Seq(Results)]
      BY <2>2, <2>3 DEF PCs
    <2>5. /\ pc'[c] \in {"write", "stream"} /\ depth'[c] = 0 /\ chain'[c] = chain[c]
          /\ req'[c] = req[c] /\ req[c] \in Requests
      BY <1>3, <2>2 DEF OpenStream, ConnInv, InChain
    <2>6. ConnInv(c)'
      BY <2>5 DEF ConnInv, InChain
    <2> QED BY <1>3, <1>o, <2>1, <2>4, <2>6 DEF OpenStream
  <1>4. CASE Write(c)
    <2>1. \A d \in Conns \ {c} : Same(d)
      BY <1>4 DEF Write, Goto, Same
    <2>2. pc' \in [Conns -> PCs]
      BY <1>4 DEF Write, Goto, PCs
    <2>3. ConnInv(c)'
      BY <1>4 DEF Write, Goto, ConnInv, InChain
    <2> QED BY <1>4, <1>o, <2>1, <2>2, <2>3 DEF Write
  <1>5. CASE Finish(c)
    <2>1. \A d \in Conns \ {c} : Same(d)
      BY <1>5 DEF Finish, Same
    <2>2. /\ pc' \in [Conns -> PCs] /\ req' \in [Conns -> Requests \cup {None}]
          /\ chain' \in [Conns -> Seq(Kinds)] /\ out' \in [Conns -> Outs \cup {None}]
          /\ results' \in [Conns -> Seq(Results)]
      BY <1>5 DEF Finish, PCs
    <2>3. /\ pc'[c] = "idle" /\ depth'[c] = 0 /\ chain'[c] = <<>> /\ results'[c] = <<>>
      BY <1>5 DEF Finish, ConnInv, InChain
    <2>4. ConnInv(c)'
      BY <2>3 DEF ConnInv, InChain
    <2> QED BY <1>5, <1>o, <2>1, <2>2, <2>4 DEF Finish
  <1> QED BY <1>1, <1>2, <1>3, <1>4, <1>5
\* The steps of a server, one connection each, and the limiters' clock.
LEMMA NextCases ==
  [Next]_vars =>
    \/ \E c \in Conns : \E q \in Requests : Accept(c, q)
    \/ \E c \in Conns : Serve(c)
    \/ Tick \/ Evict \/ UNCHANGED vars
  BY DEF Next

\* Control is where it should be in every step.
LEMMA CtrlStep == CtrlInv /\ [Next]_vars => CtrlInv'
  <1> SUFFICES ASSUME CtrlInv, [Next]_vars PROVE CtrlInv'
    OBVIOUS
  <1>1. ASSUME NEW c \in Conns, (\E q \in Requests : Accept(c, q)) \/ Serve(c) PROVE CtrlInv'
    BY <1>1, DispatchCtrl, MiddlewaresCtrl, HandlersCtrl, ReturnCtrl DEF Serve
  <1>2. ASSUME UNCHANGED <<connVars, spare>> PROVE CtrlInv'
    BY <1>2 DEF CtrlInv, ConnInv, InChain, Gate, Own, Name, Item, Upcoming, connVars
  <1> QED BY <1>1, <1>2, NextCases DEF Tick, Evict, vars

\* Where the goroutine of each connection stands.
LEMMA CtrlInvariant == Spec => []CtrlInv
  BY InitCtrl, CtrlStep, PTL DEF Spec

-----------------------------------------------------------------------------
(* RateLimitByKey *)

\* A limiter has given away what it lacks; one that is not known, or was not
\* seen since the last refill, nothing; and one that is being asked is known.
KeyInv ==
  /\ DOMAIN limiters \subseteq IPs
  /\ \A k \in DOMAIN limiters : limiters[k] \in [left : 0..Rate, idle : 0..Idle]
  /\ used \in [IPs -> Nat]
  /\ \A k \in DOMAIN limiters : limiters[k].left + used[k] <= Rate
                                /\ (limiters[k].idle > 0 => used[k] = 0)
  /\ \A k \in IPs \ DOMAIN limiters : used[k] = 0
  /\ \A c \in Conns : pc[c] = "allow" =>
       LET k == GetClientIP(req[c]) IN k \in DOMAIN limiters /\ limiters[k].idle = 0

\* Steps that leave the limiters alone.
LEMMA KeyFrame ==
  ASSUME KeyInv, limiters' = limiters, used' = used,
         \A d \in Conns : pc'[d] = "allow" => pc[d] = "allow" /\ req'[d] = req[d]
  PROVE  KeyInv'
  BY DEF KeyInv

\* Every step but FindLimiter and Allow leaves them alone.
LEMMA KeyOthers ==
  ASSUME CtrlInv, KeyInv, NEW c \in Conns,
         \/ \E q \in Requests : Accept(c, q)
         \/ Begin(c) \/ AppendOwn(c) \/ ApplyGate(c)
         \/ Auth(c) \/ MaxInputSize(c) \/ PassThrough(c) \/ RateLimit(c) \/ MaxConnectionsPerIP(c)
         \/ PassGate(c) \/ Decode(c) \/ Handle(c)
         \/ Unwind(c) \/ Return(c) \/ OpenStream(c) \/ Write(c) \/ Finish(c)
  PROVE  KeyInv'
  <1> USE DEF CtrlInv
  <1>g. ASSUME limiters' = limiters, used' = used,
               \/ UNCHANGED <<pc, req>>
               \/ /\ \E to \in PCs \ {"allow"} : pc' = [pc EXCEPT ![c] = to]
                  /\ \/ req' = req \/ \E q : req' = [req EXCEPT ![c] = q]
        PROVE  KeyInv'
    BY <1>g, KeyFrame
  <1> USE DEF PCs
  <1>1. ASSUME NEW q \in Requests, Accept(c, q) PROVE KeyInv'
    BY <1>1, <1>g DEF Accept, limitVars
  <1>2. CASE Begin(c) \/ AppendOwn(c) \/ ApplyGate(c)
    BY <1>2, <1>g, BeginCases DEF Refuse, Leave, AppendOwn, ApplyGate, Goto, limitVars
  <1>3. CASE Auth(c) \/ MaxInputSize(c) \/ PassThrough(c) \/ RateLimit(c) \/ MaxConnectionsPerIP(c)
    BY <1>3, <1>g DEF Auth, MaxInputSize, PassThrough, RateLimit, MaxConnectionsPerIP,
                      Admit, Refuse, Leave, limitVars
  <1>4. CASE PassGate(c) \/ Decode(c) \/ Handle(c)
    BY <1>4, <1>g DEF PassGate, Decode, Handle, Refuse, Leave, limitVars
  <1>5. CASE Unwind(c)
    BY <1>5, <1>g DEF Unwind
  <1>6. CASE Return(c) \/ Write(c)
    BY <1>6, <1>g DEF Return, Write, Goto, limitVars
  <1>7. CASE OpenStream(c)
    BY <1>7, <1>g DEF OpenStream, limitVars
  <1>8. CASE Finish(c)
    BY <1>8, <1>g DEF Finish, limitVars
  <1> QED BY <1>1, <1>2, <1>3, <1>4, <1>5, <1>6, <1>7, <1>8

\* The lookup makes a limiter that is full, and no other call used its key.
LEMMA KeyFind ==
  ASSUME CtrlInv, KeyInv, NEW c \in Conns, FindLimiter(c)
  PROVE  KeyInv'
  <1> DEFINE k == GetClientIP(req[c])
  <1>1. k \in IPs
    BY DEF FindLimiter, At, CtrlInv, ConnInv, IPs
  <1>2. /\ DOMAIN limiters' = DOMAIN limiters \cup {k}
        /\ \A j \in DOMAIN limiters \ {k} : limiters'[j] = limiters[j]
        /\ limiters'[k] = [left |-> IF k \in DOMAIN limiters THEN limiters[k].left ELSE Rate, idle |-> 0]
        /\ used' = used /\ req' = req
        /\ \A d \in Conns \ {c} : pc'[d] = pc[d]
    BY DEF FindLimiter, Put, Seen, CtrlInv
  <1>3. limiters'[k].left \in 0..Rate /\ limiters'[k].idle = 0
        /\ limiters'[k].left + used[k] <= Rate
    BY <1>1, <1>2, CallsAssumption DEF KeyInv
  <1>4. limiters'[k] \in [left : 0..Rate, idle : 0..Idle]
    BY <1>2, <1>3, CallsAssumption
  <1> QED BY <1>1, <1>2, <1>3, <1>4 DEF KeyInv

\* A token that is given is taken from the limiter.
LEMMA KeyAllow ==
  ASSUME CtrlInv, KeyInv, NEW c \in Conns, Allow(c)
  PROVE  KeyInv'
  <1> DEFINE k == GetClientIP(req[c])
  <1>1. k \in IPs /\ k \in DOMAIN limiters /\ limiters[k].idle = 0
    BY DEF Allow, KeyInv
  <1>2. req' = req /\ \A d \in Conns : pc'[d] = "allow" => pc[d] = "allow"
    BY DEF Allow, Refuse, Leave, Admit, CtrlInv
  <1>3. CASE limiters[k].left = 0
    BY <1>1, <1>2, <1>3, KeyFrame DEF Allow
  <1>4. CASE limiters[k].left # 0
    <2>1. /\ limiters' = [limiters EXCEPT ![k].left = @ - 1]
          /\ used' = [used EXCEPT ![k] = @ + 1]
      BY <1>1, <1>4 DEF Allow
    <2>2. /\ DOMAIN limiters' = DOMAIN limiters
          /\ \A j \in DOMAIN limiters \ {k} : limiters'[j] = limiters[j] /\ used'[j] = used[j]
          /\ \A j \in IPs \ {k} : used'[j] = used[j]
          /\ used' \in [IPs -> Nat] /\ used'[k] = used[k] + 1
      BY <1>1, <2>1 DEF KeyInv
    <2>3. limiters[k] \in [left : 0..Rate, idle : 0..Idle]
      BY <1>1 DEF KeyInv
    <2>4. limiters'[k].left = limiters[k].left - 1 /\ limiters'[k].idle = 0
          /\ limiters'[k] \in [left : 0..Rate, idle : 0..Idle]
      BY <1>1, <1>4, <2>1, <2>3, CallsAssumption
    <2>5. limiters'[k].left + used'[k] <= Rate
      BY <1>1, <2>2, <2>3, <2>4, CallsAssumption DEF KeyInv
    <2> QED BY <1>1, <1>2, <2>2, <2>4, <2>5 DEF KeyInv
  <1> QED BY <1>3, <1>4
\* A second gives every limiter its tokens back, and nothing was used of them.
LEMMA KeyTick == CtrlInv /\ KeyInv /\ Tick => KeyInv'
  <1> SUFFICES ASSUME CtrlInv, KeyInv, Tick PROVE KeyInv'
    OBVIOUS
  <1>1. /\ DOMAIN limiters' = DOMAIN limiters
        /\ used' \in [IPs -> Nat] /\ \A k \in IPs : used'[k] = 0
        /\ \A c \in Conns : pc'[c] # "allow"
    BY DEF Tick, connVars
  <1>2. ASSUME NEW k \in DOMAIN limiters
        PROVE  /\ limiters'[k] \in [left : 0..Rate, idle : 0..Idle]
               /\ limiters'[k].left = Rate
    <2>1. limiters[k].idle \in 0..Idle
      BY DEF KeyInv
    <2>2. limiters'[k] = [left |-> Rate, idle |-> IF limiters[k].idle < Idle
                                                  THEN limiters[k].idle + 1 ELSE Idle]
      BY DEF Tick
    <2> QED BY <2>1, <2>2, CallsAssumption
  <1> QED BY <1>1, <1>2, CallsAssumption DEF KeyInv

\* Only limiters are evicted that nobody has used since the last refill.
LEMMA KeyEvict == KeyInv /\ Evict => KeyInv'
  <1> SUFFICES ASSUME KeyInv, Evict PROVE KeyInv'
    OBVIOUS
  <1>1. /\ DOMAIN limiters' = {k \in DOMAIN limiters : limiters[k].idle < Idle}
        /\ \A k \in DOMAIN limiters' : limiters'[k] = limiters[k]
        /\ used' = used /\ pc' = pc /\ req' = req
    BY DEF Evict, connVars
  <1>2. \A k \in DOMAIN limiters \ DOMAIN limiters' : used[k] = 0
    BY <1>1, CallsAssumption DEF KeyInv
  <1>3. \A k \in DOMAIN limiters : limiters[k].idle = 0 => k \in DOMAIN limiters'
    BY <1>1, CallsAssumption
  <1> QED BY <1>1, <1>2, <1>3 DEF KeyInv

\* Used and left tokens of a key never make more than its rate.
LEMMA KeyInvariant == Spec => []KeyInv
  <1>1. Init => KeyInv
    BY DEF Init, KeyInv
  <1>2. CtrlInv /\ KeyInv /\ [Next]_vars => KeyInv'
    <2> SUFFICES ASSUME CtrlInv, KeyInv, [Next]_vars PROVE KeyInv'
      OBVIOUS
    <2>1. ASSUME NEW c \in Conns, (\E q \in Requests : Accept(c, q)) \/ Serve(c) PROVE KeyInv'
      BY <2>1, KeyOthers, KeyFind, KeyAllow DEF Serve, Middlewares
    <2>2. CASE UNCHANGED vars
      BY <2>2, KeyFrame DEF vars, connVars, limitVars
    <2> QED BY <2>1, <2>2, NextCases, KeyTick, KeyEvict
  <1> QED BY <1>1, <1>2, CtrlInvariant, PTL DEF Spec

\* No key is admitted more often than its rate between two refills, although
\* limiters nobody asks for are evicted (RateLimitByKey).
THEOREM RateKept == Spec => []KeyRate
  <1>1. KeyInv => KeyRate
    BY CallsAssumption DEF KeyInv, KeyRate
  <1> QED BY <1>1, KeyInvariant, PTL

-----------------------------------------------------------------------------
(* MaxConnectionsPerIP *)

\* The middleware at position i of a connection's chain holds a slot of ip.
Holds(c, i, ip) ==
  i \in 1..depth[c] /\ chain[c][i] = "slots" /\ GetClientIP(req[c]) = ip

\* The counts are exactly those of the calls inside, whatever way they leave,
\* and an address none is left of is forgotten.
SlotsExact ==
  /\ DOMAIN counts = {ip \in IPs : Inside(ip) # {}}
  /\ \A ip \in DOMAIN counts : counts[ip] = Cardinality(Inside(ip))

\* The calls inside are the positions that hold a slot.
LEMMA InsideHolds ==
  ASSUME CtrlInv, CtrlInv', NEW ip
  PROVE  /\ Inside(ip) = {x \in Conns \X Nat : Holds(x[1], x[2], ip)}
         /\ Inside(ip)' = {x \in Conns \X Nat : Holds(x[1], x[2], ip)'}
  BY DEF Inside, Holds, CtrlInv

SlotInv ==
  /\ DOMAIN counts \subseteq IPs
  /\ \A ip \in DOMAIN counts : counts[ip] \in 1..Limit
  /\ SlotsExact
  /\ \A ip \in IPs : IsFiniteSet(Inside(ip))

\* A step in which nobody enters or leaves the middleware.
LEMMA SlotFrame ==
  ASSUME CtrlInv, CtrlInv', SlotInv, counts' = counts,
         \A d \in Conns, i \in Nat, ip \in IPs : Holds(d, i, ip)' <=> Holds(d, i, ip)
  PROVE  SlotInv'
  <1>1. \A ip \in IPs : Inside(ip)' = Inside(ip)
    BY InsideHolds
  <1> QED BY <1>1 DEF SlotInv, SlotsExact

\* A call enters it.
LEMMA SlotTaken ==
  ASSUME CtrlInv, CtrlInv', SlotInv, NEW c \in Conns, MaxConnectionsPerIP(c)
  PROVE  SlotInv'
  <1> DEFINE ip == GetClientIP(req[c])
  <1>a. ip \in IPs /\ req' = req /\ chain' = chain
        /\ depth[c] \in Nat /\ depth[c] < Len(chain[c]) /\ chain[c][depth[c] + 1] = "slots"
    BY DEF MaxConnectionsPerIP, At, Upcoming, CtrlInv, ConnInv, IPs, Admit, Refuse, Leave
  <1>1. CASE Full(ip)
    BY <1>1, SlotFrame DEF MaxConnectionsPerIP, Refuse, Leave, Holds
  <1>2. CASE ~Full(ip)
    <2>1. /\ counts' = Put(counts, ip, Taken(ip) + 1)
          /\ depth' = [depth EXCEPT ![c] = @ + 1]
      BY <1>2 DEF MaxConnectionsPerIP, Admit
    <2>2. \A d \in Conns, i \in Nat, a \in IPs :
            Holds(d, i, a)' <=> Holds(d, i, a) \/ (d = c /\ i = depth[c] + 1 /\ a = ip)
      BY <1>a, <2>1 DEF Holds, CtrlInv
    <2>3. ASSUME NEW a \in IPs \ {ip} PROVE Inside(a)' = Inside(a)
      <3>1. \A x \in Conns \X Nat : Holds(x[1], x[2], a)' <=> Holds(x[1], x[2], a)
        BY <2>2
      <3> QED BY <3>1, InsideHolds
    <2>4. Inside(ip)' = Inside(ip) \cup {<<c, depth[c] + 1>>}
      BY <1>a, <2>2, InsideHolds
    <2>5. <<c, depth[c] + 1>> \notin Inside(ip)
      BY <1>a, InsideHolds DEF Holds
    <2>6. IsFiniteSet(Inside(ip)) /\ Cardinality(Inside(ip)) \in Nat
      BY <1>a, FS_CardinalityType DEF SlotInv
    <2>7. IsFiniteSet(Inside(ip)') /\ Cardinality(Inside(ip)') = Cardinality(Inside(ip)) + 1
      <3> HIDE DEF ip
      <3>1. IsFiniteSet(Inside(ip) \cup {<<c, depth[c] + 1>>})
            /\ Cardinality(Inside(ip) \cup {<<c, depth[c] + 1>>}) = Cardinality(Inside(ip)) + 1
        BY <2>5, <2>6, FS_AddElement
      <3> QED BY <2>4, <3>1
    <2>8. Taken(ip) = Cardinality(Inside(ip))
      BY <1>a, FS_EmptySet DEF Taken, SlotInv, SlotsExact
    <2>9. Taken(ip) + 1 \in 1..Limit
      BY <1>2, <2>6, <2>8, CallsAssumption DEF Full
    <2>10. /\ DOMAIN counts' = DOMAIN counts \cup {ip} /\ counts'[ip] = Taken(ip) + 1
           /\ \A a \in DOMAIN counts \ {ip} : counts'[a] = counts[a]
      BY <2>1 DEF Put
    <2>11. Inside(ip)' # {}
      BY <2>4
    <2> QED BY <1>a, <2>3, <2>7, <2>8, <2>9, <2>10, <2>11 DEF SlotInv, SlotsExact
  <1> QED BY <1>1, <1>2
\* A call leaves it, and gives its slot back whatever it returns.
LEMMA SlotGiven ==
  ASSUME CtrlInv, CtrlInv', SlotInv, NEW c \in Conns, Unwind(c)
  PROVE  SlotInv'
  <1> DEFINE ip == GetClientIP(req[c])
  <1>a. /\ ip \in IPs /\ req' = req /\ chain' = chain
        /\ depth' = [depth EXCEPT ![c] = @ - 1] /\ depth[c] \in Nat /\ depth[c] > 0
    BY DEF Unwind, CtrlInv, ConnInv, IPs
  <1>b. \A d \in Conns, i \in Nat, a \in IPs :
          Holds(d, i, a)' <=> Holds(d, i, a) /\ ~(d = c /\ i = depth[c])
    BY <1>a DEF Holds, CtrlInv
  <1>1. CASE ~Gives(c)
    <2>1. \A d \in Conns, i \in Nat, a \in IPs : Holds(d, i, a)' <=> Holds(d, i, a)
      BY <1>b, <1>1 DEF Gives, Holds
    <2> QED BY <1>1, <2>1, SlotFrame DEF Unwind
  <1>2. CASE Gives(c)
    <2>1. \A i \in Nat, a \in IPs : i = depth[c] => (Holds(c, i, a) <=> a = ip)
      BY <1>a, <1>2 DEF Gives, Holds
    <2>2. ASSUME NEW a \in IPs \ {ip} PROVE Inside(a)' = Inside(a)
      <3>1. \A x \in Conns \X Nat : Holds(x[1], x[2], a)' <=> Holds(x[1], x[2], a)
        BY <1>b, <2>1
      <3> QED BY <3>1, InsideHolds
    <2>3. Inside(ip)' = Inside(ip) \ {<<c, depth[c]>>} /\ <<c, depth[c]>> \in Inside(ip)
      BY <1>a, <1>b, <2>1, InsideHolds
    <2>4. IsFiniteSet(Inside(ip)) /\ Cardinality(Inside(ip)) \in Nat
      BY <1>a, FS_CardinalityType DEF SlotInv
    <2>5. IsFiniteSet(Inside(ip)') /\ Cardinality(Inside(ip)') = Cardinality(Inside(ip)) - 1
      <3> HIDE DEF ip
      <3>1. IsFiniteSet(Inside(ip) \ {<<c, depth[c]>>})
            /\ Cardinality(Inside(ip) \ {<<c, depth[c]>>}) = Cardinality(Inside(ip)) - 1
        BY <2>3, <2>4, FS_RemoveElement
      <3> QED BY <2>3, <3>1
    <2>6. ip \in DOMAIN counts /\ counts[ip] = Cardinality(Inside(ip)) /\ counts[ip] \in 1..Limit
      BY <1>a, <2>3 DEF SlotInv, SlotsExact
    <2>7. Inside(ip)' = {} <=> counts[ip] = 1
      BY <2>4, <2>5, <2>6, FS_EmptySet
    <2>8. /\ DOMAIN counts' = IF counts[ip] = 1 THEN DOMAIN counts \ {ip} ELSE DOMAIN counts
          /\ \A a \in DOMAIN counts \ {ip} : counts'[a] = counts[a]
          /\ counts[ip] # 1 => counts'[ip] = counts[ip] - 1
      BY <1>2, <2>6 DEF Unwind
    <2>9. counts[ip] # 1 => counts[ip] - 1 \in 1..Limit
      BY <2>6, CallsAssumption
    <2> QED BY <1>a, <2>2, <2>5, <2>6, <2>7, <2>8, <2>9 DEF SlotInv, SlotsExact
  <1> QED BY <1>1, <1>2

\* A connection that enters or leaves another middleware, or is outside.
LEMMA HoldsSame ==
  ASSUME CtrlInv, CtrlInv', NEW d \in Conns,
         \/ depth'[d] = depth[d] /\ chain'[d] = chain[d] /\ req'[d] = req[d]
         \/ depth'[d] = 0 /\ depth[d] = 0
         \/ /\ depth'[d] = depth[d] + 1 /\ chain'[d] = chain[d] /\ req'[d] = req[d]
            /\ chain[d][depth[d] + 1] # "slots"
  PROVE  \A i \in Nat, ip \in IPs : Holds(d, i, ip)' <=> Holds(d, i, ip)
  BY DEF Holds, CtrlInv

\* Every other step neither takes a slot nor gives one back.
LEMMA SlotOthers ==
  ASSUME CtrlInv, CtrlInv', SlotInv, NEW c \in Conns,
         \/ \E q \in Requests : Accept(c, q)
         \/ Begin(c) \/ AppendOwn(c) \/ ApplyGate(c)
         \/ Auth(c) \/ MaxInputSize(c) \/ PassThrough(c) \/ RateLimit(c)
         \/ FindLimiter(c) \/ Allow(c)
         \/ PassGate(c) \/ Decode(c) \/ Handle(c)
         \/ Return(c) \/ OpenStream(c) \/ Write(c) \/ Finish(c)
  PROVE  SlotInv'
  <1> USE DEF CtrlInv
  \* Outside the chain the depth is 0.
  <1>o. ASSUME counts' = counts, depth' = depth, depth[c] = 0,
               \A d \in Conns \ {c} : chain'[d] = chain[d] /\ req'[d] = req[d]
        PROVE  SlotInv'
    BY <1>o, HoldsSame, SlotFrame
  \* Inside it neither the chain nor the request changes.
  <1>i. ASSUME counts' = counts, chain' = chain, req' = req,
               \/ depth' = depth
               \/ depth' = [depth EXCEPT ![c] = @ + 1] /\ Upcoming(c) # "slots"
        PROVE  SlotInv'
    <2>1. \A d \in Conns : \A i \in Nat, ip \in IPs : Holds(d, i, ip)' <=> Holds(d, i, ip)
      BY <1>i, HoldsSame DEF Upcoming
    <2> QED BY <1>i, <2>1, SlotFrame
  <1>z. ~InChain(c) => depth[c] = 0
    BY DEF ConnInv
  <1>1. ASSUME NEW q \in Requests, Accept(c, q) PROVE SlotInv'
    BY <1>1, <1>o, <1>z DEF Accept, InChain, limitVars
  <1>2. CASE Begin(c) \/ ApplyGate(c) \/ AppendOwn(c)
    BY <1>2, <1>o, <1>z, BeginCases
       DEF Refuse, Leave, AppendOwn, ApplyGate, Goto, InChain, limitVars
  <1>3. CASE Auth(c) \/ MaxInputSize(c) \/ PassThrough(c) \/ RateLimit(c)
    BY <1>3, <1>i DEF Auth, MaxInputSize, PassThrough, RateLimit, At,
                      Admit, Refuse, Leave, limitVars
  <1>4. CASE FindLimiter(c)
    BY <1>4, <1>i DEF FindLimiter
  <1>5. CASE Allow(c)
    <2>1. Upcoming(c) # "slots"
      BY <1>5 DEF Allow, ConnInv
    <2> QED BY <1>5, <1>i, <2>1 DEF Allow, Admit, Refuse, Leave
  <1>6. CASE PassGate(c) \/ Decode(c) \/ Handle(c)
    BY <1>6, <1>i DEF PassGate, Decode, Handle, Refuse, Leave, limitVars
  <1>7. CASE Return(c)
    BY <1>7, <1>o DEF Return, limitVars
  <1>8. CASE OpenStream(c)
    BY <1>8, <1>i DEF OpenStream, limitVars
  <1>9. CASE Write(c)
    BY <1>9, <1>i DEF Write, Goto, limitVars
  <1>10. CASE Finish(c)
    BY <1>10, <1>o, <1>z DEF Finish, InChain, limitVars
  <1> QED BY <1>1, <1>2, <1>3, <1>4, <1>5, <1>6, <1>7, <1>8, <1>9, <1>10
\* The counts are those of the calls inside.
LEMMA SlotInvariant == Spec => []SlotInv
  <1>1. Init => SlotInv
    <2> SUFFICES ASSUME Init PROVE SlotInv
      OBVIOUS
    <2>1. \A ip : Inside(ip) = {}
      BY DEF Init, Inside
    <2>2. DOMAIN counts = {}
      BY DEF Init
    <2> QED BY <2>1, <2>2, FS_EmptySet DEF SlotInv, SlotsExact
  <1>2. CtrlInv /\ CtrlInv' /\ SlotInv /\ [Next]_vars => SlotInv'
    <2> SUFFICES ASSUME CtrlInv, CtrlInv', SlotInv, [Next]_vars PROVE SlotInv'
      OBVIOUS
    <2>1. ASSUME NEW c \in Conns, (\E q \in Requests : Accept(c, q)) \/ Serve(c) PROVE SlotInv'
      BY <2>1, SlotOthers, SlotTaken, SlotGiven DEF Serve, Middlewares
    <2>2. ASSUME UNCHANGED <<connVars, counts>> PROVE SlotInv'
      BY <2>2, HoldsSame, SlotFrame DEF connVars
    <2> QED BY <2>1, <2>2, NextCases DEF Tick, Evict, vars, limitVars
  <1> QED BY <1>1, <1>2, CtrlInvariant, PTL DEF Spec

\* Only MaxConnectionsPerIP moves a call that stands before it.
LEMMA BeforeSlots ==
  ASSUME CtrlInv, [Next]_vars, NEW c \in Conns, At(c, "slots"),
         pc'[c] = "unwind" \/ depth'[c] > depth[c]
  PROVE  MaxConnectionsPerIP(c)
  <1>1. pc[c] = "chain" /\ depth[c] \in Nat /\ depth[c] < Len(chain[c]) /\ Upcoming(c) = "slots"
    BY DEF At, CtrlInv
  <1>2. ~(pc'[c] = pc[c] /\ depth'[c] = depth[c])
    BY <1>1
  <1>3. ~(\E q \in Requests : Accept(c, q))
    BY <1>1 DEF Accept
  <1>4. ASSUME NEW d \in Conns \ {c}, (\E q \in Requests : Accept(d, q)) \/ Serve(d)
        PROVE  pc'[c] = pc[c] /\ depth'[c] = depth[c]
    <2>1. CASE \E q \in Requests : Accept(d, q)
      BY <2>1 DEF Accept, CtrlInv
    <2>2. CASE Begin(d) \/ AppendOwn(d) \/ ApplyGate(d)
      BY <2>2, BeginCases DEF Refuse, Leave, AppendOwn, ApplyGate, Goto, CtrlInv
    <2>3. CASE Middlewares(d)
      BY <2>3 DEF Middlewares, Auth, MaxInputSize, PassThrough, RateLimit, MaxConnectionsPerIP,
                  FindLimiter, Allow, Admit, Refuse, Leave, CtrlInv
    <2>4. CASE PassGate(d) \/ Decode(d) \/ Handle(d)
      BY <2>4 DEF PassGate, Decode, Handle, Refuse, Leave, CtrlInv
    <2>5. CASE Unwind(d) \/ Return(d) \/ OpenStream(d) \/ Write(d) \/ Finish(d)
      BY <2>5 DEF Unwind, Return, OpenStream, Write, Finish, Goto, CtrlInv
    <2> QED BY <1>4, <2>1, <2>2, <2>3, <2>4, <2>5 DEF Serve
  <1>5. ASSUME Serve(c) PROVE MaxConnectionsPerIP(c)
    <2>1. Middlewares(c)
      BY <1>1, <1>5, BeginCases
         DEF Serve, AppendOwn, ApplyGate, PassGate, Decode, Handle, Entered, Unwind, Return,
             OpenStream, Write, Finish, Goto
    <2> QED BY <1>1, <2>1
            DEF Middlewares, At, Auth, MaxInputSize, PassThrough, RateLimit, FindLimiter, Allow
  <1>6. CASE Tick \/ Evict \/ UNCHANGED vars
    BY <1>2, <1>6 DEF Tick, Evict, vars, connVars
  <1> QED BY <1>2, <1>3, <1>4, <1>5, <1>6, NextCases

\* However many calls run at once and whichever way each of them ends,
\* MaxConnectionsPerIP refuses a call while Limit of its address are inside,
\* and only then.
THEOREM SlotsCounted == Spec => SlotsGivenBack
  <1>1. ASSUME CtrlInv, SlotInv, [Next]_vars, NEW c \in Conns, At(c, "slots")
        PROVE  LET inside == Cardinality(Inside(GetClientIP(req[c])))
               IN  /\ pc'[c] = "unwind" => inside = Limit
                   /\ depth'[c] > depth[c] => inside < Limit
    <2> DEFINE ip == GetClientIP(req[c])
    <2>1. ip \in IPs /\ depth[c] \in Nat
      BY <1>1 DEF At, CtrlInv, ConnInv, IPs
    <2>2. Taken(ip) = Cardinality(Inside(ip))
      BY <1>1, <2>1, FS_EmptySet DEF Taken, SlotInv, SlotsExact
    <2>3. Taken(ip) \in 0..Limit
      BY <1>1, CallsAssumption DEF Taken, SlotInv
    <2>4. MaxConnectionsPerIP(c) => IF Full(ip) THEN depth'[c] = depth[c] ELSE pc'[c] = "chain"
      BY <1>1 DEF MaxConnectionsPerIP, Refuse, Leave, Admit, CtrlInv
    <2>5. Full(ip) <=> Taken(ip) = Limit
      BY <2>3, CallsAssumption DEF Full
    <2> HIDE DEF ip
    <2>6. pc'[c] = "unwind" => Cardinality(Inside(ip)) = Limit
      BY <1>1, <2>2, <2>4, <2>5, BeforeSlots
    <2>7. depth'[c] > depth[c] => Cardinality(Inside(ip)) < Limit
      BY <1>1, <2>1, <2>2, <2>3, <2>4, <2>5, BeforeSlots, CallsAssumption
    <2> QED BY <2>6, <2>7 DEF ip
  <1>2. CtrlInv /\ SlotInv /\ [Next]_vars
          => \A c \in Conns : At(c, "slots") =>
               LET inside == Cardinality(Inside(GetClientIP(req[c])))
               IN  /\ pc'[c] = "unwind" => inside = Limit
                   /\ depth'[c] > depth[c] => inside < Limit
    BY <1>1
  <1> QED BY <1>2, CtrlInvariant, SlotInvariant, PTL DEF Spec, SlotsGivenBack

-----------------------------------------------------------------------------
(* Types *)

BucketInv == bucket \in 0..Rate

\* RateLimit's tokens never run below none or above its rate.
LEMMA BucketInvariant == Spec => []BucketInv
  <1>1. Init => BucketInv
    BY CallsAssumption DEF Init, BucketInv
  <1>2. BucketInv /\ [Next]_vars => BucketInv'
    <2> SUFFICES ASSUME bucket \in 0..Rate, [Next]_vars PROVE bucket' \in 0..Rate
      BY DEF BucketInv
    <2>1. ASSUME NEW c \in Conns, RateLimit(c) PROVE bucket' \in 0..Rate
      BY <2>1, CallsAssumption DEF RateLimit
    <2>2. ASSUME NEW c \in Conns, (\E q \in Requests : Accept(c, q)) \/ Serve(c), ~RateLimit(c)
          PROVE  bucket' = bucket
      BY <2>2, BeginCases DEF Accept, Serve, AppendOwn, ApplyGate, Middlewares, Auth, MaxInputSize,
        PassThrough, MaxConnectionsPerIP, FindLimiter, Allow, PassGate, Decode, Handle, Unwind,
        Return, OpenStream, Write, Finish, limitVars
    <2>3. Tick => bucket' \in 0..Rate
      BY CallsAssumption DEF Tick
    <2> QED BY <2>1, <2>2, <2>3, NextCases DEF Evict, vars, limitVars
  <1> QED BY <1>1, <1>2, PTL DEF Spec

\* Type correctness of concurrent calls.
THEOREM TypeCorrect == Spec => []TypeOK
  <1>1. CtrlInv /\ KeyInv /\ SlotInv /\ BucketInv => TypeOK
    BY DEF CtrlInv, ConnInv, KeyInv, SlotInv, BucketInv, TypeOK, PCs, Outs
  <1> QED BY <1>1, CtrlInvariant, KeyInvariant, SlotInvariant, BucketInvariant, PTL

-----------------------------------------------------------------------------
(* What the client is told *)

\* What a handler can have done with a call.
Deeds == {"gate", "refused", "error", "panic", "fine", "fails", "panics"}

\* The transformer encodes the value of this call inside callProcedure.
Rescued(c, i) == Transformer /\ req[c].inputs[i] = "envelope"

\* What the goroutine carries on its way back from a handler that did d.
Carried(o, d) ==
  /\ d # "gate"
  /\ d = "panic" <=> o.code = "panic"
  /\ d \in {"refused", "error"} => Failed(o) /\ o.enc = "fine"
  /\ d \in {"fine", "fails", "panics"} => ~Failed(o) /\ o.enc = d

\* What the client is told of it.
Told(r, d, rescued) ==
  /\ d # "gate"
  /\ d = "fine" => ~Failed(r) /\ r.enc = "fine"
  /\ d \in {"refused", "error", "panic"} => Failed(r) /\ r.enc = "fine"
  /\ d \in {"fails", "panics"} =>
       IF rescued THEN Failed(r) /\ r.enc = "fine" ELSE ~Failed(r) /\ r.enc = d

\* A call's result is that of the handler that ran at its place.
CallInv(c) ==
  /\ pc[c] # "sent" \/ results[c] # <<>> => Route(req[c]) \in {"exec", "batch", "single"}
  /\ \A i \in DOMAIN results[c] : Told(results[c][i], ran[c][i], Rescued(c, i))
  /\ pc[c] \in {"begin", "chain", "allow", "write", "sent"} => Len(ran[c]) = Len(results[c])
  /\ pc[c] = "unwind" => /\ Len(ran[c]) = Len(results[c]) + 1
                         /\ Carried(out[c], ran[c][Len(results[c]) + 1])
  /\ pc[c] \in {"begin", "chain", "allow", "unwind"} => Len(results[c]) < Len(req[c].names)
  /\ pc[c] = "write" => Len(results[c]) = Len(req[c].names)
  /\ pc[c] = "sent" => Len(results[c]) \in {0, Len(req[c].names)}

\* A subscription that is answered instead of opened was refused.
GateInv(c) ==
  /\ pc[c] # "begin"
  /\ pc[c] \in {"append", "apply", "chain", "allow"} => ran[c] = <<>> /\ results[c] = <<>>
  /\ pc[c] = "unwind" => Len(ran[c]) = 1 /\ results[c] = <<>>
  /\ pc[c] \in {"write", "sent"} => Len(ran[c]) = 1 /\ Len(results[c]) = 1 /\ Failed(results[c][1])

ReplyInv(c) ==
  /\ ran[c] \in Seq(Deeds)
  /\ pc[c] = "idle" => ran[c] = <<>>
  /\ pc[c] # "idle" => IF Gate(c) THEN GateInv(c) ELSE CallInv(c)
  /\ pc[c] = "sent" /\ results[c] # <<>> =>
       /\ reply[c].status \in {Status(c), 0}
       /\ reply[c].body = IF Encoded(results[c]) = "fine" THEN results[c] ELSE <<>>

AnswerInv == \A c \in Conns : ReplyInv(c)

\* A connection another one's step leaves alone keeps what it will answer.
LEMMA ReplyOther ==
  ASSUME NEW d \in Conns, ReplyInv(d), Same(d), ran'[d] = ran[d], reply'[d] = reply[d]
  PROVE  ReplyInv(d)'
  <1>1. Gate(d)' = Gate(d) /\ Status(d)' = Status(d)
    BY DEF Same, Gate, Status, Errs, Failed
  <1>2. Encoded(results[d])' = Encoded(results[d])
    BY DEF Same, Encoded
  <1>3. CallInv(d)' = CallInv(d)
    BY DEF Same, CallInv, Rescued, Told, Carried, Failed
  <1>4. GateInv(d)' = GateInv(d)
    BY DEF Same, GateInv, Failed
  <1> QED BY <1>1, <1>2, <1>3, <1>4 DEF ReplyInv, Same

\* A step of one connection that keeps its own part keeps the invariant.
LEMMA ReplyStep ==
  ASSUME AnswerInv, NEW c \in Conns, ReplyInv(c)',
         \A d \in Conns \ {c} : Same(d) /\ ran'[d] = ran[d] /\ reply'[d] = reply[d]
  PROVE  AnswerInv'
  BY ReplyOther DEF AnswerInv

ReplyTypes ==
  /\ CtrlInv
  /\ ran \in [Conns -> Seq(Deeds)] /\ DOMAIN reply = Conns

\* The names of a request in service.
LEMMA NamesOf ==
  ASSUME CtrlInv, NEW c \in Conns, pc[c] # "idle"
  PROVE  /\ Len(req[c].names) \in Nat \ {0}
         /\ ~req[c].batch => Len(req[c].names) = 1
  <1>1. req[c] \in Requests
    BY DEF CtrlInv, ConnInv
  <1> QED BY <1>1, CallsAssumption

\* Where ServeHTTP sends a request, and that only a batch calls more than one.
LEMMA Routes ==
  ASSUME NEW q \in Requests
  PROVE  /\ Route(q) \in DOMAIN Fixed \cup Elsewhere \cup {"exec", "batch", "single", "subscription"}
         /\ Route(q) = "single" => ~q.batch
  BY DEF Route, Fixed, Elsewhere

\* A request begins with nothing done and nothing to tell.
LEMMA DispatchReply ==
  ASSUME CtrlInv, AnswerInv, ReplyTypes, NEW c \in Conns,
         (\E q \in Requests : Accept(c, q)) \/ AppendOwn(c) \/ ApplyGate(c)
  PROVE  AnswerInv'
  <1> USE DEF CtrlInv
  <1>0. ReplyInv(c) /\ ConnInv(c)
    BY DEF AnswerInv
  <1>1. ASSUME NEW q \in Requests, Accept(c, q) PROVE AnswerInv'
    <2>1. \A d \in Conns \ {c} : Same(d) /\ ran'[d] = ran[d] /\ reply'[d] = reply[d]
      BY <1>1 DEF Accept, Same, ReplyTypes
    <2>2. /\ req'[c] = q /\ ran'[c] = <<>> /\ results'[c] = <<>>
          /\ pc'[c] \in {"sent", "append", "begin"}
          /\ pc'[c] = "append" => Route(q) = "subscription"
          /\ pc'[c] \in {"begin", "sent"} => Route(q) # "subscription"
          /\ pc'[c] = "begin" => Route(q) \in {"exec", "batch", "single"}
      BY <1>0, <1>1, Routes DEF Accept, ReplyInv, ConnInv, Fixed, ExecRefused, Elsewhere
    <2>3. Len(q.names) \in Nat \ {0}
      BY CallsAssumption
    <2>4. ReplyInv(c)'
      BY <2>2, <2>3 DEF ReplyInv, CallInv, GateInv, Gate
    <2> QED BY <2>1, <2>4, ReplyStep
  <1>2. CASE AppendOwn(c) \/ ApplyGate(c)
    <2>1. \A d \in Conns \ {c} : Same(d) /\ ran'[d] = ran[d] /\ reply'[d] = reply[d]
      BY <1>2 DEF AppendOwn, ApplyGate, Goto, Same
    <2>2. /\ pc[c] \in {"append", "apply"} /\ pc'[c] \in {"apply", "chain"}
          /\ req'[c] = req[c] /\ ran'[c] = ran[c] /\ results'[c] = results[c]
      BY <1>2 DEF AppendOwn, ApplyGate, Goto
    <2>3. Gate(c) /\ Gate(c)'
      BY <1>0, <2>2 DEF ConnInv, Gate
    <2>4. ReplyInv(c)'
      BY <1>0, <2>2, <2>3 DEF ReplyInv, GateInv
    <2> QED BY <2>1, <2>4, ReplyStep
  <1> QED BY <1>1, <1>2

\* Going deeper into the chain does nothing yet, and coming back nothing more.
LEMMA ThroughReply ==
  ASSUME CtrlInv, AnswerInv, NEW c \in Conns,
         UNCHANGED <<req, out, results, reply, ran>>,
         \/ pc[c] \in {"begin", "chain", "allow"} /\ \E to \in {"chain", "allow"} : pc' = [pc EXCEPT ![c] = to]
         \/ pc[c] = "unwind" /\ UNCHANGED pc,
         \A d \in Conns \ {c} : chain'[d] = chain[d] /\ depth'[d] = depth[d]
  PROVE  AnswerInv'
  <1>1. \A d \in Conns \ {c} : Same(d) /\ ran'[d] = ran[d] /\ reply'[d] = reply[d]
    BY DEF Same, CtrlInv
  <1>2. \/ pc[c] \in {"begin", "chain", "allow"} /\ pc'[c] \in {"chain", "allow"}
        \/ pc[c] = "unwind" /\ pc'[c] = "unwind"
    BY DEF CtrlInv
  <1>3. ReplyInv(c)
    BY DEF AnswerInv
  <1>4. ReplyInv(c)'
    BY <1>2, <1>3 DEF ReplyInv, CallInv, GateInv, Gate, Rescued, Told
  <1> QED BY <1>1, <1>4, ReplyStep

\* A handler, or a refusal in its place, decides what is told of this call.
LEMMA LeaveReply ==
  ASSUME CtrlInv, AnswerInv, NEW c \in Conns, pc[c] \in {"begin", "chain", "allow"},
         NEW result, NEW did \in Deeds, ~Gate(c) => Carried(result, did),
         pc' = [pc EXCEPT ![c] = "unwind"], out' = [out EXCEPT ![c] = result],
         ran' = [ran EXCEPT ![c] = Append(@, did)], DOMAIN ran = Conns,
         UNCHANGED <<req, results, reply>>,
         \A d \in Conns \ {c} : chain'[d] = chain[d] /\ depth'[d] = depth[d]
  PROVE  AnswerInv'
  <1> USE DEF CtrlInv
  <1>0. ReplyInv(c) /\ results[c] \in Seq(Results)
    BY DEF AnswerInv
  <1>1. \A d \in Conns \ {c} : Same(d) /\ ran'[d] = ran[d] /\ reply'[d] = reply[d]
    BY DEF Same
  <1> SUFFICES ReplyInv(c)'
    BY <1>1, ReplyStep
  <1>2. pc'[c] = "unwind" /\ out'[c] = result /\ ran'[c] = Append(ran[c], did)
    OBVIOUS
  <1>3. /\ ran'[c] \in Seq(Deeds) /\ Len(ran'[c]) = Len(ran[c]) + 1
        /\ ran'[c][Len(ran[c]) + 1] = did
        /\ \A i \in 1..Len(ran[c]) : ran'[c][i] = ran[c][i]
    BY <1>0, <1>2 DEF ReplyInv
  <1>a. Gate(c)' = Gate(c)
    BY DEF Gate
  <1>4. CASE Gate(c)
    <2>1. pc[c] \in {"chain", "allow"} /\ ran[c] = <<>> /\ results[c] = <<>>
      BY <1>0, <1>4 DEF ReplyInv, GateInv
    <2>2. GateInv(c)'
      BY <1>2, <1>3, <2>1 DEF GateInv
    <2> QED BY <1>a, <1>2, <1>3, <1>4, <2>2 DEF ReplyInv
  <1>5. CASE ~Gate(c)
    <2>1. CallInv(c) /\ Len(ran[c]) = Len(results[c])
      BY <1>0, <1>5 DEF ReplyInv, CallInv
    <2>2. \A i \in DOMAIN results[c] : Told(results[c][i], ran'[c][i], Rescued(c, i))
      BY <1>0, <1>3, <2>1 DEF CallInv
    <2>3. Carried(result, ran'[c][Len(results[c]) + 1])
      BY <1>3, <1>5, <2>1
    <2>4. CallInv(c)'
      BY <1>2, <1>3, <2>1, <2>2, <2>3 DEF CallInv, Rescued
    <2> QED BY <1>a, <1>2, <1>3, <1>5, <2>4 DEF ReplyInv
  <1> QED BY <1>4, <1>5

\* An error with a code is carried back as one.
LEMMA RefusalCarried ==
  ASSUME NEW code \in Codes
  PROVE  Carried(Error(code), "refused") /\ Carried(Error(code), "error")
  <1>1. code # "panic" /\ code # "OK"
    BY DEF Codes, HTTPStatus
  <1> QED BY <1>1 DEF Carried, Error, Failed

\* Middlewares refuse a call or pass it on.
LEMMA MiddlewaresReply ==
  ASSUME CtrlInv, AnswerInv, ReplyTypes, NEW c \in Conns, Middlewares(c)
  PROVE  AnswerInv'
  <1>a. ASSUME pc[c] \in {"chain", "allow"}, Admit(c) PROVE AnswerInv'
    BY <1>a, ThroughReply DEF Admit, CtrlInv
  <1>r. ASSUME pc[c] \in {"chain", "allow"}, NEW code \in Codes, Refuse(c, code) PROVE AnswerInv'
    <2>1. Carried(Error(code), "refused")
      BY <1>r, RefusalCarried
    <2> QED BY <1>r, <2>1, LeaveReply DEF Refuse, Leave, Deeds, ReplyTypes
  <1>1. CASE FindLimiter(c)
    BY <1>1, ThroughReply DEF FindLimiter, At
  <1>2. CASE ~FindLimiter(c)
    BY <1>a, <1>r, <1>2, ResultTypes
       DEF Middlewares, Auth, MaxInputSize, PassThrough, RateLimit, MaxConnectionsPerIP, Allow, At
  <1> QED BY <1>1, <1>2

\* Handlers, and what stands for one.
LEMMA HandlersReply ==
  ASSUME CtrlInv, AnswerInv, ReplyTypes, NEW c \in Conns,
         Begin(c) \/ PassGate(c) \/ Decode(c) \/ Handle(c)
  PROVE  AnswerInv'
  <1>l. ASSUME pc[c] = "chain", NEW result, NEW did \in Deeds, Leave(c, result, did),
               ~Gate(c) => Carried(result, did)
        PROVE  AnswerInv'
    BY <1>l, LeaveReply DEF Leave, ReplyTypes
  <1>e. \A code \in Codes : Carried(Error(code), "refused") /\ Carried(Error(code), "error")
    BY RefusalCarried
  <1>1. CASE Begin(c)
    <2>1. pc[c] = "begin" /\ UNCHANGED <<req, depth, results, reply>>
      BY <1>1, BeginCases
    <2>2. CASE \E code \in {"MethodNotFound", "ParseError", "InternalError"} : Refuse(c, code)
      <3>1. PICK code \in {"MethodNotFound", "ParseError", "InternalError"} : Refuse(c, code)
        BY <2>2
      <3>2. Carried(Error(code), "refused")
        BY <1>e, ResultTypes
      <3> QED BY <2>1, <3>1, <3>2, LeaveReply DEF Refuse, Leave, Deeds, ReplyTypes
    <2>3. CASE /\ pc' = [pc EXCEPT ![c] = "chain"]
               /\ chain' = [chain EXCEPT ![c] = Global \o Own(c)]
               /\ UNCHANGED <<out, ran>>
      <3>1. \A d \in Conns \ {c} : chain'[d] = chain[d] /\ depth'[d] = depth[d]
        BY <2>1, <2>3 DEF CtrlInv
      <3> QED BY <2>1, <2>3, <3>1, ThroughReply
    <2> QED BY <1>1, <2>2, <2>3, BeginCases
  <1>2. CASE PassGate(c)
    BY <1>2, <1>l DEF PassGate, Entered, Deeds
  <1>3. CASE Decode(c)
    BY <1>3, <1>l, <1>e, ResultTypes DEF Decode, Entered, Refuse, Deeds
  <1>4. CASE Handle(c)
    <2>1. \A enc \in {"fine", "fails", "panics"} :
            Carried([code |-> "OK", env |-> FALSE, enc |-> enc], enc)
      BY DEF Carried, Failed
    <2>2. Carried(Error("panic"), "panic")
      BY DEF Carried, Error
    <2> QED BY <1>4, <1>l, <1>e, <2>1, <2>2, CallsAssumption DEF Handle, Entered, Deeds
  <1> QED BY <1>1, <1>2, <1>3, <1>4

\* callProcedure makes of what a handler did what the client is told of it.
LEMMA OutcomeTold ==
  ASSUME CtrlInv, NEW c \in Conns, pc[c] = "unwind", NEW d \in Deeds \ {"gate"}, Carried(out[c], d)
  PROVE  Told(Outcome(c), d, Rescued(c, Item(c)))
  <1>1. Wrapped(c) = Rescued(c, Item(c))
    BY DEF Wrapped, Rescued, Input
  <1>2. Failed(Error("InternalError")) /\ Error("InternalError").enc = "fine"
    BY DEF Error, Failed
  <1>3. CASE out[c].code = "panic"
    BY <1>2, <1>3 DEF Carried, Told, Outcome
  <1>4. CASE out[c].code # "panic" /\ Failed(out[c])
    BY <1>4 DEF Carried, Told, Outcome, Deeds
  <1>5. CASE out[c].code # "panic" /\ ~Failed(out[c])
    <2>1. d \in {"fine", "fails", "panics"} /\ out[c].enc = d
      BY <1>5 DEF Carried, Deeds
    <2>2. out[c] \in Results
      BY <1>5 DEF CtrlInv, ConnInv, Outs, Error
    <2>3. out[c] \in [code : {"OK"}, env : BOOLEAN, enc : {"fine", "fails", "panics"}]
      BY <1>5, <2>2, ResultTypes DEF Results, Failed
    <2>4. LET r == [out[c] EXCEPT !.env = TRUE] IN ~Failed(r) /\ r.enc = out[c].enc
      BY <1>5, <2>3 DEF Failed
    <2> QED BY <1>1, <1>2, <1>5, <2>1, <2>4 DEF Told, Outcome
  <1> QED BY <1>3, <1>4, <1>5

\* The results of a request grow by what its calls did.
LEMMA ReturnReply ==
  ASSUME CtrlInv, AnswerInv, ReplyTypes, NEW c \in Conns, Return(c) \/ OpenStream(c)
  PROVE  AnswerInv'
  <1> USE DEF CtrlInv
  <1>0. ReplyInv(c) /\ results[c] \in Seq(Results)
    BY DEF AnswerInv
  <1>a. pc[c] = "unwind" /\ req' = req /\ ran' = ran /\ reply' = reply /\ Gate(c)' = Gate(c)
    BY DEF Return, OpenStream, Gate
  <1>1. CASE Return(c)
    <2>1. \A d \in Conns \ {c} : Same(d) /\ ran'[d] = ran[d] /\ reply'[d] = reply[d]
      BY <1>1 DEF Return, Same
    <2>2. /\ ~Gate(c) /\ CallInv(c)
          /\ results'[c] = Append(results[c], Outcome(c))
          /\ pc'[c] = IF Item(c) < Len(req[c].names) THEN "begin" ELSE "write"
          /\ Item(c) = Len(results[c]) + 1
      BY <1>0, <1>1 DEF Return, ReplyInv, Item
    <2>3. /\ Len(results'[c]) = Len(results[c]) + 1 /\ results'[c] \in Seq(Results)
          /\ results'[c][Len(results[c]) + 1] = Outcome(c)
          /\ \A i \in DOMAIN results[c] : results'[c][i] = results[c][i]
      BY <1>0, <1>a, <2>2, OutcomeType DEF ConnInv
    <2>4. Carried(out[c], ran[c][Item(c)]) /\ Len(ran[c]) = Item(c)
      BY <1>a, <2>2 DEF CallInv
    <2>5. ran[c][Item(c)] \in Deeds \ {"gate"}
      <3>1. ran[c][Item(c)] \in Deeds
        BY <1>0, <2>2, <2>4 DEF ReplyInv
      <3>2. ran[c][Item(c)] # "gate"
        BY <2>4 DEF Carried
      <3> QED BY <3>1, <3>2
    <2>6. Told(Outcome(c), ran[c][Item(c)], Rescued(c, Item(c)))
      BY <1>a, <2>4, <2>5, OutcomeTold
    <2>7. \A i \in DOMAIN results'[c] : Told(results'[c][i], ran[c][i], Rescued(c, i))
      BY <1>0, <2>2, <2>3, <2>6 DEF CallInv
    <2>8. Len(req[c].names) \in Nat /\ Len(results[c]) < Len(req[c].names)
      BY <1>a, <2>2, NamesOf DEF CallInv
    <2>9. CallInv(c)'
      BY <1>0, <1>a, <2>2, <2>3, <2>4, <2>7, <2>8 DEF CallInv, Rescued
    <2>10. ReplyInv(c)'
      BY <1>0, <1>a, <2>2, <2>9 DEF ReplyInv
    <2> QED BY <2>1, <2>10, ReplyStep
  <1>2. CASE OpenStream(c)
    <2>1. \A d \in Conns \ {c} : Same(d) /\ ran'[d] = ran[d] /\ reply'[d] = reply[d]
      BY <1>2 DEF OpenStream, Same
    <2>2. /\ Gate(c) /\ GateInv(c)
          /\ Len(results'[c]) = 1
          /\ pc'[c] = IF Failed(results'[c][1]) THEN "write" ELSE "stream"
      BY <1>0, <1>2 DEF OpenStream, ReplyInv
    <2>3. GateInv(c)'
      BY <1>a, <2>2 DEF GateInv
    <2>4. ReplyInv(c)'
      BY <1>0, <1>a, <2>2, <2>3 DEF ReplyInv
    <2> QED BY <2>1, <2>4, ReplyStep
  <1> QED BY <1>1, <1>2

\* A set of numbers that is not empty has a least one.
LEMMA LeastNatural ==
  ASSUME NEW T \in SUBSET Nat, T # {}
  PROVE  \E x \in T : \A y \in T : x <= y
  <1> DEFINE R == OpToRel(<, Nat)
  <1>1. IsWellFoundedOn(R, Nat)
    BY NatLessThanWellFounded
  <1>2. \A x \in Nat, y \in Nat : x < y => <<x, y>> \in R
    BY DEF OpToRel
  <1> HIDE DEF R
  <1>3. PICK x \in T : \A y \in T : ~ (<<y, x>> \in R)
    BY <1>1, WFMin, Zenon
  <1>4. ASSUME NEW y \in T PROVE x <= y
    <2>1. x \in Nat /\ y \in Nat
      OBVIOUS
    <2>2. ~(y < x)
      BY <1>2, <1>3, <2>1, Zenon
    <2> QED BY <2>1, <2>2
  <1> QED BY <1>4

\* The encoder stops at a result it cannot write if there is one.
LEMMA EncodedType ==
  ASSUME NEW rs \in Seq(Results)
  PROVE  /\ Encoded(rs) \in {"fine", "fails", "panics"}
         /\ Encoded(rs) = "fine" <=> \A i \in DOMAIN rs : rs[i].enc = "fine"
  <1> DEFINE unwritable == {i \in DOMAIN rs : rs[i].enc # "fine"}
  <1>1. \A i \in DOMAIN rs : rs[i].enc \in {"fine", "fails", "panics"}
    <2>1. \A r \in Results : r.enc \in {"fine", "fails", "panics"}
      BY DEF Results, Error
    <2> QED BY <2>1
  <1>2. CASE unwritable = {}
    BY <1>2 DEF Encoded
  <1>3. CASE unwritable # {}
    <2>1. unwritable \in SUBSET Nat
      OBVIOUS
    <2>2. Min(unwritable) \in unwritable
      <3> HIDE DEF unwritable
      <3> QED BY <1>3, <2>1, LeastNatural DEF Min
    <2>3. Encoded(rs) = rs[Min(unwritable)].enc
      BY <1>3 DEF Encoded
    <2> QED BY <1>1, <2>2, <2>3
  <1> QED BY <1>2, <1>3

\* The response is made of the results, and forgotten when it is over.
LEMMA WriteReply ==
  ASSUME CtrlInv, AnswerInv, ReplyTypes, NEW c \in Conns, Write(c) \/ Finish(c)
  PROVE  AnswerInv'
  <1> USE DEF CtrlInv
  <1>0. ReplyInv(c)
    BY DEF AnswerInv
  <1>1. CASE Write(c)
    <2>1. \A d \in Conns \ {c} : Same(d) /\ ran'[d] = ran[d] /\ reply'[d] = reply[d]
      BY <1>1 DEF Write, Goto, Same, ReplyTypes
    <2>2. /\ pc[c] = "write" /\ pc'[c] = "sent" /\ UNCHANGED <<req, results, ran>>
      BY <1>1 DEF Write, Goto
    <2>3. Gate(c)' = Gate(c) /\ Status(c)' = Status(c) /\ Encoded(results[c])' = Encoded(results[c])
      BY <2>2 DEF Gate, Status, Errs, Failed, Encoded
    <2>4. CallInv(c) => CallInv(c)'
      BY <2>2, NamesOf DEF CallInv, Rescued
    <2>5. GateInv(c) => GateInv(c)'
      BY <2>2 DEF GateInv
    <2>6. reply'[c].status \in {Status(c), 0}
          /\ reply'[c].body = IF Encoded(results[c]) = "fine" THEN results[c] ELSE <<>>
      BY <1>1, EncodedType DEF Write, ReplyTypes
    <2>7. ReplyInv(c)'
      BY <1>0, <2>2, <2>3, <2>4, <2>5, <2>6 DEF ReplyInv
    <2> QED BY <2>1, <2>7, ReplyStep
  <1>2. CASE Finish(c)
    <2>1. \A d \in Conns \ {c} : Same(d) /\ ran'[d] = ran[d] /\ reply'[d] = reply[d]
      BY <1>2 DEF Finish, Same, ReplyTypes
    <2>2. pc'[c] = "idle" /\ ran'[c] = <<>>
      BY <1>2 DEF Finish, ReplyTypes
    <2>3. ReplyInv(c)'
      BY <2>2 DEF ReplyInv
    <2> QED BY <2>1, <2>3, ReplyStep
  <1> QED BY <1>1, <1>2

\* Nothing is told of a request before it has been made.
LEMMA InitReply == Init => AnswerInv
  BY DEF Init, AnswerInv, ReplyInv, Deeds

TypedReply == ran \in [Conns -> Seq(Deeds)] /\ DOMAIN reply = Conns

\* The history of a connection's handlers, and its response, are kept apart.
LEMMA ReplyTypesInvariant == Spec => []TypedReply
  <1>1. Init => TypedReply
    BY DEF Init, TypedReply
  <1>2. TypedReply /\ [Next]_vars => TypedReply'
    <2> SUFFICES ASSUME TypedReply, [Next]_vars PROVE TypedReply'
      OBVIOUS
    <2> USE DEF TypedReply
    <2>a. ASSUME NEW c \in Conns, NEW did \in Deeds, ran' = [ran EXCEPT ![c] = Append(@, did)],
                 reply' = reply
          PROVE  TypedReply'
      BY <2>a
    <2>1. ASSUME NEW c \in Conns, NEW q \in Requests, Accept(c, q) PROVE TypedReply'
      BY <2>1 DEF Accept
    <2>2. ASSUME NEW c \in Conns, Serve(c) PROVE TypedReply'
      <3>1. CASE AppendOwn(c) \/ ApplyGate(c) \/ FindLimiter(c) \/ PassThrough(c) \/ Unwind(c)
                   \/ Return(c) \/ OpenStream(c) \/ Write(c) \/ Finish(c)
        <4>1. /\ ran' = ran \/ ran' = [ran EXCEPT ![c] = <<>>]
              /\ reply' = reply \/ \E r : reply' = [reply EXCEPT ![c] = r]
          BY <3>1 DEF AppendOwn, ApplyGate, FindLimiter, PassThrough, Unwind, Return, OpenStream,
                      Write, Finish, Admit
        <4>2. [ran EXCEPT ![c] = <<>>] \in [Conns -> Seq(Deeds)]
          <5>1. <<>> \in Seq(Deeds)
            OBVIOUS
          <5> QED BY <5>1
        <4>3. ran' \in [Conns -> Seq(Deeds)]
          BY <4>1, <4>2
        <4>4. DOMAIN reply' = Conns
          BY <4>1
        <4> QED BY <4>3, <4>4
      <3>2. CASE Begin(c)
        BY <2>a, <3>2, BeginCases DEF Refuse, Leave, Deeds
      <3>3. CASE Auth(c) \/ MaxInputSize(c) \/ RateLimit(c) \/ MaxConnectionsPerIP(c) \/ Allow(c)
        <4>1. UNCHANGED <<ran, reply>> \/ \E code : Refuse(c, code)
          BY <3>3 DEF Auth, MaxInputSize, RateLimit, MaxConnectionsPerIP, Allow, Admit
        <4> QED BY <2>a, <4>1 DEF Refuse, Leave, Deeds
      <3>4. CASE PassGate(c) \/ Decode(c) \/ Handle(c)
        <4>1. ASSUME NEW result, NEW did \in Deeds, Leave(c, result, did) PROVE TypedReply'
          BY <2>a, <4>1 DEF Leave
        <4>2. CASE PassGate(c)
          BY <4>1, <4>2 DEF PassGate, Deeds
        <4>3. CASE Decode(c)
          BY <4>1, <4>3 DEF Decode, Refuse, Deeds
        <4>4. CASE Handle(c)
          BY <4>1, <4>4 DEF Handle, Deeds
        <4> QED BY <3>4, <4>2, <4>3, <4>4
      <3> QED BY <2>2, <3>1, <3>2, <3>3, <3>4 DEF Serve, Middlewares
    <2>3. CASE Tick \/ Evict \/ UNCHANGED vars
      BY <2>3 DEF Tick, Evict, vars, connVars
    <2> QED BY <2>1, <2>2, <2>3, NextCases
  <1> QED BY <1>1, <1>2, PTL DEF Spec

\* Results and the deeds of handlers stay matched, whatever middlewares refuse.
LEMMA AnswerInvariant == Spec => []AnswerInv
  <1>1. CtrlInv /\ TypedReply /\ AnswerInv /\ [Next]_vars => AnswerInv'
    <2> SUFFICES ASSUME CtrlInv, TypedReply, AnswerInv, [Next]_vars PROVE AnswerInv'
      OBVIOUS
    <2>1. ReplyTypes
      BY DEF ReplyTypes, TypedReply
    <2>2. ASSUME NEW c \in Conns, NEW q \in Requests, Accept(c, q) PROVE AnswerInv'
      BY <2>1, <2>2, DispatchReply
    <2>3. ASSUME NEW c \in Conns, Serve(c) PROVE AnswerInv'
      <3>1. CASE Unwind(c)
        <4>1. UNCHANGED <<pc, req, out, results, reply, ran, chain>>
              /\ pc[c] = "unwind" /\ \A d \in Conns \ {c} : depth'[d] = depth[d]
          BY <3>1 DEF Unwind, CtrlInv
        <4> QED BY <4>1, ThroughReply
      <3> QED BY <2>1, <2>3, <3>1, DispatchReply, MiddlewaresReply, HandlersReply, ReturnReply,
                 WriteReply DEF Serve
    <2>4. CASE Tick \/ Evict \/ UNCHANGED vars
      <3>1. UNCHANGED connVars
        BY <2>4 DEF Tick, Evict, vars
      <3> QED BY <3>1, ReplyOther DEF AnswerInv, connVars, Same
    <2> QED BY <2>2, <2>3, <2>4, NextCases
  <1> QED BY <1>1, InitReply, CtrlInvariant, ReplyTypesInvariant, PTL DEF Spec

\* Every response that is sent tells of each call what its handler did, in
\* order; what one call did costs the others nothing but when a value cannot be
\* encoded: for any procedures, middlewares, requests and interleaving.
THEOREM RepliesFaithful == Spec => []ReplyFaithful
  <1>1. CtrlInv /\ AnswerInv => ReplyFaithful
    <2> SUFFICES ASSUME CtrlInv, AnswerInv, NEW c \in Conns, pc[c] = "sent", results[c] # <<>>
                 PROVE  LET rs == results[c]
                            value(i) == ran[c][i] = "fine"
                            lost == {i \in DOMAIN rs : ran[c][i] \in {"fails", "panics"}
                                                       /\ ~(Transformer /\ req[c].inputs[i] = "envelope")}
                        IN  /\ Len(ran[c]) = Len(rs) /\ (Gate(c) \/ Len(rs) = Len(req[c].names))
                            /\ Gate(c) \/ \A i \in DOMAIN rs \ lost : Failed(rs[i]) <=> ~value(i)
                            /\ Gate(c) \/ (reply[c].body = rs <=> lost = {})
                            /\ reply[c].status = 200 /\ Route(req[c]) # "exec" =>
                                 \A i \in DOMAIN rs \ lost : value(i)
                            /\ reply[c].status = 500 /\ Route(req[c]) = "batch" =>
                                 \A i \in DOMAIN rs : ~value(i)
                            /\ reply[c].status = 207 =>
                                 /\ \E i \in DOMAIN rs \ lost : ~value(i)
                                 /\ \E i \in DOMAIN rs : value(i) \/ i \in lost
      BY DEF ReplyFaithful
    <2> DEFINE rs == results[c]
               lost == {i \in DOMAIN rs : ran[c][i] \in {"fails", "panics"} /\ ~Rescued(c, i)}
    <2>1. ReplyInv(c) /\ rs \in Seq(Results) /\ Len(rs) \in Nat /\ Len(rs) # 0
      BY DEF AnswerInv, CtrlInv
    <2>2. /\ reply[c].status \in {Status(c), 0}
          /\ reply[c].body = IF Encoded(rs) = "fine" THEN rs ELSE <<>>
          /\ IF Gate(c) THEN GateInv(c) ELSE CallInv(c)
      BY <2>1 DEF ReplyInv
    <2>3. CASE Gate(c)
      <3>1. Len(ran[c]) = 1 /\ Len(rs) = 1 /\ Failed(rs[1])
        BY <2>2, <2>3 DEF GateInv
      <3>2. Route(req[c]) = "subscription"
        BY <2>3 DEF Gate
      <3>3. Status(c) = HTTPStatus[rs[1].code] /\ rs[1].code \in Codes
        <4>1. rs[1] \in Results
          BY <2>1, <3>1
        <4>2. rs[1].code \in Codes
          BY <3>1, <4>1 DEF Results, Failed, Error
        <4> QED BY <3>1, <3>2, <4>2 DEF Status
      <3>4. Status(c) \notin {200, 207}
        BY <3>3 DEF HTTPStatus, Codes
      <3> QED BY <2>2, <2>3, <3>1, <3>2, <3>4
    <2>4. CASE ~Gate(c)
      <3>1. /\ Len(ran[c]) = Len(rs) /\ Len(rs) = Len(req[c].names)
            /\ \A i \in DOMAIN rs : Told(rs[i], ran[c][i], Rescued(c, i)) /\ ran[c][i] \in Deeds
        <4>1. CallInv(c)
          BY <2>2, <2>4
        <4> QED BY <2>1, <4>1 DEF CallInv, ReplyInv
      <3>2. \A i \in DOMAIN rs :
              /\ i \in lost => ~Failed(rs[i]) /\ rs[i].enc # "fine" /\ ran[c][i] # "fine"
              /\ i \notin lost => (Failed(rs[i]) <=> ran[c][i] # "fine") /\ rs[i].enc = "fine"
        BY <3>1 DEF Told, Deeds
      <3>3. reply[c].body = rs <=> lost = {}
        BY <2>1, <2>2, <3>2, EncodedType
      <3>4. Route(req[c]) \in {"exec", "batch", "single"}
        BY <2>2, <2>4 DEF CallInv
      <3>5. ASSUME reply[c].status = 200, Route(req[c]) # "exec", NEW i \in DOMAIN rs \ lost
            PROVE  ran[c][i] = "fine"
        <4>1. Status(c) = 200
          BY <2>2, <3>5
        <4>2. CASE Route(req[c]) = "batch"
          BY <3>2, <3>5, <4>1, <4>2 DEF Status, Errs
        <4>3. CASE Route(req[c]) = "single"
          <5>1. Len(rs) = 1
            BY <3>1, <4>3, Routes, CallsAssumption DEF CtrlInv, ConnInv
          <5>2. Failed(rs[1]) => HTTPStatus[rs[1].code] # 200
            <6>1. rs[1] \in Results
              BY <2>1, <5>1
            <6>2. Failed(rs[1]) => rs[1].code \in Codes
              BY <6>1 DEF Results, Failed, Error
            <6> QED BY <6>2 DEF HTTPStatus, Codes
          <5>3. ~Failed(rs[1])
            BY <4>1, <4>3, <5>2 DEF Status
          <5> QED BY <3>2, <3>5, <5>1, <5>3
        <4> QED BY <3>4, <3>5, <4>2, <4>3
      <3>6. ASSUME reply[c].status = 500, Route(req[c]) = "batch", NEW i \in DOMAIN rs
            PROVE  ran[c][i] # "fine"
        <4>1. Errs(rs) = DOMAIN rs
          BY <2>2, <3>6 DEF Status
        <4> QED BY <3>2, <3>6, <4>1 DEF Errs
      <3>7. ASSUME reply[c].status = 207
            PROVE  /\ \E i \in DOMAIN rs \ lost : ran[c][i] # "fine"
                   /\ \E i \in DOMAIN rs : ran[c][i] = "fine" \/ i \in lost
        <4>1. Status(c) = 207
          BY <2>2, <3>7
        <4>2. CASE Route(req[c]) # "batch"
          <5>1. Failed(rs[1]) => HTTPStatus[rs[1].code] # 207
            <6>1. rs[1] \in Results
              BY <2>1
            <6>2. Failed(rs[1]) => rs[1].code \in Codes
              BY <6>1 DEF Results, Failed, Error
            <6> QED BY <6>2 DEF HTTPStatus, Codes
          <5> QED BY <4>1, <4>2, <5>1 DEF Status
        <4>3. CASE Route(req[c]) = "batch"
          <5>1. Errs(rs) # {} /\ Errs(rs) # DOMAIN rs
            BY <4>1, <4>3 DEF Status
          <5> QED BY <3>2, <5>1 DEF Errs
        <4> QED BY <4>2, <4>3
      <3> QED BY <2>4, <3>1, <3>2, <3>3, <3>5, <3>6, <3>7 DEF Rescued
    <2> QED BY <2>3, <2>4 DEF Rescued
  <1> QED BY <1>1, CtrlInvariant, AnswerInvariant, PTL
=============================================================================
