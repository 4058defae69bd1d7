------------------------------- MODULE Calls -------------------------------
(***************************************************************************)
(* Concurrent HTTP requests of a Router: ServeHTTP, single calls, plain    *)
(* batches, the panel's exec form, and subscriptions up to the handler's   *)
(* channel, with the middlewares of pkg/router/middleware.go around them.  *)
(*                                                                         *)
(* Each connection serves one request after another.  What requests share  *)
(* is the state of the middlewares and the array behind r.middlewares.     *)
(***************************************************************************)
EXTENDS Naturals, Sequences, FiniteSets, SequencesExt

CONSTANTS
  Conns,        \* connections of net/http, one goroutine each
  Requests,     \* the requests clients make
  Procs,        \* r.procedures: name -> [type, middlewares]
  Global,       \* r.middlewares, one Use each
  Capacity,     \* of the array behind r.middlewares, which append chose
  Limit,        \* MaxConnectionsPerIP(Limit)
  Rate,         \* RateLimit(Rate) and RateLimitByKey(Rate, GetClientIP)
  Thrown,       \* codes of the errors handlers return; InternalError if one has none
  Idle,         \* seconds after which RateLimitByKey evicts a limiter
  Cors, Panel, Transformer,  \* options of the router
  None

VARIABLES
  pc,        \* control of the goroutine of each connection
  req,       \* the request it serves
  chain,     \* the middlewares around the handler being called
  depth,     \* how many of them have been entered and not left
  out,       \* the result of the call being finished
  results,   \* results of the calls of this request so far
  reply,     \* [status, body] of the response
  spare,     \* array elements behind the end of r.middlewares
  counts,    \* counts of MaxConnectionsPerIP
  limiters,  \* limiters of RateLimitByKey: [left, idle]
  bucket,    \* tokens left of RateLimit
  used,      \* history: calls RateLimitByKey admitted this second, per key
  ran        \* history: what the handlers of this request did

connVars == <<pc, req, chain, depth, out, results, reply, ran>>
limitVars == <<counts, limiters, bucket, used>>
vars == <<connVars, spare, limitVars>>

-----------------------------------------------------------------------------
(* Requests *)

\* First entry of X-Forwarded-For, then X-Real-IP, then the peer's address,
\* which the panel leaves out of the request it makes.
GetClientIP(q) ==
  IF q.xff # <<>> /\ Head(q.xff) # "" THEN Head(q.xff)
  ELSE IF q.xri # "" THEN q.xri
  ELSE IF Panel /\ q.path = "exec" THEN ""
  ELSE q.remote

IPs == {GetClientIP(q) : q \in Requests}

IsSubscription(name) ==
  name \in DOMAIN Procs /\ Procs[name].type = "subscription"

\* TransformInput cannot unwrap the input.
BadEnvelope(input) == Transformer /\ input = "badEnvelope"

\* ServeHTTP, handleQuery and handleMutation up to the first call: the first
\* condition that holds decides.
Route(q) ==
  IF Cors /\ q.method = "OPTIONS" THEN "preflight"
  ELSE IF q.upgrade THEN "websocket"
  ELSE IF Panel /\ q.path = "exec" /\ q.method = "POST" /\ q.body # "ok" THEN "badBody"
  ELSE IF Panel /\ q.path = "exec" /\ q.method = "POST" THEN "exec"
  ELSE IF Panel /\ q.path \in {"panel", "exec"} THEN "page"
  ELSE IF Panel /\ q.path = "" THEN "redirect"
  ELSE IF q.path = "" THEN "noPath"
  ELSE IF q.method = "HEAD" THEN "head"
  ELSE IF q.method \notin {"GET", "POST"} THEN "badMethod"
  ELSE IF q.method = "POST" /\ ~q.json THEN "badType"
  ELSE IF q.body = "unreadable" /\ q.method = "POST" THEN "badBody"
  ELSE IF q.body = "garbled" /\ q.batch THEN "badBody"
  ELSE IF q.batch /\ q.stream THEN "stream"
  ELSE IF q.batch THEN "batch"
  ELSE IF q.method = "GET" /\ IsSubscription(q.names[1])
       THEN IF BadEnvelope(q.inputs[1]) THEN "badEnvelope" ELSE "subscription"
  ELSE "single"

\* Routes that are answered without calling a procedure.
Fixed == [preflight |-> 204, page |-> 200, redirect |-> 307, noPath |-> 404,
          head |-> 200, badMethod |-> 405, badType |-> 415, badBody |-> 400,
          badEnvelope |-> 400]

\* Routes that other modules continue: WsConn and BatchStream.
Elsewhere == {"websocket", "stream"}

HTTPStatus == [ParseError |-> 400, BadRequest |-> 400, MethodNotFound |-> 404,
               InvalidParams |-> 400, InternalError |-> 500, Unauthorized |-> 401, Forbidden |-> 403,
               NotFound |-> 404, Timeout |-> 408, Conflict |-> 409,
               TooManyRequests |-> 429]

Codes == DOMAIN HTTPStatus

Kinds == {"auth", "size", "wrap", "rate", "slots", "keyRate"}

\* The path of a request names a procedure, and only a batch's is split.
ASSUME CallsAssumption ==
  /\ Global \in Seq(Kinds)
  /\ \A name \in DOMAIN Procs : Procs[name].middlewares \in Seq(Kinds)
  /\ Capacity \in Nat /\ Len(Global) <= Capacity
  /\ Limit \in Nat \ {0} /\ Rate \in Nat \ {0} /\ Idle \in Nat \ {0}
  /\ Thrown \subseteq Codes
  /\ \A q \in Requests : /\ q.names \in Seq(STRING) \ {<<>>}
                         /\ ~q.batch => Len(q.names) = 1
  /\ {Cors, Panel, Transformer} \subseteq BOOLEAN

Error(code) == [code |-> code, env |-> FALSE, enc |-> "fine"]

\* Results: an error, or a value that is wrapped in the transformer's
\* envelope or not, and that json.Encode writes, refuses or panics on.
Results == {Error(code) : code \in Codes}
           \cup [code : {"OK"}, env : BOOLEAN, enc : {"fine", "fails", "panics"}]

Failed(r) == r.code # "OK"

\* The call a connection is at: its position, procedure name and input.
Item(c) == Len(results[c]) + 1
Name(c) == req[c].names[Item(c)]
Input(c) == req[c].inputs[Item(c)]
Own(c) == Procs[Name(c)].middlewares
Gate(c) == Route(req[c]) = "subscription"

\* The panel calls every procedure by its own type.
ExpectedType(c) ==
  IF Route(req[c]) = "exec" /\ Name(c) \in DOMAIN Procs THEN Procs[Name(c)].type
  ELSE IF req[c].method = "POST" THEN "mutation" ELSE "query"

\* The panel answers an unknown procedure or a subscription by itself.
ExecRefused(q) ==
  Route(q) = "exec" /\ (q.names[1] \notin DOMAIN Procs \/ IsSubscription(q.names[1]))

-----------------------------------------------------------------------------
(* The array behind r.middlewares *)

\* Elements behind the slice's end.
Room == Capacity - Len(Global)

Init ==
  /\ pc = [c \in Conns |-> "idle"]
  /\ req = [c \in Conns |-> None]
  /\ chain = [c \in Conns |-> <<>>]
  /\ depth = [c \in Conns |-> 0]
  /\ out = [c \in Conns |-> None]
  /\ results = [c \in Conns |-> <<>>]
  /\ reply = [c \in Conns |-> None]
  /\ ran = [c \in Conns |-> <<>>]
  /\ spare = [i \in 1..Room |-> None]
  /\ counts = <<>> /\ limiters = <<>>
  /\ bucket = Rate
  /\ used = [k \in IPs |-> 0]

\* A Go map after an assignment to one of its keys.
Put(map, key, value) ==
  [k \in DOMAIN map \cup {key} |-> IF k = key THEN value ELSE map[k]]

Goto(c, from, to) == pc[c] = from /\ pc' = [pc EXCEPT ![c] = to]

\* callProcedure, a middleware or the handler returns: the way back begins.
Leave(c, result, did) ==
  /\ pc' = [pc EXCEPT ![c] = "unwind"]
  /\ out' = [out EXCEPT ![c] = result]
  /\ ran' = [ran EXCEPT ![c] = Append(@, did)]
  /\ UNCHANGED <<req, chain, depth, results, reply, spare>>

Refuse(c, code) == Leave(c, Error(code), "refused")

-----------------------------------------------------------------------------
(* ServeHTTP *)

\* A request arrives on a connection and is dispatched.
Accept(c, q) ==
  /\ pc[c] = "idle"
  /\ Route(q) \notin Elsewhere
  /\ req' = [req EXCEPT ![c] = q]
  /\ IF Route(q) \in DOMAIN Fixed \/ ExecRefused(q)
     THEN /\ pc' = [pc EXCEPT ![c] = "sent"]
          /\ reply' = [reply EXCEPT ![c] =
               [status |-> IF ExecRefused(q) THEN 200 ELSE Fixed[Route(q)],
                body |-> <<>>]]
     ELSE /\ pc' = [pc EXCEPT ![c] =
                      IF Route(q) = "subscription" THEN "append" ELSE "begin"]
          /\ UNCHANGED reply
  /\ UNCHANGED <<chain, depth, out, results, ran, spare, limitVars>>

Callable(c) ==
  Name(c) \in DOMAIN Procs /\ Procs[Name(c)].type = ExpectedType(c)

\* callProcedure finds the procedure and composes its middlewares, those of the
\* router outside, its own inside; or no middleware is ever entered: there is
\* no such procedure, or the transformer fails, or panics, on the input.
Begin(c) ==
  /\ pc[c] = "begin"
  /\ \/ /\ Callable(c) /\ ~BadEnvelope(Input(c))
        /\ pc' = [pc EXCEPT ![c] = "chain"]
        /\ chain' = [chain EXCEPT ![c] = Global \o Own(c)]
        /\ UNCHANGED <<req, depth, out, results, reply, ran, spare>>
     \/ ~Callable(c) /\ Refuse(c, "MethodNotFound")
     \/ /\ Callable(c) /\ BadEnvelope(Input(c))
        /\ \E code \in {"ParseError", "InternalError"} : Refuse(c, code)
  /\ UNCHANGED limitVars

\* callSubscription appends the procedure's middlewares to the router's: into
\* the spare elements if they fit, which every such call shares.
AppendOwn(c) ==
  /\ Goto(c, "append", "apply")
  /\ spare' = IF Len(Own(c)) > Room THEN spare
              ELSE [i \in 1..Room |->
                      IF i <= Len(Own(c)) THEN Own(c)[i] ELSE spare[i]]
  /\ UNCHANGED <<req, chain, depth, out, results, reply, ran, limitVars>>

\* applyMiddlewares reads them back.
Appended(c) ==
  IF Len(Own(c)) > Room THEN Own(c) ELSE SubSeq(spare, 1, Len(Own(c)))

ApplyGate(c) ==
  /\ Goto(c, "apply", "chain")
  /\ chain' = [chain EXCEPT ![c] = Global \o Appended(c)]
  /\ UNCHANGED <<req, depth, out, results, reply, ran, spare, limitVars>>

-----------------------------------------------------------------------------
(* The middlewares *)

Upcoming(c) == chain[c][depth[c] + 1]

At(c, kind) ==
  pc[c] = "chain" /\ depth[c] < Len(chain[c]) /\ Upcoming(c) = kind

\* The middleware calls next.
Admit(c) ==
  /\ pc' = [pc EXCEPT ![c] = "chain"]
  /\ depth' = [depth EXCEPT ![c] = @ + 1]
  /\ UNCHANGED <<req, chain, out, results, reply, ran, spare>>

\* BearerAuth: no token, or one the application's validator refuses.
Auth(c) ==
  /\ At(c, "auth")
  /\ \/ req[c].token = "none" /\ Refuse(c, "Unauthorized")
     \/ req[c].token = "bad" /\ \E code \in {"Unauthorized", "Forbidden"} : Refuse(c, code)
     \/ req[c].token = "good" /\ Admit(c)
  /\ UNCHANGED limitVars

MaxInputSize(c) ==
  /\ At(c, "size")
  /\ IF Input(c) = "large" THEN Refuse(c, "BadRequest") ELSE Admit(c)
  /\ UNCHANGED limitVars

\* Logging, RequestID, Timeout, telemetry: they call next whatever happens.
PassThrough(c) ==
  /\ At(c, "wrap")
  /\ Admit(c)
  /\ UNCHANGED limitVars

RateLimit(c) ==
  /\ At(c, "rate")
  /\ IF bucket = 0 THEN Refuse(c, "TooManyRequests") ELSE Admit(c)
  /\ bucket' = IF bucket = 0 THEN 0 ELSE bucket - 1
  /\ UNCHANGED <<counts, limiters, used>>

Taken(ip) == IF ip \in DOMAIN counts THEN counts[ip] ELSE 0

\* Mutation: one more than the limit gets in.
FullOffByOne(ip) == Taken(ip) > Limit

Full(ip) == Taken(ip) >= Limit

MaxConnectionsPerIP(c) ==
  LET ip == GetClientIP(req[c]) IN
  /\ At(c, "slots")
  /\ IF Full(ip)
     THEN Refuse(c, "TooManyRequests") /\ UNCHANGED counts
     ELSE Admit(c) /\ counts' = Put(counts, ip, Taken(ip) + 1)
  /\ UNCHANGED <<limiters, bucket, used>>

\* Mutation: lastSeen is set only when the limiter is made.
SeenWhenMade(key) == IF key \in DOMAIN limiters THEN limiters[key].idle ELSE 0

\* How long ago a limiter that is being looked up was last seen.
Seen(key) == 0

\* RateLimitByKey looks the limiter up under its mutex, and asks it after it
\* has released the mutex.
FindLimiter(c) ==
  LET key == GetClientIP(req[c])
      left == IF key \in DOMAIN limiters THEN limiters[key].left ELSE Rate IN
  /\ At(c, "keyRate")
  /\ pc' = [pc EXCEPT ![c] = "allow"]
  /\ limiters' = Put(limiters, key, [left |-> left, idle |-> Seen(key)])
  /\ UNCHANGED <<req, chain, depth, out, results, reply, ran, spare, counts, bucket, used>>

\* The limiter that was found is still known: see the bound of Tick.
Allow(c) ==
  LET key == GetClientIP(req[c]) IN
  /\ pc[c] = "allow" /\ key \in DOMAIN limiters
  /\ IF limiters[key].left = 0
     THEN Refuse(c, "TooManyRequests") /\ UNCHANGED <<limiters, used>>
     ELSE /\ Admit(c)
          /\ limiters' = [limiters EXCEPT ![key].left = @ - 1]
          /\ used' = [used EXCEPT ![key] = @ + 1]
  /\ UNCHANGED <<counts, bucket>>

\* A second passes: tokens come back.  Bound: no call takes a second from
\* finding its limiter to asking it, so no limiter is evicted in between.
Tick ==
  /\ \A c \in Conns : pc[c] # "allow"
  /\ bucket' = Rate
  /\ limiters' = [k \in DOMAIN limiters |->
       [left |-> Rate, idle |-> IF limiters[k].idle < Idle THEN limiters[k].idle + 1 ELSE Idle]]
  /\ used' = [k \in IPs |-> 0]
  /\ UNCHANGED <<connVars, spare, counts>>

\* The cleanup goroutine of RateLimitByKey.
Evict ==
  /\ \E k \in DOMAIN limiters : limiters[k].idle = Idle
  /\ limiters' = [k \in {k \in DOMAIN limiters : limiters[k].idle < Idle} |-> limiters[k]]
  /\ UNCHANGED <<connVars, spare, counts, bucket, used>>

-----------------------------------------------------------------------------
(* Handlers and the way back *)

Entered(c) == pc[c] = "chain" /\ depth[c] = Len(chain[c])

\* The gate of callSubscription: the handler is called later.
PassGate(c) ==
  /\ Entered(c) /\ Gate(c)
  /\ Leave(c, [code |-> "OK", env |-> FALSE, enc |-> "fine"], "gate")
  /\ UNCHANGED limitVars

\* decodeAndValidate refuses the input.
Decode(c) ==
  /\ Entered(c) /\ ~Gate(c)
  /\ \/ Input(c) = "garbled" /\ Refuse(c, "ParseError")
     \/ Input(c) = "invalid" /\ Refuse(c, "BadRequest")
  /\ UNCHANGED limitVars

Wrapped(c) == Transformer /\ Input(c) = "envelope"

\* The handler returns a value, an error with a code or without one, or
\* panics; the transformer encodes the value inside callProcedure.
Handle(c) ==
  /\ Entered(c) /\ ~Gate(c)
  /\ Input(c) \notin {"garbled", "invalid"}
  /\ \/ \E enc \in {"fine", "fails", "panics"} :
          Leave(c, [code |-> "OK", env |-> FALSE, enc |-> enc], enc)
     \/ \E code \in Thrown : Leave(c, Error(code), "error")
     \/ Leave(c, Error("panic"), "panic")
  /\ UNCHANGED limitVars

\* Mutation: the slot is given back after next returned, not in a defer.
GivesOnReturn(c) == chain[c][depth[c]] = "slots" /\ out[c].code # "panic"

\* The middleware being left is MaxConnectionsPerIP.
Gives(c) == chain[c][depth[c]] = "slots"

\* A middleware's next returned or panicked; deferred functions run.  An
\* address whose count is 0 is deleted.
Unwind(c) ==
  LET ip == GetClientIP(req[c]) IN
  /\ pc[c] = "unwind" /\ depth[c] > 0
  /\ depth' = [depth EXCEPT ![c] = @ - 1]
  /\ counts' = IF ~Gives(c) THEN counts
               ELSE IF counts[ip] = 1 THEN [i \in DOMAIN counts \ {ip} |-> counts[i]]
               ELSE [counts EXCEPT ![ip] = @ - 1]
  /\ UNCHANGED <<pc, req, chain, out, results, reply, ran, spare, limiters, bucket, used>>

\* Mutation: the recover does not set the result.
OutcomeUnset(c) ==
  IF out[c].code = "panic" THEN [code |-> "OK", env |-> FALSE, enc |-> "fine"]
  ELSE out[c]

\* What callProcedure returns: it recovers a panic, and wraps the value.
Outcome(c) ==
  IF out[c].code = "panic" THEN Error("InternalError")
  ELSE IF Failed(out[c]) \/ ~Wrapped(c) THEN out[c]
  ELSE IF out[c].enc = "fine" THEN [out[c] EXCEPT !.env = TRUE]
  ELSE Error("InternalError")

\* callProcedure returns to the single call, the batch's loop or the panel.
Return(c) ==
  /\ pc[c] = "unwind" /\ depth[c] = 0 /\ ~Gate(c)
  /\ results' = [results EXCEPT ![c] = Append(@, Outcome(c))]
  /\ pc' = [pc EXCEPT ![c] = IF Item(c) < Len(req[c].names) THEN "begin" ELSE "write"]
  /\ out' = [out EXCEPT ![c] = None]
  /\ chain' = [chain EXCEPT ![c] = <<>>]
  /\ UNCHANGED <<req, depth, reply, ran, spare, limitVars>>

\* The gate returned, its middlewares with it: only now is the subscription's
\* handler called, which may fail or panic in turn.
OpenStream(c) ==
  /\ pc[c] = "unwind" /\ depth[c] = 0 /\ Gate(c)
  /\ IF Failed(out[c]) THEN results' = [results EXCEPT ![c] = <<out[c]>>]
     ELSE \E r \in {out[c], Error("NotFound"), Error("InternalError")} :
            results' = [results EXCEPT ![c] = <<r>>]
  /\ pc' = [pc EXCEPT ![c] = IF Failed(results'[c][1]) THEN "write" ELSE "stream"]
  /\ UNCHANGED <<req, chain, depth, out, reply, ran, spare, limitVars>>

-----------------------------------------------------------------------------
(* Responses *)

Errs(rs) == {i \in DOMAIN rs : Failed(rs[i])}

\* writeResult, handleBatch and servePanelExec choose the status before they
\* encode the body.
Status(c) ==
  LET rs == results[c] IN
  CASE Route(req[c]) = "exec" -> 200
    [] Route(req[c]) = "batch" ->
         IF Errs(rs) = {} THEN 200 ELSE IF Errs(rs) = DOMAIN rs THEN 500 ELSE 207
    [] OTHER -> IF Failed(rs[1]) THEN HTTPStatus[rs[1].code] ELSE 200

\* The first result the encoder cannot write decides: a panic aborts the
\* connection, an error leaves the status with an empty body.
Encoded(rs) ==
  LET unwritable == {i \in DOMAIN rs : rs[i].enc # "fine"}
  IN  IF unwritable = {} THEN "fine" ELSE rs[Min(unwritable)].enc

Write(c) ==
  /\ Goto(c, "write", "sent")
  /\ reply' = [reply EXCEPT ![c] =
       CASE Encoded(results[c]) = "fine"   -> [status |-> Status(c), body |-> results[c]]
         [] Encoded(results[c]) = "fails"  -> [status |-> Status(c), body |-> <<>>]
         [] Encoded(results[c]) = "panics" -> [status |-> 0, body |-> <<>>]]
  /\ UNCHANGED <<req, chain, depth, out, results, ran, spare, limitVars>>

\* The response, or the stream, is over; the connection takes the next request.
Finish(c) ==
  /\ pc[c] \in {"sent", "stream"}
  /\ pc' = [pc EXCEPT ![c] = "idle"]
  /\ req' = [req EXCEPT ![c] = None]
  /\ chain' = [chain EXCEPT ![c] = <<>>]
  /\ out' = [out EXCEPT ![c] = None]
  /\ results' = [results EXCEPT ![c] = <<>>]
  /\ reply' = [reply EXCEPT ![c] = None]
  /\ ran' = [ran EXCEPT ![c] = <<>>]
  /\ UNCHANGED <<depth, spare, limitVars>>

Middlewares(c) ==
  \/ Auth(c) \/ MaxInputSize(c) \/ PassThrough(c) \/ RateLimit(c)
  \/ MaxConnectionsPerIP(c) \/ FindLimiter(c) \/ Allow(c)

Serve(c) ==
  \/ Begin(c) \/ AppendOwn(c) \/ ApplyGate(c)
  \/ Middlewares(c) \/ PassGate(c) \/ Decode(c) \/ Handle(c)
  \/ Unwind(c) \/ Return(c) \/ OpenStream(c) \/ Write(c) \/ Finish(c)

Next ==
  \/ \E c \in Conns : Serve(c) \/ \E q \in Requests : Accept(c, q)
  \/ Tick \/ Evict

Spec == Init /\ [][Next]_vars

-----------------------------------------------------------------------------
(* Properties *)

TypeOK ==
  /\ pc \in [Conns -> {"idle", "begin", "append", "apply", "chain", "allow",
                       "unwind", "stream", "write", "sent"}]
  /\ req \in [Conns -> Requests \cup {None}]
  /\ chain \in [Conns -> Seq(Kinds)]
  /\ depth \in [Conns -> Nat]
  /\ out \in [Conns -> Results \cup {Error("panic"), None}]
  /\ results \in [Conns -> Seq(Results)]
  /\ DOMAIN counts \subseteq IPs /\ \A i \in DOMAIN counts : counts[i] \in 1..Limit
  /\ DOMAIN limiters \subseteq IPs
  /\ \A k \in DOMAIN limiters : limiters[k] \in [left : 0..Rate, idle : 0..Idle]
  /\ bucket \in 0..Rate
  /\ \A c \in Conns : depth[c] <= Len(chain[c])

\* The calls of MaxConnectionsPerIP for an address that have not returned:
\* of which connection, and where in its chain.
Inside(ip) ==
  {x \in UNION {{c} \X (1..depth[c]) : c \in Conns} :
     chain[x[1]][x[2]] = "slots" /\ GetClientIP(req[x[1]]) = ip}

\* MaxConnectionsPerIP turns a call away while Limit calls of its address are
\* inside, and only then: a panic, a refusal further in and the end of a
\* subscription's gate all give the slot back.  A subscription is inside only
\* until its gate returns; the stream it opens afterwards holds no slot, however
\* long it runs.
SlotsGivenBack ==
  [][\A c \in Conns : At(c, "slots") =>
       LET inside == Cardinality(Inside(GetClientIP(req[c])))
       IN  /\ pc'[c] = "unwind" => inside = Limit
           /\ depth'[c] > depth[c] => inside < Limit]_vars

\* A client that stays away until its limiter is evicted gains nothing by it:
\* between two refills RateLimitByKey admits at most Rate calls of a key, unless
\* the limiter is evicted between a call's lookup and its answer.
KeyRate == \A k \in IPs : used[k] <= Rate

\* A client is told of each procedure it called, in order, what its handler
\* did: a panic or refusal of one leaves the others alone.  Only a value that
\* cannot be encoded costs the whole response, and a transformer turns that
\* into an error of the one call.
ReplyFaithful ==
  \A c \in Conns : pc[c] = "sent" /\ results[c] # <<>> =>
    LET rs == results[c]
        value(i) == ran[c][i] = "fine"
        lost == {i \in DOMAIN rs : ran[c][i] \in {"fails", "panics"}
                                   /\ ~(Transformer /\ req[c].inputs[i] = "envelope")}
    IN  /\ Len(ran[c]) = Len(rs) /\ (Gate(c) \/ Len(rs) = Len(req[c].names))
        /\ Gate(c) \/ \A i \in DOMAIN rs \ lost : Failed(rs[i]) <=> ~value(i)
        /\ Gate(c) \/ (reply[c].body = rs <=> lost = {})
        /\ reply[c].status = 200 /\ Route(req[c]) # "exec" =>
             \A i \in DOMAIN rs \ lost : value(i)
        /\ reply[c].status = 500 /\ Route(req[c]) = "batch" =>
             \A i \in DOMAIN rs : ~value(i)
        /\ reply[c].status = 207 =>
             /\ \E i \in DOMAIN rs \ lost : ~value(i)
             /\ \E i \in DOMAIN rs : value(i) \/ i \in lost

\* A subscription passes the middlewares of the router and of its own
\* procedure, in this order, and no others.
OwnMiddlewares ==
  \A c \in Conns : pc[c] \in {"chain", "allow", "unwind"} /\ Gate(c) =>
    chain[c] = Global \o Own(c)
=============================================================================
