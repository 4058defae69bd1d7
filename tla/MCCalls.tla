------------------------------ MODULE MCCalls ------------------------------
(* Procedures, middlewares and requests for Calls. *)
EXTENDS Calls, TLC

CONSTANTS c1, c2

TwoConns == {c1, c2}
ConnSymmetry == Permutations(TwoConns)

ProcTable ==
  [get  |-> [type |-> "query",        middlewares |-> <<"wrap", "size">>],
   add  |-> [type |-> "mutation",     middlewares |-> <<"rate">>],
   feed |-> [type |-> "subscription", middlewares |-> <<"auth">>]]

HandlerErrors == {"Conflict"}

\* Two Use calls fill the array of the slice.
Limiters == <<"keyRate", "slots">>

Query ==
  [method |-> "GET", path |-> "procs", names |-> <<"get">>, inputs |-> <<"plain">>,
   batch |-> FALSE, stream |-> FALSE, upgrade |-> FALSE, json |-> TRUE,
   body |-> "ok", token |-> "none", xff |-> <<>>, xri |-> "", remote |-> "a"]

Post(q) == [q EXCEPT !.method = "POST"]
Batch(q, names, inputs) == [q EXCEPT !.batch = TRUE, !.names = names, !.inputs = inputs]

\* Behind a proxy p, and without one; the panel's calls have no address.
CallRequests ==
  { [Query EXCEPT !.method = "OPTIONS"], Post([Query EXCEPT !.json = FALSE]),
    [Query EXCEPT !.inputs = <<"large">>],
    [Query EXCEPT !.inputs = <<"envelope">>, !.xff = <<"a", "p">>, !.remote = "p"],
    [Query EXCEPT !.names = <<"missing">>],
    Post([Query EXCEPT !.names = <<"add">>, !.inputs = <<"garbled">>]),
    Batch(Query, <<"get", "add">>, <<"plain", "plain">>),
    Batch(Query, <<"get", "get">>, <<"envelope", "invalid">>),
    Batch(Query, <<"get", "get">>, <<"badEnvelope", "plain">>),
    [Query EXCEPT !.names = <<"feed">>, !.token = "good"],
    [Query EXCEPT !.names = <<"feed">>, !.inputs = <<"badEnvelope">>],
    [Query EXCEPT !.names = <<"feed">>, !.token = "bad", !.xri = "a", !.remote = "p"],
    Post([Query EXCEPT !.path = "exec", !.names = <<"add">>]),
    Post([Query EXCEPT !.path = "exec", !.names = <<"feed">>]) }

\* Three Use calls leave one element of the array free.
Guards == <<"wrap", "slots", "size">>

TwoFeeds ==
  [mine |-> [type |-> "subscription", middlewares |-> <<"auth">>],
   open |-> [type |-> "subscription", middlewares |-> <<"wrap">>]]

FeedRequests ==
  {[Query EXCEPT !.names = <<"mine">>, !.remote = "b"], [Query EXCEPT !.names = <<"open">>]}
=============================================================================
