# go-trpc in TLA+

go-trpc serves tRPC procedures written in Go over HTTP, Server-Sent Events and
WebSocket, and generates the TypeScript types of their clients. This directory
specifies its server (dispatch, middlewares, batches, subscriptions over both
transports), its demo chat, and its code generator with the watch loop around
it; checks them with TLC on small instances; and proves with TLAPS, for all of
them, every safety property the runs check but those of the generated types:
of the server, the chat, the watch loop, and the names the generator writes.

Paths are relative to `src/`. `PROJECT.json` lists the components, the runs,
the mutants every property was seen to catch, the lines each definition stands
for, the findings, the hazards and the theorems.

## The system

| Part | State | Operations | Talks to |
|---|---|---|---|
| Router, registration (`pkg/router/router.go`, `register.go`, `procedure.go`) | procedures by name, middlewares, base path | `Query`, `Mutation`, `Subscription`, `Use`, `Merge` | read by every request, never locked: it is set up before it serves |
| Dispatch (`handler.go`, `handler_batch.go`, `wire.go`) | none beyond the request | `ServeHTTP`, `handleQuery`, `handleMutation`, `callProcedure`, `handleBatch` | router, middlewares, transformer |
| Streamed batch (`handler_stream.go`) | results channel, wait group, write error, response | one goroutine per procedure, a closer, the writing handler | `callProcedure`, `net/http` |
| Subscription pipeline (`register.go`) | the producer's channel, the bridge's channel | producer sends and closes, bridge ranges, hands over, abandons | the user's handler, both transports |
| SSE subscriptions (`handler_sse.go`) | a request: its context, its response, the last value | reject, open, select, write, return | `callSubscription`, the pipeline, an EventSource that reconnects |
| WebSocket (`handler_ws.go`) | a connection: registry `subs`, `subsMu`, `mu`; per subscription a context and deferred functions | read loop: start, stop, other, read error, sweep; per subscription: parse, register, call, stream, clean up | `callSubscription`, the pipeline, a client |
| Middleware gate (`callSubscription`) | the context the middlewares passed on | run them around a gate, then call the handler | middlewares, both transports |
| Built-in middlewares (`middleware.go`) | counters and limiters under a mutex | `RateLimit`, `RateLimitByKey`, `MaxConnectionsPerIP`, `Timeout`, authentication | every call |
| Context, errors, transformers, CORS, panel, logging, version | tables and per-request values | pure conversions and output | dispatch |
| Adapters (`pkg/adapters`), telemetry (`pkg/otel`) | configuration | start, shut down, one middleware | `net/http`, Lambda, Cloudflare, OpenTelemetry |
| Code generator (`pkg/codegen`) | procedures, merges, types, names taken | parse, resolve prefixes, map types, print | Go sources, the watch loop |
| `gotrpc` (`cmd`) | configuration, a debounce timer | generate, watch, init | code generator, file system |
| Demo chat (`examples/demo/api`) | rooms, messages, subscribers under a lock | send, list, subscribe, broadcast, unsubscribe | subscriptions |
| Demo web client, other examples | user interface, set-up code | | |

What is hard in the server is concurrency and its ends. A subscription is at least three
goroutines (handler, bridge, producer) tied by two channels and a context, and
it may end because its producer closed its channel, because its client stopped
it, because the connection went away, because the handler failed or panicked,
or because a write failed; several at once, and at any point of its start. A
WebSocket connection multiplexes many of them over one registry and one write
lock. An SSE client that is cut comes back while the server may still be
serving its old request. A streamed batch writes one JSON object from results
in any order, some of which cannot be written. Calls share the middlewares'
counters, and a call may leave each middleware by returning, being refused, or
panicking. The chat sends to channels that their owners close. The generator
repeats the router's bookkeeping by reading the source, and gives names to types
that meet in any order; its watch loop starts a generation while another may
still be writing the file.

What makes each part correct:

* pipeline: no value is lost, duplicated or reordered unless the context was
  cancelled, and nothing is left running once it was;
* WebSocket: the registry is exactly the set of live subscriptions, a stop
  reaches the subscription it names, "stopped" ends every stream, and the end
  of the connection ends everything on it;
* SSE: resumption from the last id loses and repeats nothing, and only a
  complete stream says "return";
* batch: the response is one well-formed object, complete when it is closed,
  and every goroutine ends;
* limiters: never more than the limit at once, and every slot is given back;
* calls: each procedure of a request is answered by what its own handler did,
  behind the middlewares registered for it and no others;
* chat: a room keeps its last messages in order, a subscriber that stays gets
  every new one unless its channel is full, and none twice. That subscribers
  see messages in the order of their ids is not promised: two broadcasts may
  overtake each other, and one that meets a channel that was just closed panics
  and is reported as a failed call;
* generator: the names and types a client is generated with are those the
  router serves, and the file follows the source.

## Modules

| Module | Models |
|---|---|
| `SubBridge` | the pipeline: producer, its channel, the bridge, the rendezvous with the consumer. Operators over one subscription, conjoined by the transports with their own steps |
| `SubStream` | the abstract specification of a subscription as its client sees it: asked, refused or opened, events in order, ended, and at most one error instead of the end or after it |
| `WsConn` | one WebSocket connection with its client, over `SubBridge`; implements `SubStream` |
| `SseConn` | one EventSource and its successive requests over `SubBridge`; implements `SubStream` |
| `BatchStream` | one streamed batch |
| `Calls` | concurrent HTTP requests: `ServeHTTP`, single calls, plain batches, the panel's calls, the gate of subscriptions, and the middlewares around them |
| `ChatStore` | the rooms, histories, broadcasts and subscribers of the demo |
| `Registration` | `Use`, `Merge` and the registration of procedures as `main` runs them, and the same read off the source by the generator's parser |
| `TypeMapper` | the mapping of Go types to TypeScript, with type information and without, and the meaning of both sides as JSON |
| `Watch` | `gotrpc generate --watch`: edits, events, timer, overlapping generations, the output file |
| `GeneratedNames` | `Watch` with the procedures `Registration` finds in the source a generation read |
| `Generate` | `GeneratedNames` with the text that is written of them: their types as `TypeMapper` maps them |
| `MCWsConn`, `MCSseConn`, `MCBatchStream`, `MCCalls`, `MCChatStore`, `MCGenerate` | values of the constants for TLC |
| `WsConnProofs` | the theorems about `WsConn`, and that it implements `SubStream` |
| `BatchStreamProofs` | the theorems about `BatchStream` |
| `SseConnProofs` | the theorems about `SseConn`: what its client receives, and that it implements `SubStream` |
| `CallsProofs` | the theorems about `Calls` |
| `ChatStoreProofs` | the theorems about `ChatStore` |
| `WatchProofs` | the theorems about `Watch` |
| `GeneratedNamesProofs` | the theorems about `GeneratedNames` |
| `Iteration` | that the functions by which `Registration` iterates exist; used by `GeneratedNamesProofs` |

### SubBridge

`prod`, `queue` and `bridge` are the producer goroutine, the contents of its
channel and the bridge goroutine of `Subscription`. The values a producer sends
are numbered, so a channel is a count and the number of the value in the
bridge's hands is `LastRanged`. The bridge's two waits are separate actions: in
`for v := range ch` only a value or the close wakes it (`RangeNext`,
`RangeEnds`), in the `select` only a receiver or the context (`HandOver`,
`Abandon`). An unbuffered `out` makes the hand-over one step of two goroutines;
the transport conjoins its receive.

### WsConn

Every goroutine has a control variable: `loop` for `readLoop`, `pc[g]` for the
`handleSubscriptionStart` of the subscription instance `g`. Instances are told
apart from request ids, because an id can be used again. A critical section of
`subsMu` is one step; so is a write, which takes `mu` and is whole on the wire.
`handleSubscriptionStop` is two steps (`LoopStop`, `LoopCancel`), for it calls
the cancel function after it unlocked. The deferred functions run in their
order (`WriteStopped`, `CancelSelf`, `DeleteSelf`, `WriteRecovered`), the last
only after a panic. A write blocks while the client reads nothing (`Stall`) and
fails silently once the connection is closed. `connDone` is the request's
context, cancelled when `ServeHTTP` returns. `CallFails` stands for everything
`callSubscription` may return an error for, panics included.

The client may send starts, stops and garbage up to `InboxCap` frames ahead of
the read loop, stop reading, and disconnect with frames in flight. `Patient`
and `Reuse` say what it does that the code does not survive: a patient client
stops only what was answered with "started", and one that does not reuse ids
takes a fresh one for every subscription, as `@trpc/client` does. `view` and
`got` are what it has been told: `Receive` is what a client makes of a frame, and any
frame it has no use for (a second "stopped", data after the end) makes the view
"broken", which no stream of `SubStream` ever is. The deferred recover of a panic
writes its error frame after the "stopped" of the same id; the client sees both, and
`SubStream` has the step `Fail` for it. With ids used again that frame may land on
the next stream of the id, which the contract leaves out; `stopReq` and `late` are history variables.

### SseConn

A request is one instance of the pipeline plus a handler `pc[g]`. Its producer
replays a log of `MaxEvents` events from the one after `Last-Event-ID`, as the
`messages` procedure of `examples/subscription` does; an event's number is its
id. A connection may be cut at any time, writes to it may then succeed or fail,
and the server notices later (`NoticeGone`), so that the next request overlaps
the previous one. `WriteFails` also covers the adapter's `WriteTimeout`. `Bad`
events are those `json.Marshal` refuses.

### BatchStream

The handler, one goroutine per procedure, and the closer. The response is the
sequence of tokens written. `kind` is what `json.Marshal` will make of a
result: bytes, an error, or the panic of a `MarshalJSON` method, which leaves
the handler while the goroutines still run. The fallback to a plain batch for
writers that cannot flush is outside.

### Calls

A connection serves one request after another, in its own goroutine, `pc[c]`.
`Route` is the decision of `ServeHTTP`, `handleQuery` and `handleMutation`, in
the order of their conditions; what they answer at once is `Fixed`. A call goes
in through its chain of middlewares (`depth` counts those entered) and out again
(`Unwind`), by a value, an error or a panic, and `Return` is `callProcedure`
with its `recover` and its transformer. An input the transformer cannot unwrap
(`BadEnvelope`) is refused before any middleware runs, in `Begin` for a call and in
`Route` for a subscription. A batch repeats this for each of its
items, and `Write` chooses the status before it encodes the body, as the code
does. What requests share is `counts` (`MaxConnectionsPerIP`), `limiters`
(`RateLimitByKey`), `bucket` (`RateLimit`), each changed under its own mutex in
one step, and `spare`: the elements behind `r.middlewares` into which
`callSubscription` appends. `AppendOwn` writes them and `ApplyGate` reads them,
in two steps, because that is where another goroutine gets between.
`FindLimiter` and `Allow` are two steps, because `RateLimitByKey` unlocks between
them. Of a subscription the module models the way to its channel; from there on
`SseConn` and `WsConn` do. Time is in seconds: a refill is a `Tick`, and no call
takes a second from finding its limiter to asking it. That is a bound, not a fact of
the code: with it no limiter is evicted between the two, and `KeyRate` says nothing
of a call that stands there for the whole time after which idle keys are evicted. `used` and `ran` are
history variables.

### ChatStore

A critical section of `ChatStore.mu` is one step. `SendMessage` is `Store`,
`CopySubscribers` and one `Offer` per subscriber, after the lock is gone; a send
on a channel closed meanwhile is `SendPanics`, from which `callProcedure`
recovers, so that the subscribers after it get nothing and the caller an error
for a message that was stored. Histories are Go slices over numbered arrays,
with Go's `append`, because `ListMessages` hands out a slice that is encoded
without the lock. `SubscribeRoom` looks up its room and registers under two
separate locks. The store starts empty, and `Past` bounds how much is said
before anyone listens (`PastSent`, a guard of `FindRoom`), so that histories are
trimmed under a listener without every interleaving of the messages before it.
`Without` is the loop of `Unsubscribe`: it removes the first occurrence of a
channel, and closes it only if it was there. `log`, `got` and `excused` are history
variables.

### Registration

A program is the sequence of the statements of all its packages, each with the
package it is in: `main`, and packages with a factory that fills a router `r`
and returns it. The statements are `use`, `register`, `merge`, `assign`. `Run`
executes those of one package on its routers, with `Merge` copying the child as
it is at that moment; `Made` are the routers of the factories. `Parse` is what
the generator finds: literals only, each at the position of its statement, so
that the last of several is the one with the greatest position; factories known
by the package they are called from. `Resolved` is `resolvePrefixes`: a walk up
the merges (`Up`, `Walk`) from the variable a procedure was registered on, of
several merges the last. `typed` tells `ParsePackage`, which knows import paths
and whether a call makes a router, from `ParseDir`, which knows short names and
believes every call. Procedures are known by the package's path, or by the name it
declares (`ProcedurePkg`); factory calls by the path, or by its last segment
(`FactoryPkg`), and without types only if the import is found under the name it is
used by (`ImportFound`). A package with "go-trpc" anywhere in its path is taken for
the library, and its factories are skipped (`InLibrary`), as they are in an
application kept inside the repository. `Declared` and `LibrarySegments` say which
these are. `Over` and `Put` write Go maps. What iterates over a program
is a function on the numbers, not a recursive operator, so that it can be proved
about.

### TypeMapper

`MapType` and its helpers are `mapper.go`, with its three maps as the record
`m`: definitions by qualified name, names given, owners of short names.
`MapAST` is the fallback for sources that do not type-check. The TypeScript that
results is a term, and `Meaning` expands it, through its references, to the
JSON it describes; `Shape` is the JSON `encoding/json` writes for the Go type, with its own rules of
what is promoted and what is written (`Promoted`, `Written`).
The two are compared `Depth` objects deep, so recursive structs are covered.
Text matters in three places and is modelled there: which words are left of a
type in a generated name, whether a text contains " | ", and that brackets after
an intersection bind to its last part.

### Watch, GeneratedNames and Generate

`gens` are the calls of `Generate`: the first by the command, the others each in
a goroutine of `time.AfterFunc`. `Read` loads and parses, with or without types;
`Open` is the truncation by `os.WriteFile`, `Write` its write, over what another
writer may have left. `Event` and `Fire` are the debounce timer. `Edit` is the
developer, whose edits are unseen while the watcher is not set up, and may be
unseen in directories made later. `Signal` ends the process wherever its
goroutines are. `Watch` knows of a source only if procedures are found in it
(`Routed`), and of the file what it was made of. `GeneratedNames` gives it the
programs of `Registration` and, for `Routed`, `HasProcedures`; `Generate` gives it
the text. They are modules of their own because `TypeMapper` is recursive, and
nothing that reaches a recursive operator can be proved about here.

## Runs

| Run | Instance | Shows |
|---|---|---|
| `ws_registry` | 2 subscriptions, 2 ids, no events, 2 frames in flight | `TypeOK`, `RegistryExact`, `StopCancels` |
| `ws_stream` | 1 subscription, 3 events, 2 frames in flight, fairness | `AtMostOneLate`, `CloseDrains`, `Teardown`, `StreamContract`, `StopAnswered` |
| `ws_eager_stop` | 1 subscription, an impatient client, fairness | `StopAnswered` fails |
| `ws_reused_id` | 2 subscriptions under 1 id | `StopCancels` fails |
| `sse` | 2 requests, 3 events, one not encodable, fairness | `TypeOK`, `ResumeExact`, `ReturnedComplete`, `StreamContract`, `RequestsEnd`, `StreamEnds` |
| `sse_timeout` | 2 requests under a cancelling middleware | `ReturnedComplete` fails |
| `batch_stream` | 3 procedures, fairness | `TypeOK`, `ObjectPrefix`, `CompleteObject`, `NoSendAfterClose`, `GoroutinesEnd` |
| `calls` | 2 connections, 14 requests from 2 addresses, 3 procedures with all middlewares between them, every limit 1 | `TypeOK`, `KeyRate`, `ReplyFaithful`, `SlotsGivenBack` |
| `gate_append` | 2 subscriptions behind 3 router middlewares | `OwnMiddlewares` fails |
| `chat` | 2 senders, 2 listeners, 2 rooms of 2 messages, one room made at run time, 4 messages, channels of 1 | `TypeOK`, `HistoryExact`, `ListsStable`, `NotSkipped`, `OncePerListener`, `FailsOnlyForLeavers` |
| `generate` | 6612 programs and 2 edits of 3 of them, fairness | `TypeOK`, `NamesAgree`, `ChainOrder`, `TypesFaithful`, `FallbackFaithful`, `AtRestFresh`, `EditsReachOutput` |
| `generate_types` | `Response[User]` beside `Response[[]User]` | `TypesExact` fails |

Why the bounds are enough to be interesting. Subscriptions of one connection
interact only through the registry, so two of them show every interference, and
values, which never touch the registry, are left out of that run. Three events
are one value received before a cancellation, one in the bridge and one behind
it; a fourth repeats the third. Two frames in flight let a stop overtake the
goroutine of its start. Two requests of an EventSource overlap and resume, and
a third would overlap the same way. Three procedures give a first, a middle and
a last item with any of them missing. `ChanCap` 1 covers an unbuffered channel,
whose sender stands in its send. The counters are bounded by `MaxEvents`,
`ChanCap` and `InboxCap`, each a guard of the action that counts.

For `Calls`, two connections are two goroutines at any two steps of each other,
with one slot, one token and one second of memory to compete for; a third would
wait for the same. `Capacity` is what `append` chose: Go doubles, so that two
`Use` fill an array of two and three leave one free element of four. The
requests cover every route but those that other modules continue, and every way
out of a middleware. In the chat one message more than the cap moves a history
to a second array while an older one is read, and one subscriber that leaves
while another stays is enough for a broadcast to fail between them. The programs
of `generate` are every sequence of up to three of 14 statements, every order
of four to six statements that nest routers, and of four or five that keep a
factory's router, those of four also with the factory's package under a path that
contains "go-trpc" and under one that does not end in the name it declares, imported
under an alias or not; and the pairs of types are all pairs of 21. 737 of the programs
that register a procedure meet the conditions of `NamesAgree` and `ChainOrder`,
281 of which merge routers, and 380 of the pairs those of `TypesFaithful`. Two
edits overlap two regenerations. `MaxMessages`, `MaxEdits` and `Depth` bound what
would grow.

A system that is over takes a `Terminated` or `Exited` step, and `Calls` serves
for ever, so deadlock is checked: a state in which goroutines wait for each
other would be reported. Only `chat` turns it off, where messages run out at
`MaxMessages` and listeners listen once.

### Conditions

Some properties hold under conditions, each a named definition:

* `NamesAgree` and `ChainOrder` need `Disciplined` and `NamesDistinct` programs.
  `Plain`: names and prefixes are literals, routers are held in variables.
  `FactoriesSimple`: a factory only uses and registers, and is called once, for a
  variable that stands for nothing before; and the parser can tell the packages
  apart and follows each (`Followed`): its path does not contain "go-trpc" and,
  without types, ends in the name the package declares. `MergedOnce`: every router but the one that serves is merged once, after
  its last statement. Outside them the generated names and the served ones do
  differ: `Merge` copies, while the generator walks up the merges whatever their
  order; of two merges of one child it knows the second; a factory merged without
  a variable keeps no prefix, nor does one the parser skips, because its path
  contains "go-trpc" or its import is not found; and without type information two packages of one
  short name are taken for one, so that procedures of both get the prefix of the
  router assigned last.
* `TypesFaithful` needs `Mappable` types. It leaves out instances of generic types whose
  arguments differ in brackets only (the finding of `generate_types`), untagged
  fields, which the mapper lower-cases and `encoding/json` does not, names that collide with a
  disambiguated one, embedded types that are not exported structs, of which
  `encoding/json` writes what the mapper leaves out, fields hidden by others, and
  arguments of generic types that have no name.
* `FallbackFaithful` needs `ASTMappable` types: the fallback refers to enums,
  aliases and generic instances by names it does not define, and does not see
  embedded fields. The generator warns when it is used.
* `AtRestFresh` leaves out edits the watcher did not report, writes that failed,
  and regenerations that overlapped: `Stop` does not wait for a timer function
  that has begun, so an older text may be written last, or over a newer one.

### Fairness

Liveness is checked under weak fairness of each goroutine of the server, and of
the command's loop and of each regeneration in `Generate`: a goroutine that can
run runs, and a timer that is set fires. `Calls` and `ChatStore` state none. Calls of user code return, and a producer heeds
its context (`ProducerHeedsDone`), which `docs/cancellation.md` asks of it;
`register.go` cannot end the bridge otherwise, and the `tick` producer of
`examples/subscription` does not do it while it sends. Nothing is assumed of
the client or the network, except that an EventSource reconnects and that
`net/http` notices a lost client. Which case of a `select` is taken is never
fair. Liveness conclusions are weakened by what the client may do: a stop is
answered unless the client went away or stopped reading.

## What the failing runs show

* `ws_eager_stop`: the read loop spawns the start and handles a following stop
  itself; if the goroutine has not registered yet the stop is dropped, without
  an answer, and the subscription runs on.
* `ws_reused_id`: "stopped" is sent before the registration is deleted, and
  the deletion is by id. A client that reuses the id can lose its new
  registration to the old goroutine, and its next stop with it.
* `sse_timeout`: the gate of `callSubscription` returns at once, which makes
  `Timeout` cancel the context the handler is then called with. The stream ends
  early, and with "return", so that the client does not come back.
* `gate_append`: `callSubscription` appends the procedure's middlewares to
  `r.middlewares` itself. When the array has room (three `Use` calls leave one
  element) two requests write the same element, and a subscription may run
  behind the middlewares of another one instead of its own.
* `generate_types`: the name and the key of a generic instance are built from
  its arguments' sanitized text, so `Response[User]` and `Response[[]User]` are
  one type to the mapper, and the one met second gets the other's definition.

One difference between a comment and the code has no run of its own:
`middleware.go:122` recommends `MaxConnectionsPerIP` for long-lived subscriptions,
and `callSubscription` runs the middlewares around a gate, so a running subscription
holds no slot and any number of them may run. `SlotsGivenBack` is about the calls
that are inside the middleware, and says nothing of open streams: a call is refused
only while `Limit` calls are inside, so that none that returned, was refused further
in or panicked has kept its slot, and is admitted only while fewer are.

## Proofs

`WsConnProofs` proves about `Spec`, for all finite or infinite sets of
subscriptions and ids and all bounds:

| Theorem | Property | Assumes |
|---|---|---|
| `TypeCorrect` | `TypeOK` | the constants' assumptions |
| `CancellationPrompt` | `AtMostOneLate` | the same |
| `UncancelledStreamDrains` | `CloseDrains` | the same |
| `RegistryCorrect` | `RegistryExact` | no reuse of ids |
| `StopsAreHeeded` | `StopCancels` | no reuse of ids, a patient client |
| `ImplementsStream` | `StreamContract` | no reuse of ids |

The argument goes up in layers, each an inductive invariant relative to those
below. Type correctness comes first, with the fact that a frame in the inbox is
well typed and names an instance that was sent (`InboxInvariant`), without which the spawn could disturb
a running goroutine. A cancelled context stays cancelled (`DoneStays`), which
gives the bound on late values: `late` grows only in a write whose value was
received before the priority select saw the cancellation, so the invariant says
where the goroutine stands whenever `late` is 1. For `CloseDrains` the
invariant relates the value the goroutine took last to the bridge:
`taken` is behind the bridge by the one value it may hold, and a bridge that
exited without a cancellation had a closed and empty channel. `RegistryExact`
is not inductive alone: it needs that no two instances carry one id
(`IdsDistinct`), which only holds if clients do not reuse ids, and that is
where the code needs it. `StopCancels` needs in addition that an instance whose
stream the client saw open has registered (`BegunInvariant`): a patient
client's stop is therefore never early. These assumptions on the client are
exactly what the failing runs drop.

`ImplementsStream` is the refinement. Its mapping is the client's own view, so
two facts are left to show. `ForwardInv`: the value in the bridge's hands is
newer than the last one handed over. `ViewInv`: while the connection is open,
the client's view of an id is the position of the one goroutine that serves it,
and the client never has a newer value than that goroutine; `PanicInv` adds that only
a goroutine that panicked gets to its recover, so that the error frame follows one
end, or answers a question, and is the last frame of its stream. Then each frame a
goroutine writes is a step of its stream (`HandlerRefines`), a start message is
a question, and every other step is a stutter. Two goroutines under one id
would make the view ambiguous, hence the assumption.

`BatchStreamProofs` proves about `BatchStream`, for every number of procedures:

| Theorem | Property |
|---|---|
| `TypeCorrect` | `TypeOK` |
| `ClosedAfterSends` | `NoSendAfterClose` |
| `ResponseWellFormed` | `ObjectPrefix` |
| `ClosedObjectComplete` | `CompleteObject` |

Control comes first: workers are started in order, and the closer exists only
when all were (`CtrlInv`), so the channel closes after the last send. Then each
result that returned is in exactly one place, the channel, the handler's hands
or the response, unless it could not be encoded or a write failed (`FlowInv`);
hence no key is written twice. `SyntaxInv` ties the last token written to the
handler's position and `first`, which is what makes the comma right when
results are left out. At the closing brace the channel is empty and closed, so
every result that could be written was (`CompleteInv`).

`CallsProofs` proves about `Calls`, for all sets of connections and requests, all
procedures, chains of middlewares, limits and rates:

| Theorem | Property |
|---|---|
| `TypeCorrect` | `TypeOK` |
| `SlotsCounted` | `SlotsGivenBack`, an action property |
| `RateKept` | `KeyRate` |
| `RepliesFaithful` | `ReplyFaithful` |

`CtrlInv` says where a goroutine stands in its chain: none is entered outside a
call, a middleware being asked is one it has not entered, and the elements
`AppendOwn` wrote and `ApplyGate` will read are middlewares, whoever wrote them
last. `KeyInv` ties a limiter to what was admitted, `left + used <= Rate`, and
needs that a limiter idle for a second has admitted nothing since the last
refill, which is why evicting and remaking it gives nobody a second rate, and
that a limiter somebody is about to ask cannot have been idle. `SlotInv` says that
a counter is the number of calls inside (`SlotsExact`), with the finiteness of each
such set; entering adds one pair to one set, leaving takes one, and no other step
moves any. `SlotsGivenBack` follows from the counter at the moment a call is asked.

For `RepliesFaithful` the assumption on requests says what a path gives: a call
names at least one procedure, and only a batch names several. `AnswerInv` counts
handlers and results together: while an item of a batch is in its chain every
earlier item has run one handler and left one result, on the way out there is one
handler more, and each result is what that handler's value, error or panic becomes
(`Told`), with or without a transformer to rescue a value that cannot be encoded.
Of a subscription's gate it says that only a refusal is ever answered. What the
encoder makes of a body is decided by the first result it cannot write
(`Encoded`), a least index that exists because every nonempty set of naturals
has one.

`SseConnProofs` proves about `SseConn`, for every log, channel
capacity and number of reconnections:

| Theorem | Property | Assumes |
|---|---|---|
| `TypeCorrect` | `TypeOK` | the constants' assumptions |
| `ResumesExactly` | `ResumeExact` | the handler yields tracked events |
| `ReturnsComplete` | `ReturnedComplete` | no middleware cancels the context |
| `ImplementsStream` | `StreamContract` | the constants' assumptions |

From below: the pipeline of a request has sent no more than the log holds after the
id it resumed from (`PipeInv`), and its handler is a known distance behind the
bridge. `ReadInv` then speaks of the one request whose response the client reads:
the handler has dealt with every event up to its position, each of which the client
has unless it cannot be encoded, and the last id is never ahead of that position.
`OnceInv` is the other half, that nothing beyond the last id was received. Neither
is inductive without the other: a reconnection starts the next handler at the
client's last id, which has lost nothing only if everything before it was seen,
and repeats nothing only if nothing after it was. An old request that still runs
writes to a connection that was cut, which is why the invariant is about the
current one. "return" is sent after the producer closed and the bridge drained,
and a producer that nobody cancelled closes at the end of the log. The refinement
maps the client's states to those of a stream; a reconnection is a stutter, because
the stream it continues is still open.

`ChatStoreProofs` proves about `ChatStore`, for all senders, listeners and rooms, caps,
and capacities of channels:

| Theorem | Property |
|---|---|
| `TypeCorrect` | `TypeOK` |
| `HistoryKept` | `HistoryExact` |
| `ListsKept` | `ListsStable`, an action property |
| `DeliversOnce` | `OncePerListener` |
| `ReachesAll` | `NotSkipped` |
| `FailsForLeavers` | `FailsOnlyForLeavers` |

`Registered`: a listener is in the list of its room, once, exactly while it is
subscribed, and its channel is closed exactly when it left; `WithoutProperties` shows
that `Unsubscribe` keeps this. `OnceInv` follows a message from the lock to the
channels: two messages under way have different ids, one that is stored was heard by
nobody, and one that is being sent was heard by nobody from its position in the copy
on, which holds because the copy names each listener once. `ReachInv` is the
converse: a listener that stays has heard the message, was excused, or is still ahead
in the copy. For the histories, `HistInv` says that a room's slice lies in an array
no other room uses, holds the end of the room's log, and has only unused elements
behind it. `append` into spare capacity then writes where nothing was written, and
the trim, which moves the slice's start and never its elements, leaves every list
that was handed out as it was: `ListsStable` is a statement about elements written
once, so it is proved from the same invariant with the array's growth by cases
(`OnlyFilled`).

`WatchProofs` proves about `Watch`, for all programs, drafts and numbers of edits:

| Theorem | Property |
|---|---|
| `TypeCorrect` | `TypeOK` |
| `FileIsFresh` | `AtRestFresh` |

That regenerations are bounded by edits needs a count: each generation beyond the
first, each timer that runs and each event is due to an edit of its own (`Typed`).
`FileInv` is about the last generation. An edit that was noticed has an event, a
timer that runs, or a last generation that has yet to read or read late enough
(`Covered`): this is where stopping and restarting the timer on every event matters.
If the last generation overlapped no other, the earlier ones are over and the file
is as it left it: truncated while it writes, its text when it is done (`Written`).

`GeneratedNamesProofs` proves about `GeneratedNames`, for all programs, packages,
names, prefixes and middlewares, however many and however long:

| Theorem | Property | Assumes |
|---|---|---|
| `NamesAlwaysAgree` | `NamesAgree` | programs are sequences of the four statements (`ProgramsAssumption`) |
| `ChainAlwaysOrdered` | `ChainOrder` | the same |

Two accounts of one program have to agree: the routers, filled statement by
statement and copied by `Merge`, and the walk from each registration up the merges.
The walk comes first. In a disciplined program the merge of a router stands after
every statement on it, so each step of a walk goes to a later merge, and the walk is
over after as many steps as there are merges (`WalkFine`, `WalkEnds`). Hence the
prefix of a child is its parent's prefix followed by that of its merge
(`PrefixOfChild`), and the middlewares around it are its parent's followed by its
own (`OuterOfChild`), all of which have been used by then (`UsedAtMerge`).

The invariant of the execution is about the procedures a router holds after each
statement (`Filled`): each of them comes from a registration, and its name behind
the prefix of *this* router is the registration's name behind the prefix of *its*
router; the same of the middlewares around it (`Comes`). Stated so, from the outside
in, a merge moves a procedure without disturbing it, and only a registration adds
one, whose router `Owner` is the one the parser finds, through a factory's variable
or not (`OwnerIs`). It is shown first of the routers of factories (`FactoryFilled`),
then by induction over the statements of `main`, for all its variables together
(`MainIsFilled`). Of the router that serves, which has nothing in front of it, it
says that whatever is served is served under the generated name of a registration
(`ServedComes`). That no registration was lost cannot be read off one procedure: it
follows by counting (`ServedAll`), for as many names are served as there are
registrations, so that the map from registrations to names is one to one.

These proofs are inductions over a program, which the library's theorems do not
offer here. `Iteration` shows by the least number at which it fails that the function
with a given first value and step exists over the naturals (`IterationExists`); it is
instantiated for each such function of the model. The inductions are then about sets
of numbers that have 0 and every successor (`AllNumbers`). It took rewriting
`Registration` without recursive operators, and it found that a condition was
missing: without type information packages of one short name are confused.

Only model-checked: every liveness property (`StopAnswered`, `Teardown`,
`RequestsEnd`, `StreamEnds`, `GoroutinesEnd`, `EditsReachOutput`), which are out of
the prover's reach; and `TypesFaithful` and `FallbackFaithful` of the generator. Its
type mapper is a recursive operator over types, and what it returns follows by
induction over them to the depth of `Depth`, in a state of names that grows on the
way. The failing runs refute what they check. The pipeline has no theorems of its
own: its steps occur in those of the two transports.

## Not modelled

Text: JSON, SSE and HTTP formatting, CORS headers, the panel's page, route
printing, logging, version, comments in the generator's output. Of the generator:
the second output format `generateTS`, handlers it finds only in the same file,
inline structs nested in the fallback, fixed-size arrays, recursive types that
are not structs. The playground, which maps declarations by the same mapper, and
the schema handler, which writes a list it is given. `ListRooms`, which sorts room ids as strings (room-10 before
room-2). One-shot set-up: configuration, `gotrpc init`, adapters.
Third-party code: `net/http` and `coder/websocket` appear as what the router
relies on (a context that is cancelled when the client is gone, a write that
fails on a closed connection). A message that breaks the library's size limit
makes it close the connection, which here is a disconnect. A handler that
returns a nil channel, whose bridge would wait for good, is taken for a mistake
of the user.

## Plan

1. Done: pipeline, WebSocket, SSE, streamed batch; the limiters, dispatch and
   the gate; the chat; registration, prefixes and types; the watch loop. Proved:
   every safety property of all of these but the generated types.
2. `Calls` composed with `SseConn`: the gate and the stream behind it in one
   instance.
3. `generateTS`, compared with `generateDTS`.
