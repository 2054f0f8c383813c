# A TLA+ verification project for wamp-proto

`wamp-proto` is a WAMP client library in Rust: a program creates a `Client`, which joins
a realm at a router over a WebSocket, and then publishes to topics, subscribes to them
(and gets a stream of events for each) and closes the session. This directory holds TLA+
models of the library's concurrent core and of its codec, the TLC configurations that check them, and
TLAPS proofs of the properties that matter most. Paths below are relative to the
repository (`src/...`); in `PROJECT.json` they carry the prefix of the checkout.

- [The system](#the-system) - components, state, operations, interactions, what is hard
- [The modules](#the-modules) - how state and actions correspond to the code
- [The runs](#the-runs) - what each shows, its bounds and why they are enough
- [Fairness](#fairness)
- [Where code and comments disagree](#where-code-and-comments-disagree)
- [The proofs](#the-proofs)
- [Not modelled](#not-modelled)
- [The plan](#the-plan)

## The system

| component | state it keeps | operations |
|---|---|---|
| `PollableValue` (`src/pollable.rs`) | a value behind one lock, a list of wakers behind another | `new`, `read` (registers the caller's waker), `write` (stores, then wakes and clears the list) |
| `PollableSet` (`src/pollable.rs`) | items behind one lock, wakers behind another | `poll_take`, `poll_take_any`, `drain`, `clear`, `insert`, `len`, `is_empty` |
| message buffer (`src/lib.rs`) | one `PollableSet` per kind of message, and a map from subscription id to a `PollableSet` of events | insertions by the listener, takes by the calls and streams, creation and removal of event queues |
| task tracker (`src/client/mod.rs`) | the sink behind an async mutex, a stop sender per subscription, the stop sender of the listener | `get_sender`, `track_subscription`, `stop_subscription`, `stop_all_except_message_listener`, `stop_message_listener` |
| message listener (`src/client/message_listener.rs`) | its place in the code, the item it took and the state it read for it | one spawned task: take an item of the stream, judge it by the state, buffer it or act on it (WELCOME, ABORT, GOODBYE, protocol error, network error), end |
| client calls (`src/client/mod.rs`, `src/client/ops/`) | `ClientState` (a `PollableValue`), the capabilities of the router | `new`, `subscribe`, `unsubscribe`, `publish`, `close`, `wait_for_close`, `Drop` |
| subscription streams (`src/client/ops/subscribe.rs`) | a stop receiver, the id of the event queue | `poll_next`, drop |
| transport (`src/transport/`) | WebSocket sink (one message taken and not yet flushed) and stream | `poll_ready`, `start_send`, `poll_flush`, `poll_close`; `poll_next` |
| codec (`proto.rs`, `transport/websocket/parsers.rs`) | none | parse and write messages |
| URIs (`uri.rs`) | none | strict and relaxed validation |
| ids (`lib.rs`) | a process-wide atomic counter | next session-scope id, random global id |

**How they interact.** Two tasks work on one client: the task of the program, which
polls the futures of the calls (they borrow the client mutably, so one call runs at a
time) and the message listener. They share the client's state (a `PollableValue`), the
message buffer (`PollableSet`s), the tracker (a mutex around the stop senders) and the
sink (behind a tokio mutex, which both hold across awaits). Streams may be polled by
tasks of their own. A call is `select(watch, impl)`: each poll looks at the state first
and drops `impl` when the state is not the one it needs, whatever `impl` holds or waits
for. The listener is itself inside a `select` on its stop signal, and may be dropped at
any await. There is no other thread, nothing is persisted, and no timeout is ever armed.

**What is hard.** The order of the locks in `pollable.rs` (lost wakeups); what the
listener does between two polls of a call and the other way round (events before the
queue exists, an ABORT between the creation and the registration of a stream, GOODBYEs
that cross); state that is read, acted upon after an await, and written over; futures
dropped at an await with the sender lock; replies to cancelled calls; the two ways a
session's end is written (`close` and the listener); a connection that breaks, ends
without an error, or just takes no more bytes. `PROJECT.json` lists these hazards at
their lines.

**What makes each component correct.**

- `PollableValue`, `PollableSet`: no wakeup is lost; items come out in the order they went
  in; an item that somebody wants is eventually taken.
- Tracker and sender lock: the lock is never leaked, whatever is dropped; every stream
  that lives can be stopped.
- Listener: a well-behaved router is not taken for a broken one; the end of a session
  always becomes visible in the state; it ends when told to.
- Calls: they return, with the answer to their own request, and give the lock up;
  `close` reports success only when the router has said GOODBYE.
- Streams: every event of the topic once and in order, as long as the session lasts;
  an end once it is over.
- Codec, URIs, ids: what one program publishes is what another's stream yields; an answer
  reaches the call that asked; a router that follows the protocol is understood.

## The modules

| module | models | proofs in |
|---|---|---|
| `PollableValue` | `PollableValue<T>` | `PollableValueProofs` |
| `PollableSet` | `PollableSet<T>` | `PollableSetProofs` |
| `WatchedValue`, `Mailbox` | what these two promise, without locks and wakers | (refinements, in the same) |
| `ClientShared` | what the tasks of a client share: `ClientState`, the sender lock, the sink, the tracker, the buffer, the kinds of messages | |
| `MessageListener` | `message_listener.rs` | |
| `ClientOps` | `client/mod.rs`, `client/ops/*.rs`, the streams | |
| `Router` | the router and the connection (outside the repository, from how the client uses them) | |
| `WampClient` | composition of the three, properties of the whole | `WampClientProofs` (types), `WampClientSafetyProofs` (lock, tracker, sink, session) |
| `WampClientInvariants` | the inductive invariants of the session, of requests and of events | `WampClientSafetyProofs`, `WampClientRequestProofs`, `WampClientStreamProofs` |
| `SessionLifecycle` | how the comments on `ClientState` say a session lives | (refinement, in `WampClientSafetyProofs`) |
| `EventStreams` | what `subscribe` promises of its streams | (refinement, in `WampClientStreamProofs`) |
| `Uris` | `uri.rs` | |
| `TransportableValues` | `TransportableValue`: what serde writes for it, and `json_to_tv` | `TransportableValuesProofs` |
| `Codec` | the parsers of messages in `transport/websocket/parsers.rs`, `to_json` of `proto.rs`, `RouterCapabilities` | |
| `Wire` | clients of one process and a broker that exchange frames; `Id::next` | |
| `WireInvariants` | the inductive invariant of the wire | `WireProofs` |
| `MCPollableValue`, `MCPollableSet`, `MCWampClient`, `MCWire` | instances for TLC | |

**`PollableValue` and `PollableSet`.** One action per critical section, because no
operation holds both locks: `read` is `Register` then `ReadValue`, `write` is `Store`
then `WakeAll`, `insert` is `Push` then `WakeAll`. `poll_take` that finds nothing keeps the
items locked until it has registered: `Look` and `Register`, with `Unlocked` as the guard of
whoever needs that lock. `wakers` is a set of tasks because `will_wake` keeps the list
free of doubles. `notified[t]` is what the executor owes a task. `WakeElsewhere` stands for
the other futures of the same task (`select` and `join` share a waker); `Drop` for a future
that is dropped and leaves its waker behind. An item of `PollableSet` is its kind (what
predicates tell apart) and the number of its insertion (its place in the `Vec`).

**`WatchedValue` and `Mailbox`.** The two as one would like to think of them: a variable, and
a set of items, each changed at once, with the set of the tasks that sleep. A write or an
insertion leaves nobody asleep; a task falls asleep only when there is nothing for it.
`PollableValue` and `PollableSet` implement them under the mapping `Waiting`: a task sleeps
if it has returned `Pending`, is owed no poll, and no writer that has stored and not yet drained
has it on its list: whoever is on that list is as good as awake. This is what entitles `WampClient`
to use the state and the buffers as atomic variables.

**`ClientShared`.** `state` is `ClientState`; the field of `Established` that is read
(`router_capabilities.broker`) is `broker`. `holder` and `waiter` are the tokio mutex
around the sender: it is fair and has two contenders. `unsent` is the slot of the
WebSocket sink: `start_send` fills it, `flush` or the next `poll_ready` empties it, and
neither can while the connection is `stalled`. `tracked[t]` is the stream whose stop
sender is in `subscriptions`, `streams[r].stop` says that the other end of that channel is
ready (it was sent to, or its sender was dropped). `received` holds the replies in the
message buffer, `queue[t]` the event queues; `hasQueue` their keys. A `PollableSet` is
represented here by its contents, and its waiters by "the poll may go on": that this is
what the two-lock implementation provides is what `PollableSet` checks. Payloads, URIs,
options and ids without influence on control are left out; a subscription id is the
topic, since a broker gives one session's subscriptions to one topic the same id.

**`MessageListener`.** `lpc` follows `message_listener_impl` from await to await and from
shared access to shared access. `LRecv`, `LRecvError`, `LRecvNone` are the three results
of the stream; with the item the state is read (line 56), so `LProcess` judges by the
state of then: `Verdict` is `process_stream_value` and `process_message`. GOODBYE
while established reads the state a second time (`LGoodbye`), and writes it later
(`LClosing`). `LStop` is the stop signal: the listener dropped at an await, with the lock
or its place in the queue.

**`ClientOps`.** `upc` is the place in the call under way, `op` which call. `SelectPCs` are
the awaits inside `select(watch, impl)`. A poll is `UPoll` (the state is good; `polled`
becomes true), then the steps `impl` can make without waiting (`URequest`, `USend`,
`UFlush`, `UReply`, `UAddQueue`, `UTrack`, ...), then `UPend`; or it is `UWatchFails`. What
the listener does between two steps of one poll is thus interleaved with them, and `watch`
looks at the state only where the code does. In `poll_next` of a stream the look at the
stop signal and the one at the queue are one step. `UCancel` drops the future of a call between
two polls. `UBeginSubscribe` keeps, unless an instance allows `"resubscribe"`, to topics
without a queue: the two-streams-one-topic case has runs of its own.

**`Router`.** Answers each request once and in order, sends EVENTs to subscribers, says
GOODBYE at most once. `session` tells a session that the router left with a GOODBYE (`"closing"`
until it is answered, then `"left"`) from one that ended without (`"aborted"`). What else it and the network may do is chosen per instance by
`RouterMay`:

| `RouterMay` | |
|---|---|
| `refuse` | ABORT instead of WELCOME, ERROR instead of SUBSCRIBED, UNSUBSCRIBED |
| `noBroker` | WELCOME without the broker role |
| `goodbye`, `abort` | ends the session of its own accord |
| `garbage` | sends something that does not parse (its last word) |
| `silent` | leaves a message unanswered |
| `end` | the stream ends without an error in mid-session |
| `reset` | the connection breaks; what is on the way may be lost |
| `stall` | the connection stops and resumes taking bytes |

and `UserMay` lists what the program does: `subscribe`, `unsubscribe`, `publish`,
`close`, `wait`, `drop`, `cancel`, `dropStream`, `resubscribe`.

**`SessionLifecycle` and `EventStreams`** are the client seen from outside, each implemented by
`WampClient` (`ImplementsLifecycle`, `ImplementsEventStreams`). The first keeps of the listener only
how far it has come (`ListenerProgress`) and of `close` only whether it is under way, and says
who may write which state from where. The second keeps of a stream its topic and the number
of the event it yielded last: `Open` once, `Yield` the next event and no other, `Close` for good,
in sessions that end anyhow. It assumes that a program does not subscribe twice to
one topic (see below), which is why it is checked without `"resubscribe"`.

**`Uris`.** A text is the sequence of the kinds of its components (empty, plain, the reserved
`wamp`, with other characters, with white space or `#`). The two regular expressions become
predicates on these kinds. `WellFormed` is what the comment on `Uri` says and a broker is
taken to accept. `MCWire` compares the three over every text of up to three components.

**`TransportableValues`.** JSON values and `TransportableValue`s are tagged tuples; an object or
dictionary is the set of its members, a number that is no `u64` just `"number"`. `serialize` and
`json_to_tv` are written one level deep: where the code calls itself, and where other modules call it,
stand the parameters `ToJson` and `FromJson`. `MCWire` closes the two recursions
(`MCFromJson` is `json_to_tv`); for the proofs `JsonAssumption` and `ValuesAssumption` do, over the sets
`Json` and `Values` of the values at hand with all their parts. `Represents` says what a value has to keep of the JSON it
was read from; it descends through `Says` in the same way.

**`Codec`.** There is one operator per parser, with the checks in the parsers' order folded into one
condition, since they all end in the same `ParseError`.

**`Wire`.** The composition: programs call `subscribe`, `unsubscribe`, `publish` and `close`, drop
the future of a call, and hear what their streams yield; frames are JSON in both
directions; the broker reads and writes them by position. `next` is the process-wide counter
with `IdRange` for `usize::MAX + 1`, and `MaxId` for `MAX_ID_VAL`. Receiving a frame is one step
with what the waiting call or stream makes of it (`HearSubscribed`, `HearEvent`, ...): the steps
between are `WampClient`'s. `Misread` is a frame that does not parse, `Refuse` a message out of
place; both fail the session. The broker may write trailing empty arguments or leave them
out, add details to WELCOME, give any reason, send frames of extensions (`Skip`), and forward
JSON of publishers that do not use this library (`RForeign`).

## The runs

Bounds: `MaxReq` session-scope ids (subscribe, unsubscribe and publish take one each),
`MaxEvents` EVENTs per topic, `MaxClose` calls of `close`, `MaxItems` insertions. Deadlock is
not checked: a client that is gone, and a program that calls nothing any more, stop
rightly. What must not stop is stated as liveness instead.

| run | bounds | shows |
|---|---|---|
| `pollable_value` | 3 tasks with different wishes, 2 writers, 3 values | `IInv` (types, registration), `NoLostWakeup`, `EventuallyServed`, `ImplementsWatchedValue` |
| `pollable_set` | 3 tasks with overlapping predicates, 2 inserters, 2 items | `IInv`, `NoLostWakeup`, `TakesInOrder`, `EventuallyTaken`, `ImplementsMailbox` |
| `client_pubsub` | 2 topics, 3 requests, 2 events per topic; cancellation, dropped streams, refusals, silence | `TypeOK`, `NoEventLost`, `StreamBacked`, `StreamMatchesRequest`, `PubSubInv`, `ImplementsEventStreams` |
| `client_shutdown` | 1 topic, 2 requests, 2 closes; every end of a session, drop, cancellation, resubscription | `LockInv`, `TransportClosedMeansClosed`, `CloseOkMeansGoodbye`, `EstablishedHasListener`, `StreamsCanBeStopped`, `SessionInv`, `AskInv`, `ImplementsLifecycle` |
| `client_requests` | 1 topic, 2 requests, 1 event; goodbye, abort, reset, garbage, refusals; wait, drop | `RequestsResolve`, `ResetReported`, `DropStopsAll`, `EventsDelivered`, `FailedNewLeavesNothing` |
| `client_close` | 1 request, 2 closes; abort, reset, garbage | `CloseResolves` |
| `client_stall` | 1 topic, 2 requests, 2 events; a connection that may stall for ever; cancellation, drop, resubscription | `LockInv`, `StateChangeFreesRequests`, `OrphanedListenerEnds`, `NeverTwiceNorLate` |
| `wire` | 2 clients, 2 requests, 1 publication, 2 topics (one the broker refuses), 2 subscription ids; counter from 3 or 7 of 8, `MaxId` 4 | `TypeOK`, `BroadcastsArriveIntact`, `ForeignArgumentsRead`, `AnswersReachAsker`, `WireInv`, `ConformingRouterUnderstood`, `CapabilitiesMatchRouter` |

*Why the bounds are enough.* The predicates of the calls compare one request id and one
topic with what is in the buffer: a confusion needs a stale reply and a request that
could take it, hence two or three requests, and two topics to tell streams apart.
`client_shutdown` has no EVENTs: it checks properties that an event reaches only
through the protocol error it causes, and `garbage` causes the same one. Two requests and two
events let a second stream of a topic take over the queue between two events, before both or
after both (`NeverTwiceNorLate`). Three
requests make subscribe, unsubscribe, subscribe possible on one topic. Two events
distinguish a lost one from a late one, and show order. Two closes are needed because
the second meets what the first left. The lock has two contenders in the program itself.
For the two pollables, three tasks let one take what wakes another while a third is
registering; the theorems lift their safety properties to any number. Symmetry of topics
is used in `client_pubsub` only, which checks no liveness.

In `wire` the counter is started where earlier clients of the process may have left it: from 3
both requests have ids the parsers accept, from 7 the first is above `MAX_ID_VAL` and the second
is 0, after the overflow. Two requests let one be cancelled before the other asks, or a
client publish what the other subscribed to; the clients are symmetric. The values published
hold every type, nested and empty; the foreign ones hold values without a type first,
between others, alone in a list, and in nested objects. One publication is enough since the
order of events is the subject of `WampClient`. Extensions' frames come only before the
first request; `WELCOME` always has the same extra details, chosen to mislead.

*What a property says, in one line each.*

- `NoLostWakeup`: who sleeps without an owed poll, though there is something for it, is on
  the list of a writer that has yet to drain it.
- `NoEventLost`: while the session lasts, a live stream's queue holds the events after the one it
  yielded last, and on the wire (`InFlight`) are those after the queue's, each topic's in the
  order they were sent.
- `SessionInv`, `AskInv`, `PubSubInv`, `WireInv`: the inductive invariants behind the proofs, see
  [there](#the-proofs). `client_shutdown`, which allows `"resubscribe"`, checks the first two.
- `StreamBacked`: a stream that was not told to stop has a queue and a subscription.
- `StreamMatchesRequest`: `subscribe` returns the stream of its own request.
- `StreamsCanBeStopped`: the tracker holds the stop sender of each such stream.
- `LockInv`: who holds or waits for the sender lock is where the code goes on to release it.
- `TransportClosedMeansClosed`: the state says so only after the sink was closed.
- `CloseOkMeansGoodbye`: `close` succeeds only if the router said GOODBYE. An ABORT of either
  side, garbage or a broken connection is no acknowledgement, though the state they lead to, `Closed`,
  is one that the watch of `close` lets pass. (A GOODBYE kept from a cancelled `close` counts.)
- `EstablishedHasListener`: no path out of the listener leaves `Established` behind,
  except the end of the stream without an error (see the finding).
- `RequestsResolve`, `CloseResolves`, `ResetReported`, `DropStopsAll`,
  `StateChangeFreesRequests`: what must eventually happen.
- `EventsDelivered`: an event that was sent while its stream lives is yielded, unless the stream or
  the session ends. `FailedNewLeavesNothing`: the listener of a failed `new` ends by itself.
- `OrphanedListenerEnds`: the listener of a cancelled `new`, which no handle can stop, still ends when
  the router or the network ends the session, unless its own last message cannot be written.
- `ImplementsWatchedValue`, `ImplementsMailbox`: the two locks and the list of wakers cannot be told
  from an atomic variable and an atomic set.
- `ImplementsEventStreams`: no stream ever skips, repeats or reorders, whatever ends around it.
- `NeverTwiceNorLate`: what a stream yields has not been yielded before and is not older than what has,
  by no stream of its topic, dead or alive, and also where streams share the topic's queue.
- `ImplementsLifecycle`: a session opens once, ends once on the router's side, and nothing but
  `close` or the listener that ended it writes `TransportClosed`.
- `BroadcastsArriveIntact`: what a stream yields of another client's publication is what that client
  published to this topic. `ForeignArgumentsRead`: of JSON from elsewhere, a value without
  a type costs only itself. (Its place in a list goes too: later arguments move up.)
- `AnswersReachAsker`: each event queue has the subscription id that the broker gave to the topic
  the call asked for.
- `ConformingRouterUnderstood`: only an id above `MAX_ID_VAL` or a reason with an empty component
  makes a conforming router's frame unreadable.
- `CapabilitiesMatchRouter`: a client knows just the roles that its router offered.

Each property of a passing run has a mutant of the code's model (`PROJECT.json`,
"mutants") under which the same run finds it violated; the mutants stand beside the
definitions they change.

## Fairness

`FairSpec` assumes weak fairness of the program's steps, of the listener's, of its stop
signal, of each stream's reader and of the router's answers. The code justifies it so:
tokio polls every task that was woken, and `PollableValue` and `PollableSet` show that a
task whose condition holds was woken; tokio's mutex is fair. *No* fairness is assumed of
what the program begins, of cancellation, of EVENTs, of the end of a session or of the
network: all of these may never happen, and a stalled connection may stay so. That a
router answers is an assumption about the environment, and the run
`subscribe_silent_router`, whose router may stay silent, shows that the code relies on it.
`PollableSet` needs strong fairness of a task's `Look` and `Take`: the lock around the items
is not fair, so all that can be asked is that a task that keeps getting the chance
gets the lock. In `PollableValue` no action waits for another's lock and weak fairness
is enough.

## Where code and comments disagree

Four disagreements are runs in which TLC must find a counterexample:

| run | the repository says | what the code does |
|---|---|---|
| `event_before_queue` | `Failed` means that the router broke the protocol | an EVENT right behind SUBSCRIBED finds no queue yet, and the session fails |
| `subscribe_silent_router` | `subscribe` resolves within the timeout | no timeout is armed; `close` is the same |
| `abort_during_subscribe` | on ABORT all tasks are stopped | a stream registered after that is never stopped |
| `crossing_goodbyes` | `close` resolves when the router acknowledges or errs | the router's GOODBYE, judged by the old state, is dropped, and `close` waits for ever |

More can be read off the model, and explain what the properties and instances exclude:

- Events that are on their way when `close` is called are answered with ABORT and
  `Failed` (`Verdict`), where the comment on `close` says that they are ignored.
- The listener returns on the end of the stream and leaves the state as it is
  (`LRecvNone`): `EstablishedHasListener` excepts `conn = "end"`, and `client_requests` and
  `client_close` have no `"end"`.
- A second `close` writes `ShuttingDown` over `TransportClosed` (`UBeginClose` has no guard on
  the state), and the listener goes on after `close`: a reset that comes later moves the
  state again. So `TransportClosedMeansClosed` speaks of the sink, and not of the state
  being final.
- Subscribing twice to a topic replaces the first stream's queue (`UAddQueue`), so
  `client_pubsub`, which checks `NoEventLost`, has no `"resubscribe"`; `client_shutdown` and
  `client_stall` have. No event comes twice then either (`NeverTwiceNorLate`).
- `close` and the router's own GOODBYE may cross, as above: `client_close` has no
  `"goodbye"`. `client_requests`, `client_stall` and `client_shutdown` have.
- The comment on `Uri` permits empty components in the middle. `strict` accepts them, and also
  at both ends (its test wants `".."`); `relaxed`, by which every received reason is judged,
  refuses them everywhere, so that an ERROR with the reason `com..failed` ends the session
  (`Misread`). Both accept the reserved `wamp.` (their tests want `"wamp.f"`).
- Session-scope ids are said to count from 1 (`lib.rs`, `SessionScope`); they count from what
  the process has used before (`TakeId`). `Id::next` counts to `usize::MAX`, and `parse_id` refuses
  the answer to any id above 2^53.
- `parse_message` has no case for PUBLISHED or the RPC messages, so the branches of
  `process_message` that buffer them cannot be reached over a WebSocket (`Skip`).

`NoEventLost` speaks of sessions that last, so that `event_before_queue` (which ends the
session) is a finding of its own.

## The proofs

All theorems hold for every value of the constants that satisfies the modules' named
assumptions. `ValueAssumption`, `SetAssumption`, `ClientAssumption` and `MaxIdAssumption` only say
what kind of value a constant is. The others say what recursion means and what the proofs of `Wire` need of the world around it:

| assumption | says | because |
|---|---|---|
| `CounterAssumption` | no instance takes more ids than the counter has | it would take a program of 2^64 requests; ids may be taken from any point of the counter, across the overflow |
| `RouterAssumption` | the router's ids are natural numbers, its reasons have no characters that the protocol forbids | a router that follows the protocol |
| `JsonAssumption` | on `Json`, `FromJson` is `json_to_tv`; the parts of a value (the first of an array and the rest of it, the values of an object) are in `Json` and of smaller `Size`; no name comes twice in an object | the function calls itself; serde_json's values are finite trees, and its objects are maps |
| `ValuesAssumption` | on `Values`, `ToJson` is `serialize`; the parts of a value are in `Values`, what is written of it is in `Json` | the same of `TransportableValue`: its five types and no other |
| `SaysAssumption` | on `Json`, `Says` is `Represents` | closes the recursion of a property, not of code |
| `PayloadAssumption` | what programs and other publishers send is a list and a dictionary | `publish` takes a `Vec` and a `HashMap`; PUBLISH is a list and an object for everyone |
| `DetailsAssumption` | the details of WELCOME are such a JSON value | with `JsonAssumption`: what a router adds is not named `roles` |

Nothing is assumed of what the conversions compute: that reading undoes writing, and what it keeps of foreign
JSON, are theorems. `TLC` evaluates all of these for the values of the run `wire`, where the sets are what is
published there with all its parts.

| theorem | says |
|---|---|
| `PollableValueProofs!TypeCorrect`, `Invariance`, `WakeupsAreKept` | types; `IInv`; `NoLostWakeup` for any number of tasks and writers |
| `PollableValueProofs!ImplementsAbstract` | `ImplementsWatchedValue` |
| `PollableSetProofs!TypeCorrect`, `Invariance`, `WakeupsAreKept`, `FirstAddedFirst` | types; `IInv`; `NoLostWakeup`; `TakesInOrder` |
| `PollableSetProofs!ImplementsAbstract` | `ImplementsMailbox` |
| `WampClientProofs!TypeCorrect` | `TypeOK` of the composed client |
| `WampClientSafetyProofs!LockNeverLeaked` | `LockInv` |
| `WampClientSafetyProofs!StreamsStayStoppable` | `StreamsCanBeStopped` |
| `WampClientSafetyProofs!ClosedAfterSink` | `TransportClosedMeansClosed` |
| `WampClientSafetyProofs!SessionInvariance` | `SessionInv` |
| `WampClientSafetyProofs!CloseHeardGoodbye`, `ListenerStays` | `CloseOkMeansGoodbye`; `EstablishedHasListener` |
| `WampClientSafetyProofs!LifecycleImplemented` | `ImplementsLifecycle` |
| `WampClientRequestProofs!AskInvariance`, `StreamsMatch` | `AskInv`; `StreamMatchesRequest` |
| `WampClientStreamProofs!StreamsBacked` | `StreamBacked`, without `"resubscribe"` |
| `WampClientStreamProofs!PubSubInvariance`, `EventsKept` | `PubSubInv`; `NoEventLost`, without `"resubscribe"` |
| `WampClientStreamProofs!EventStreamsImplemented` | `ImplementsEventStreams`, without `"resubscribe"` |
| `WampClientStreamProofs!NoneTwiceNorLate` | `NeverTwiceNorLate`, with `"resubscribe"` too |
| `TransportableValuesProofs!RoundTrip` | `json_to_tv` undoes `serialize` for every `TransportableValue` |
| `TransportableValuesProofs!ReadFaithfully` | what `json_to_tv` makes of any JSON value that has a type `Represents` it |
| `WireProofs!WireInvariance`, `TypeCorrect` | `WireInv`; `TypeOK` of `Wire` |
| `WireProofs!AnswersReach` | `AnswersReachAsker` |
| `WireProofs!BroadcastsIntact`, `ForeignRead` | `BroadcastsArriveIntact`; `ForeignArgumentsRead` |
| `WireProofs!RouterUnderstood`, `CapabilitiesMatch` | `ConformingRouterUnderstood`; `CapabilitiesMatchRouter` |

*The pollables.* `NoLostWakeup` alone is not inductive: a write can make a sleeping task's
knowledge stale, so one has to know that the task is on the list by then. `Registered`
says so (a task without an owed poll is registered from `read` on, and only `WakeAll`,
which gives it an owed poll, takes it off), and for the set also that a task which found
nothing still finds nothing while it holds the lock. `Numbered` (item numbers are
distinct and count insertions) carries `TakesInOrder`. The conjunction is `IInv`, which
the runs also check.

*The refinements.* Each step of a pollable maps to a step of its abstract specification or to a
stutter (`StepImplements`, one case per action): `ReadValue`, `Look` and `Take` are where a task finds
something or falls asleep; `Store` and `Push` are where the value or item is there, and
since those on a list about to be drained no longer count as waiting, where everyone wakes;
`WakeAll` is a stutter. `IInv` is what makes a task that falls asleep one that has nothing there.

*Types of the client.* `TypeOK` is not inductive either: that a call may take the next id
needs the bound (`RequestInv`, `PublishInv`), that `UStopAll` belongs to `close` needs
`CloseInv`, and that a SUBSCRIBED or WELCOME was judged before it is used needs
`StreamInv`, `MadeInv` and `WelcomeInv`. `TypeInv` joins these with the types; the proof
goes by groups of actions, and `Frames` says that a group of variables that does not
change keeps its part.

*The lock.* `LockInv` is inductive given the lock's own type, except for `new`: a
spawned listener cannot exist before `new` spawned it (`SpawnInv`). The four lemmas
`UserAsks`, `UserLeaves`, `ListenerAsks`, `ListenerLeaves` are the four ways the lock is
touched; each action is one of them or leaves lock and places alone.

*The streams.* Only `UTrack`, `UUntrack`, `StopAll`, `UReply` and the streams' own steps touch
tracker or streams; the argument is that whoever takes a stop sender out of the
tracker makes its stream ready to end (by sending, or by dropping the sender).

*The sink.* `ClosedInv` adds that the two places which write `TransportClosed` (`LFinal` and
`UWriteClosed`) are reached only with the sink closed, and that no one reopens a sink.

*The session.* That `close` succeeds only after a GOODBYE depends on where a GOODBYE can be.
`ByeInv` treats the router's one GOODBYE as a token: on the wire, with the listener
(`ByeAtListener`), kept in the buffer, or found by `close` (`Acked`), and in one of these
places only; unless the router has said it, which an aborted session never does, it is in none. `JoinInv` does the same for the one
WELCOME, and adds that nobody but the listener acting on it takes the state out of
`Establishing`. `CallInv` says which call each place of the program belongs to, `StateInv`
what the state can be given the places of the listener and of `close`. Together they are
`SessionInv`. `LifecycleImplemented` uses it for the writes that look at nothing: `LWelcome`
must find `Establishing` to be a `Join`, `LClosing` and `LFinal` must not reopen what
`close` has shut, `UWriteClosed` must come from a `close` that is under way.

*Requests.* `StreamMatchesRequest` needs that a call cannot find an answer that was meant for a
cancelled one. `AskInv` says why not: the ids of what is written to the router increase along
the wire (`Increasing`), and every answer on the wire, with the listener or in the buffer is
older than every request that the router has yet to meet (`RepliedInv`). So the
answer with a call's own id is the answer to that call, and `asked` tells its topic.

*Events.* `TopicInv`: a topic with a live stream, a call that is subscribing to it or one
that is leaving it has just this one user, its queue exists, and the broker sends it. `WireInv`: what
comes is in order, and behind a SUBSCRIBED there are exactly the events sent since. `FlowInv`
ties both to the streams: what a stream yielded last and its queue count on without a gap,
up to a number that is in `Heard`: the events after it, and no others, are on the way. (Once the
listener has stopped reading, `Heard` asks nothing, and the session does not last.) A subscribe
call carries such a number from SUBSCRIBED on, which is the step that the theorem turns
on: while the queue is missing, an event of the topic would end the session, so if the
listener still reads when the queue is there, none has come. `NoEventLost` follows, and so does
the refinement: a stream's next `Yield` is `last + 1`.

The theorems of `WampClientStreamProofs` but the last assume `"resubscribe" \notin UserMay`, that the program subscribes only to
topics it has no queue for. It is a statement about the program and not about the library, and it is
needed: a second subscribe to a topic replaces the queue with an empty one and drops the first
stream's stop sender, so that the first stream loses what was queued (see
[above](#where-code-and-comments-disagree)). The run `client_pubsub` and the abstract
specification `EventStreams` have the same restriction. All other theorems hold without it.

What is left of the order of events then is `NeverTwiceNorLate`, and `OrderInv` is why it holds of every
program. `Passed[t]` are the numbers that nothing on its way is at or below: a SUBSCRIBED that was taken in, what is
queued and what a stream has yielded are among them, and they only ever become more, so that the
next event the listener queues comes after them all. A queue rises (`Rising`), and it
follows (`Follows`) what any stream of the topic has yielded, whichever stream that was, because
who yields takes the first; a stream whose queue is about to be made is excepted, and
then the queue is empty. `OrderInv` needs `WireInv`, which therefore is proved for every program
as well.

*The values.* Both theorems are by induction on `Size`: of the values for which a statement fails there
is one of least size (`PartsInduction`, from the library's `WFMin`), and the statement of its parts
gives that of itself. An array goes down to its first value and the array of the others, as the iterator of
`json_to_tv` does; what has to be carried along is that an array becomes a list, so that
`None` comes only of what has no type (`ReadNone`) and nothing else is left out. For `ReadFaithfully` the places of the
kept values are a map into the array which grows by one at its head (`SaysArray`).

*The wire.* `FrameInv` says which frames there can be at all, and the lemmas about `parse_message`
what each of them parses to. That is enough for `RouterUnderstood`: the only frames of
`FromRouter` that are refused have an id above `MaxId` or a reason with an empty component. For
the rest, a frame has to be tied to what it is about. The ids that `TakeId` has given out are the
last `made` of the counter (`Taken`), modulo `IdRange`, so the next one is fresh as long as the
counter has not gone round: no SUBSCRIBE or SUBSCRIBED of an earlier call, cancelled or not, has the id of the
call that waits now, and the one that has it is for its topic (`AskedInv`). `SpreadInv` follows a
publication: a PUBLISH carries what the program said, the broker's record of it the same
(`Backed`), an EVENT or what was heard of it what reading makes of that record, under the id of its topic, and
no two topics share an id. `RoundTrip` closes the circle for what a client published, also in an EVENT that leaves
out empty arguments, and `ReadFaithfully` for what came from elsewhere. `JoinInv` says that there is one HELLO and one answer to it and that the broker
is silent before, so that a WELCOME is only ever read in `"joining"` and says what this router offers.
`WireInv` joins the four.

*Only model-checked.* Liveness (`EventuallyServed`, `EventuallyTaken`, `RequestsResolve`,
`CloseResolves`, `ResetReported`, `DropStopsAll`, `StateChangeFreesRequests`, `EventsDelivered`,
`FailedNewLeavesNothing`, `OrphanedListenerEnds`): fairness and
`ENABLED` are out of the proof system's reach. The comparison of `Relaxed`, `Strict` and `WellFormed` in
`MCWire` is evaluated for texts of up to three components. Every
invariant and every action property of the passing runs is a theorem, and so is every refinement.

## Not modelled

- **RPC** (`call`, `register`, `unregister`): commented out in the source; the listener
  only files their messages, which no parser produces and nobody reads. So is PUBLISHED,
  which `publish` does not ask for. `to_json` of the RPC messages and of ERROR is never called.
- **The syntax of JSON and of WebSocket frames**: serde_json's and tungstenite's. The models
  start from a JSON value, and `"binary"` for a frame without text. `WampClient` takes messages
  as already parsed, with parse failure as the item `GARBAGE`.
- **`Id::generate`** and deserialized ids: not used by the client.
- **Connecting** (`Transport::connect`): happens before there is a client.
- **Errors** as values: the models tell ok, failed and rejected apart.
- **Timeouts**: none is armed by the code (see `subscribe_silent_router`).
- **Panics on poisoned locks**: the sync locks are held only around code that does not panic.
- **A router that breaks the protocol** other than by garbage: a second WELCOME or
  SUBSCRIBED. A WELCOME that comes while `close` is under way would write `Established` over
  `ShuttingDown`; nothing says what it should do.
- **Two clients in `WampClient`**: clients share nothing but the id counter, which `Wire` has.

## The plan

Done, in this order: `PollableValue` and `PollableSet` with proofs; `ClientShared`,
`MessageListener`, `ClientOps`, `Router` composed in `WampClient`; the type invariant, the lock,
the streams and the sink proved; `Mailbox` and `WatchedValue` with the refinements proved;
`SessionLifecycle` and `EventStreams` with the refinements checked; `Uris`, `Codec` and `Wire`;
the session, the requests and the events of `WampClient` proved, with both refinements; `Wire`
proved; the conversions of values proved, and with them all that the runs check but liveness;
the order of events where streams share a topic.

What is left unsaid: with `"resubscribe"`, which of the streams of a topic gets an event, and which
events none of them gets.
