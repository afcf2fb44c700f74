# A verification of humus in TLA+

[humus](https://github.com/z5labs/humus) is a Go framework for REST servers,
gRPC servers, jobs and queue consumers. The largest part of its own logic is
the Kafka runtime of `queue/kafka`: an event loop that follows the rebalances
of a consumer group and gives every assigned partition a pipeline of goroutines
with at-least-once or at-most-once delivery. The others are the two server
applications with the gRPC health service and its monitors, and, among the
examples, a shopping cart whose store makes several statements a request. This
directory models these, model-checks them with TLC and proves their safety
properties with TLAPS.

    tlc -config AtLeastOnce.cfg MCAtLeastOnce.tla
    tlapm AtLeastOnceProofs.tla

Paths below are relative to the repository.

## Inventory

| Component | State it keeps | Operations | What makes it correct |
|---|---|---|---|
| Partition runtime, at-least-once (`queue/kafka/runtime.go`, `at_least_once.go`) | two unbuffered channels, the fetch and the records in three goroutines; the group's offset at the broker | `consumeFetches`, `processFetches`, `acknowledgeRecords` | the committed offset covers handled records only; order; a closed channel drains; a cancellation ends everything; duplicates are few |
| Partition runtime, at-most-once (`runtime.go`, `at_most_once.go`) | the same channels, one goroutine per record | `consumeFetches`, `acknowledgeFetchs`, `processRecords` | no record starts twice or before its commit; what can be lost is bounded; the runtime waits for its goroutines |
| Event loop (`event_loop.go`) and `Runtime.ProcessQueue` (`kafka.go`) | table from partition to channel, the pool of runtimes, the poller, four unbuffered channels, the client's callbacks | `tick`, `handleAssigned/Lost/RevokedPartition`, `handleFetch`, `shutdown`, `fetchRecords`, the three callbacks | no send on or second close of a closed channel; no channel forgotten; order within an assignment; callbacks return; the client is closed last |
| Kafka options (`kafka.go`) | configuration | `With...`, `NewRuntime` | sequential |
| `queue` (`queue/queue.go`) | none | interfaces, `App.Run` | `ErrEndOfQueue` ends a consumer without an error |
| Health monitors (`health/health.go`) | an atomic flag each | `MarkHealthy`, `MarkUnhealthy`, `And`, `Or` | what a composite answer means while the parts change |
| gRPC health service (`internal/grpchealth/server.go`) | monitors by service under a mutex, a poll loop per watcher | `MonitorService`, `Check`, `Watch` | a watcher learns every lasting change, from the monitor its name has; streams end |
| Server applications (`internal/grpcserver`, `internal/httpserver`) | a server and two goroutines | `Run` | `Run` returns after both goroutines, with the right error and no call open |
| gRPC API (`grpc/api.go`) | registrations | `RegisterService` | a service is watched under its name |
| REST wiring (`rest/rest.go`, `rest/tls.go`) | configuration | `Run`, options, the choice of a certificate | sequential |
| Job (`job/job.go`), logger (`humus.go`), telemetry (`otel.go`, `slog.go`) | none | one call each | - |
| Shopping cart example (`example/rest/shoppingcart`) | two tables in PostgreSQL | six store operations, several statements each, no transaction | a request takes effect at one instant; what failed statements leave behind |
| Pet store example (`example/internal/pet`) | a map under a mutex | `Register` | it returns |

How they interact. `queue.App.Run` calls `Runtime.ProcessQueue`, which creates
the client (franz-go, with automatic commits off) and starts the poller and the
loop. The client calls back on a rebalance, in a goroutine of its own; each
callback sends the loop one partition after the other. The poller sends the
loop what it polled, the loop sends each partition's fetch to the channel of
its runtime. A runtime commits through the client. The application's context
reaches every goroutine and every select. A gRPC `Api` registers the health
service on its server and, for each service that is a `health.Monitor`, its
monitor; `grpcserver.App.Run` serves it, and its stop waits for the open calls,
the `Watch` streams among them. The routes of the shopping cart call the store,
one operation a request; the store shares nothing but the database.

What is hard in this: five kinds of goroutines meet on unbuffered channels
only, and each of them may be at any place when the context ends, a partition
is revoked, a commit fails or the Processor panics; the group's offset outlives
all of it, and so may a runtime that was revoked. A server may be stopped
before it serves, or fail while it stops; a monitor changes while it is read;
and the store's statements interleave without a transaction. `PROJECT.json`
lists these hazards at their lines, with the properties that are aimed at each.

## The modules

| Module | Models |
|---|---|
| `ConsumeFetches` | the first goroutine of both pipelines, its two channels, cancellation and close |
| `AtLeastOnce` | extends it: the at-least-once pipeline, the Processor, the broker's offset, crashes and later sessions |
| `AtMostOnce` | extends it: the at-most-once pipeline |
| `AtLeastOnceDelivery`, `AtMostOnceDelivery` | what each kind of delivery promises, without goroutines or sessions; the pipelines are shown to implement them |
| `EventLoop` | the loop, the poller, the callbacks, the client's membership, and the runtimes as queues that handle and commit in order |
| `ConsumerGroup` | one partition and the runtimes its successive owners give it, the revoked ones included, as positions in the partition |
| `ServerApp` | `App.Run` of both server packages: its two goroutines, the error group, the open calls |
| `GrpcApi` | extends it: `RegisterService`, the health rpcs, the monitors and the parts they combine |
| `CartService` | what the shopping cart promises: a map whose requests take effect at one instant |
| `CartStore` | the routes and the statements of the store; shown to implement `CartService` |
| `AtLeastOnceClaims`, `AtMostOnceClaims`, `EventLoopClaims` | what documentation says and the code does not do |
| `MC...` | the instances TLC checks |
| `AtLeastOnceProofs`, `AtMostOnceProofs`, `EventLoopProofs`, `EventLoopOrderProofs`, `ConsumerGroupProofs`, `GrpcApiProofs`, `CartStoreProofs` | the theorems |

**State and steps.** A record is its offset, a fetch the interval `first ..
next - 1` of offsets: the broker hands out a partition's records in order, and
a fetch may be empty. An unbuffered channel has no contents, so a send and its
receive are one step of two goroutines, taken when both are there; a channel
is a member of `open` until its sender's deferred `close`. A variable named
after a goroutine says where it waits: `processor = "send"` is the `select` of
`at_least_once.go:98`. Every branch of a `select` is an action of its own, and
since Go takes any ready branch, a cancelled context does not disable the
others. Log records, spans and metrics are left out.

**ConsumeFetches.** `HandOver` is the loop's send to `channelConsumer.Consume`,
`ConsumeCancelled` and `ConsumeEndOfQueue` its other two returns, `Forward`
and `ForwardCancelled` the `select` of `runtime.go:37`.

**AtLeastOnce.** `ProcessReturns` is `recordProcessor.process`, which logs an
error and goes on; `ProcessPanics` unwinds the goroutine, closing `recordCh`.
`SendRecord` and `SendCancelled` are the two branches of the send. `Commit` has
two fates: the request is applied, or it is not; an error of a request that was
applied leaves the same state as a commit, because the code only logs it.
`Restart` may happen in any state: a crash, or the partition's next
assignment, starts a new runtime at the committed offset. The history
variables say what was handled, what succeeded and in which order.

**AtMostOnce.** `Acknowledged` and `AcknowledgeFails` are the two outcomes of
`Acknowledge`; here an error whose request was applied differs from a commit
and is a case of its own. `SendRecord` also starts the record's goroutine,
which `processRecords` does in the receiving step.

**EventLoop.** `tick` is the choice among `HandleAssigned`, `HandleGone` (lost
and revoked have handlers with one body), `SendTopic` and `Shutdown`;
`HandOff`, `Drop` and `Shutdown` are what `handleFetch` does for one partition.
`Assign`, `Revoke`, `CallbackReturns`, `CloseClient` and `ClientClosed` model
how the client calls back. A poll lists the fetches of any set of partitions in
any order, in one `FetchTopic` or several. Fetches carry the runtime the
partition had when they were polled: this is history, the code has no such
field. franz-go is modelled from how `kafka.go` and `event_loop.go` use it:
callbacks one at a time, a partition fetched from the group's offset once the
callback of its assignment has returned and no longer once that of its
revocation starts, polls not blocked by a rebalance (`BlockRebalanceOnPoll` is
not set), `Close` leaving the group and revoking what is owned.

**ConsumerGroup.** A runtime is three positions: what was polled for it, what
it gave to its Processor, what it tried to commit. `Assign` starts one at the
group's offset; `Revoke` takes the partition from it and nothing else, as
`handleRevokedPartition` does, so that `HandleRecord`, `AcknowledgeRecord`,
`AcknowledgeFetch` and `StartRecord` of a revoked runtime stay possible until
it `Crash`es. In two states the owner's records reach no Processor although its
process lives and keeps the partition: `ProcessorPanics` unwinds
`processFetches` (`at_least_once.go:90-96`), after which `consumeFetches` has no
receiver (`runtime.go:37-41`), and `LoopBlocks` is the loop that waits in
`handleFetch` for the runtime of another partition (`event_loop.go:305-308`).
The broker takes the commit of such a runtime: the runtimes live
in members that poll on, and franz-go's cooperative balancing gives every
member the group's current generation. How far polls run ahead of the pipeline
is left open. Both orders, handling first and committing first, are in it.

**ServerApp and GrpcApi.** `ServeStarts` may come before or after the stop
begins, since nothing orders the two goroutines; `ServeReturns` differs by
server: `Serve` of gRPC returns nil when `GracefulStop` is done, that of
net/http returns `ErrServerClosed` as `Shutdown` begins. `Joins` keeps the
group's first error. A health rpc is a record that says where `Check` or
`Watch` is: `GetMonitor`, `Tick` (the timer's branch), `WatchCancelled` (the
context's), `Healthy` (one part of the monitor is asked), `CheckReturns`,
`Compare` (with the branch in which `Send` fails). `RegisterService` has two
steps, as the code has: the monitor is in place before the gRPC server accepts
the name, or ends the process over it. The monitor of a service may be a second
one for the same name.

**CartStore.** A request is at one statement of its route: `Handle` parses its
path parameters, each statement is an action of its own, `Respond` maps the
store's error to a status. PostgreSQL is the two tables of
`specs/backends/database.sql` with their references, cascade and check.
`StatementFails` ends an operation with an error before its statement, or after
it took effect. The update of the cart is two steps, `BeginTouch`, which takes
`NOW()`, and `TouchCart`, which writes it: the foreign key's lock does not keep
another addition's insert from coming between them. The refinement maps a
request that has not executed its deciding statement to one that was called,
and one that has to one that is done.

## The runs

| Run | Instance | Question |
|---|---|---|
| `AtLeastOnce` | 4 records, fetches of 0 to 2, 2 sessions, every outcome of the Processor | all properties of `AtLeastOnce` |
| `AtMostOnce` | 4 records, fetches of 0 to 2, 2 sessions | all properties of `AtMostOnce` |
| `EventLoop_safety` | 2 interchangeable partitions of 3 records, 2 assignments, runtimes that hold 1 fetch | the safety properties of `EventLoop` |
| `EventLoop_live` | 1 partition of 3 records, 2 assignments | its liveness properties |
| `ConsumerGroup` | 3 records, 3 runtimes, both orders | what runtimes that overlap do to the offset and the records |
| `GrpcApi` | 2 calls, one of which may be a health rpc, 1 service, monitors of 2 parts, 3 changes, both servers | how `Run` ends; what `Check` and `Watch` answer |
| `CartStore` | 2 interchangeable clients, 2 carts, 2 items, quantities 0 to 2, 4 requests, 1 failed statement | the refinement of `CartService`, and what the tables keep |
| `AtLeastOnce_success` | 2 records | refutes `kafka/doc.go:74-76` |
| `AtMostOnce_commit_fails` | 2 records | refutes `kafka/at_most_once.go:39-40` |
| `EventLoop_wait` | 1 partition | refutes `concurrency.md:83-84` |
| `EventLoop_once` | 1 partition, 2 assignments | refutes `queue-framework.md:205` |
| `EventLoop_isolation` | 2 partitions, one slow | refutes `kafka/_index.md:184` |

**Bounds.** Four records let the whole pipeline be full: `acknowledgeRecords`
commits the first while `processFetches` is at the second and `consumeFetches`
holds the other two. Two sessions show a crash, what it left, and a session
that starts in the middle; the theorems hold for any number. Two assignments of
partitions let one be revoked and assigned again, or two be served at once.
`Depth`
1 makes a runtime busy after one fetch, which is when the loop waits; a real
pipeline takes a few more before it does. With `LogEnd` 4, `MaxBatch` 2 and two
sessions, `LossWindow` only bites in the first session, where at most two of
four acknowledged records may be lost.

**Properties of `AtLeastOnce`.** `CommittedImpliesHandled`, `HandledInOrder`
and `CommitMovesForward` are the guarantee; `DuplicateWindow` says how far it
may repeat (two records, unless a commit is lost); `DrainedOnClose` that a
revocation loses nothing that was handed over. `DeliversAtLeastOnce` is the
refinement of `AtLeastOnceDelivery`. `CancelledReturns`, `ClosedReturns` and
`HandedOverIsHandled` say that the goroutines end and do not wait in a circle.

**Properties of `AtMostOnce`.** `NeverTwice`, `StartedAfterCommit` and the
refinement of `AtMostOnceDelivery` are the guarantee; `LossWindow` how much
may be lost in silence: at most a fetch in each session; `DrainedOnClose`,
`CancelledReturns` and `AcknowledgedIsProcessed` as above.

**Properties of `EventLoop`.** `ChannelDiscipline`: channels in the table are
open and none is left out of it. `DropsOnlyUnowned`: the warning "topic
partition not found for fetched records" never means a loss. `SessionInOrder`:
no gap and no overtaking between the poll and the runtime. `ClosedLast`: no
runtime commits through a closed client. The liveness properties say that
callbacks return, polled fetches leave the poller, a cancelled application ends
and a revoked runtime ends.

In `ConsumerGroup` three runtimes are the fewest of which two can be late at
an owner, and three records let them stand apart. In `GrpcApi` two parts give
every early return of `And` and `Or` a part before and after it, three changes
let a reading be disturbed and then settle, and the call that is no health rpc
may hold the stop up by itself. In `CartStore` the four requests let two run
side by side on what two others made, deletion against addition and deletion
against deletion included.

**Properties of `ConsumerGroup`.** `CommittedImpliesHandled` for any overlap of
runtimes. `NeverTwiceUnlessLate` is what at-most-once delivery keeps of
"Duplicates: Never" (`queue/delivery-semantics.md:17`): a record repeats if,
and as the model shows only if, a revoked runtime commits after its revocation.
`MovesBackOnlyWhenLate` says the same of the group's offset, and
`OwnerHandlesAll` that a partition that stays with an owner is handled to its
end, whatever offset late commits left. Its premise names the two exceptions:
the owner's own Processor has panicked, or its loop is blocked by another
partition; both starve the partition until it is revoked or the process ends.
The fetch that reaches the wrong
runtime (`EventLoop_once`) is not in this model.

**Properties of `GrpcApi`.** `ResultTells`: nil is returned only after a
cancellation, and a listener's failure is reported. `NothingRunsAfterReturn`.
`MonitorIsCurrent`: a `Watch` keeps the monitor it found, and it stays the one
its name has, because a second registration ends the process. `SteadyAnswers`:
what a composite monitor says, asking one part after the other and stopping
early, is its verdict on all parts at one instant, unless one changed while it
asked; then the answer may hold of no instant, which health checks have to
bear. The verdict (`Verdict`) is that of the code: for `Or` a part that is up
decides, also beside one that errs. The documentation says otherwise of that
case (see the end of the Plan), and the property does not judge it.
`WatchConverges`: a watcher is told the lasting status, also when it never
changes. `ClientGoneEnds` and `HangsOnlyOnOpenCalls`: what has to end does, and
only a call that stays open keeps `Run` from returning.
`lifecycle-management.md:105` and `:132` speak of a timeout; the code has none.

**Properties of `CartStore`.** `ImplementsCartService` is the refinement: each
request takes effect at one instant between its arrival and its response, which
reports the carts of that instant. `CartService` makes two concessions, which
the statements need: a request that fails may have taken effect, and a cart
that goes away during a `GetCart` or `DeleteCart` may be reported as found, by
an empty cart or a second successful deletion. `ItemsHaveCarts` rests on the
schema alone. `StaleOnlyIfMissed`: the `updated_at` of a cart is behind the
`created_at` of an item added to it only while an addition has yet to update it,
or after an update that failed or was overtaken. An update is overtaken when
another item is added between its `NOW()`, the start of its statement, and its
effect: it then writes the older time last, both additions are answered 201, and
that `AddCartItem` "bumps the cart's updated_at" (`database.go:147`) did not hold
of the cart's latest item. Changes of a quantity are not in it: `UpdateCartItem`
moves the `updated_at` of the item and never that of the cart. A cart
deleted between the check and the insert of `AddCartItem`, and a quantity below
1, are both answered 500, which `api.yaml` does not foresee.

**Properties that are proved only.** The type invariants of `AtLeastOnce`,
`AtMostOnce`, `ConsumerGroup` and `GrpcApi` and the inductive invariants are
theorems for all constants and are in no run. Types are checked by TLC where
they are not proved.

**Mutants.** A definition commented as a mutant is another one with a bug a
change of the code could introduce: a send without a `select`, a close that
leaves the table alone, a loop that does not move on. No specification uses it.
`PROJECT.json` pairs each property of a passing run with the mutant that TLC
refutes it under.

**Fairness.** A goroutine that can take a step eventually takes one (weak
fairness of its steps together); a call of the Processor returns or panics, a
commit is answered. A Go `select` that is reached again and again with a branch
ready does not refuse that branch for ever, since it chooses at random: hence
strong fairness for the branches of `tick`. `CloseClient` is strongly fair
because a rebalance in progress only delays `client.Close`. Cancellations,
rebalances, polls that find records, crashes and lost commits are never forced.
In `ConsumerGroup` the polls of the owner return while its loop is not blocked,
and each runtime is scheduled and its Processor returns unless it panics; the
panic and the blocked loop are actions, and a runtime they stop has no step that
fairness could ask for. In `EventLoop` a Processor returns unless its partition
is in `Slow`, and does not panic: a runtime after a panic receives nothing, like
a slow one, and `AtLeastOnce` has the rest of it.
In `GrpcApi` the goroutines of `Run` and of each health rpc are weakly fair (the
timer of `Watch` fires), and `WatchCancelled` strongly: a `select` with a done
context and a timer that fires now and then does not choose the timer for ever.
Clients, other handlers, registrations and changes are not forced.

**What the refutations show.** They are disagreements, each about one line. A
failed `Process` is only logged, and its record is committed; with
at-most-once, a failed commit drops its fetch. A revocation does not wait for
the runtime, and cannot, since `handleRevokedPartition` has no handle on it:
the callback has returned and the runtime still has a record to handle. The
loop blocks on the slowest partition. `EventLoop_once` is an interleaving: a
fetch that is polled, then overtaken at the loop by the revocation and the next
assignment of its partition, is delivered to the new runtime and lets it commit
past a record that is not handled yet. The runtime of the earlier assignment
holds that record; if its process dies before it handles it, the group resumes
beyond the record and nobody is given it again. It needs a poller that is not
scheduled while two callbacks are served, so it is rare; nothing in the code
excludes it, and `SessionInOrder` is limited to the fetches of a runtime's own
assignment because of it.

## The proofs

`AtLeastOnceProofs` and `AtMostOnceProofs` prove, for every log, batch size,
set of outcomes and number of sessions, each safety property above and both
refinements. The assumptions are those of the modules: the bounds are natural
numbers and the outcomes among the three there are.

At least once, the argument is that every offset of a session is in one place:

    committed <= Passed <= Position <= FetchEnd <= polled

the end of what the broker knows, of what the acknowledger was sent, of what
was handled, of what `processFetches` took and of what was handed over. `IInv`
adds that the record in a goroutine's hand is the one at its border, and that
nothing lies between two borders while nobody is cancelled.
`CommittedImpliesHandled` alone is not inductive: a commit needs to know that
the record in the acknowledger's hand was handled and that all before it were
passed on. `DuplicateWindow` needs that, without lost commits, the broker is
behind the acknowledger by at most the record in flight. The step of the
refinement is `CommitAdvances`: a commit that moves the offset moves it
forward, over handled records.

At most once, a session's fetches do not overlap, those not yet committed begin
at or after the group's offset, and the one being sent ends before it
(`FetchesInOrder`); hence no record at or beyond the group's offset, nor one
still to be sent, was started before (`NotYetStarted`), in whichever session.
`LossWindow` counts a set. `LossInv` bounds it by a fetch for each session that
ended and what the present one has in hand: the records `acknowledgeRecords`
has yet to send or, when it has returned, those it may have left. A send takes
one record from both sides, an acknowledgement adds one fetch to both, and a
restart turns what was in hand into the share of a session that ended.

`EventLoopProofs`, for any finite set of partitions, records, depth and number
of assignments: every safety property of `EventLoop` but `SessionInOrder`.
None is inductive alone. That no closed channel is used (`ChannelDiscipline`)
and that an owned partition has a channel (`DropsOnlyUnowned`) both need to
know where a rebalance stands: while nothing is cancelled, the partitions in
the table are exactly those the client owns, those the assignment in progress
has announced and those the revocation in progress has not (`TableIsComplete`).
`HandleAssigned` then finds no older channel to overwrite, and `HandleGone`
always finds the one it closes. `RoomLeft` keeps room for the runtimes an
assignment in progress still starts, `EndsInOrder` gives `ClosedLast`.

`EventLoopOrderProofs` proves `SessionInOrder` on top of it. The property counts
what is ahead of a fetch in the loop's and the fetcher's hands; the invariant
(`Order`) says how little that is. A poll lists a partition once
(`ListedOnce`), and comes when the fetcher holds nothing, so each holds a
partition once at most (`HeldOnce`). While nothing is cancelled, what the loop
has in hand for an open runtime is the next it receives, what the fetcher has
comes after that, and the client's cursor is past both (`HandInOrder`,
`PolledInOrder`, `CursorsAhead`). Where a rebalance could break this, two facts
hold: nothing is held for a runtime before its assignment callback returns
(`NothingEarly`), so that setting its cursor to the group's offset is right;
and a fetch that is dropped, or handed to another runtime than its own, is one
whose runtime's channel was closed, by `TableIsComplete`.

`ConsumerGroupProofs`, for any partition and number of runtimes. Each runtime's
positions are in the order of its delivery (`Ordered`); every record a runtime
has passed was handled by it or one before it (`PassedIsHandled`), so that a
commit at whatever time covers handled records only. While nobody committed
late, the owner is the runtime that is furthest (`OwnerLeads`), and what a
revoked runtime still may start is its own (`PendingIsOwn`); these give
`NeverTwiceUnlessLate` and `MovesBackOnlyWhenLate`.

`GrpcApiProofs`, for any calls, streams, services and number of parts. First
`ServerApp` alone (`ServerEndsWell`), with `ServerInv`: a stop has a cause, and
a failed listener is the first error of the group. `ApiRunsServer` then shows
that every step of the Api is a step of `ServerApp` or leaves it alone, which
carries both results over. `ApiInv` says of the health rpcs that each is an
open call, that its monitor is the one of its name or the process is about to
end over that name (`KeepsMonitor`), and that an undisturbed reading has passed
no part that decides it (`Undecided`). `ReadPart` is the core: an undisturbed
reading stays undecided or answers with the verdict of the monitor.

`CartStoreProofs`, for any clients, carts, products and bounds. No item outlives
its cart (`ItemsHaveCarts`) and no cart is behind the items added to it but for
an addition in progress or an update that failed or was overtaken
(`StaleOnlyIfMissed`): both need that an identifier names one row only
(`IdsAreUsedOnce`), and the second that an addition touches the cart of its own
row (`TouchesItsCart`). For the
refinement, `SearchesAreCurrent` is the core: a cart that is missing when a
request arrives does not come later, since identifiers are used once, so a
request that got past `selectCart` found its cart on arrival and may be
answered as of then when the cart has gone meanwhile. `ImplementsService` then
maps each statement to a step of `CartService`: the one that decides the result
takes effect, an error is a failure before or after that, and `selectCart` that
finds its cart and `touchCart` that succeeds are stutters.

Every safety invariant, action property and refinement that a passing run checks is
proved. Only model-checked: the liveness properties, which are out of the
prover's reach.

## Not modelled

Message contents, headers, spans, metrics, logging. Of the components:

- Kafka options, `rest.go`: configuration assembled once, before anything runs,
  by a framework outside the repository; what then runs is modelled.
- `tls.go`: cryptography and files. Which certificate it uses is decided by
  `config.Or` of that framework, whose code is not here.
- `queue.App` and `job.App`: one call each. `ErrEndOfQueue` and the three
  interfaces are modelled where the runtimes use them.
- The pet store: sequential, under one mutex. `newID` loops while the
  identifier is unused (`store.go:93`), so the first `Register` does not
  return; there is nothing to interleave and no documented promise to refute.
- The echo service, the Kafka test container: test support and generated code.
- Logger and telemetry: no state.

In the components that are modelled: products and prices of the cart, and its
times but for whether a cart is behind the items added to it; panics of a
Processor in `EventLoop`; a
broker that refuses the commit of a revoked member; the mixing of fetches of
`EventLoop_once` in `ConsumerGroup`; nested or empty monitors.

## Plan

The runtimes of `ConsumerGroup` and of `EventLoop` are abstractions of the
pipelines of `AtLeastOnce` and `AtMostOnce` that are argued for in comments
only. What is left is to state them: a step of a session as a step of a runtime
of `ConsumerGroup`, with the positions of the runtime read off the goroutines,
checked on the instances and then proved from `IInv`.

The documentation disagrees with the code in further places that no run is
kept for: "No concurrent processing within partition" (`concurrency.md:115`)
against the goroutine per record of `at_most_once.go:153`; "Commits final
offsets" on cancellation (`kafka/doc.go:170`) against the return of
`at_least_once.go:105`; "Revoked partitions gracefully shut down their
goroutines" (`kafka/doc.go:158`) when the Processor has panicked, since
`consumeFetches` then waits for a receiver until the application ends; and of
`Or`, that it checks all monitors and that any errors are collected and returned
(`health/health.go:66-67`; `rest/health-checks.md:271-272`: "Checks all monitors
even if one is healthy", "Collects all errors"; the title of the test at
`health_test.go:90-91`, "will return an error if at least one of the Monitors
return an error") against the early return of `health.go:84-86`, which drops the
errors met before a healthy monitor and asks none after it. The test has no
healthy monitor beside the failing one.
