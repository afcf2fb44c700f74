------------------------------ MODULE EventLoop ------------------------------
(***************************************************************************)
(* Runtime.ProcessQueue of queue/kafka/kafka.go and the event loop of      *)
(* queue/kafka/event_loop.go: one goroutine polls the Kafka client, one    *)
(* runs the loop that owns the partition channels, the client calls back   *)
(* on every rebalance, and each assigned partition has a runtime of its    *)
(* own.  They meet on unbuffered channels only, so a send and its receive  *)
(* are one step.                                                           *)
(*                                                                         *)
(* A runtime is here the at-least-once pipeline seen from the loop: it     *)
(* takes fetches until it holds Depth of them, handles and commits them in *)
(* order, and returns when its channel is closed and nothing is left, or   *)
(* when the context is cancelled.  A fetch is one record.  Lost commits,   *)
(* crashes and panics are the subject of AtLeastOnce.                      *)
(***************************************************************************)
EXTENDS Integers, SequencesExt

CONSTANTS
    Partition,      \* the topic partitions of the group
    NoPartition,    \* what the client reports an error of PollFetches for
    LogEnd,         \* a partition holds the records 0 .. LogEnd - 1
    Depth,          \* the fetches a runtime takes before it stops receiving
    MaxRuntimes,    \* bound on the assignments of partitions
    Slow            \* the partitions whose Processor may never return

ASSUME PartitionAssumption ==
    IsFiniteSet(Partition) /\ NoPartition \notin Partition /\ Slow \subseteq Partition
ASSUME BoundAssumption ==
    LogEnd \in Nat /\ Depth \in Nat \ {0} /\ MaxRuntimes \in Nat

VARIABLES
    ctx,          \* "live" until the application's context is cancelled
    loop,         \* where the event loop is
    current,      \* the partitions of the FetchTopic in hand it has not handled
    table,        \* topicPartitions: the runtime a partition's channel leads to
    runtimes,     \* every runtime started, with its channel
    fetcher,      \* where fetchRecords is
    topics,       \* the FetchTopics it has polled and not sent
    callback,     \* the client's rebalance callback in progress
    owned,        \* the partitions the client fetches
    position,     \* the offset it fetches next
    client,       \* the Kafka client
    committed,    \* the group's offsets (broker)
    handled       \* history: the records a Processor returned for

loopVars == <<loop, current, table>>
fetcherVars == <<fetcher, topics>>
clientVars == <<callback, owned, position, client>>
brokerVars == <<committed, handled>>
vars == <<ctx, loopVars, runtimes, fetcherVars, clientVars, brokerVars>>

Offset == 0 .. LogEnd
RuntimeId == 1 .. MaxRuntimes
None == 0

(* rt names the runtime the partition had when the fetch was polled; the   *)
(* code keeps no such thing.                                               *)
Fetch == [tp : Partition \union {NoPartition}, rt : RuntimeId \union {None}, offset : Offset]

Runtime == [tp : Partition, open : BOOLEAN, state : {"running", "returned"},
            todo : Seq(Fetch), next : Offset]

(* next is history: the offset after the last one it received of those     *)
(* polled for it.                                                          *)
NewRuntime(tp) ==
    [tp |-> tp, open |-> TRUE, state |-> "running", todo |-> << >>, next |-> 0]

Idle == [kind |-> "none", all |-> {}, todo |-> {}]

TypeOK ==
    /\ ctx \in {"live", "cancelled"}
    /\ loop \in {"tick", "deliver", "wait", "done"}
    /\ current \in Seq(Fetch)
    /\ table \in [Partition -> RuntimeId \union {None}]
    /\ Len(runtimes) <= MaxRuntimes /\ runtimes \in Seq(Runtime)
    /\ fetcher \in {"check", "poll", "send", "done"}
    /\ topics \in Seq(Seq(Fetch))
    /\ callback \in [kind : {"none", "assigned", "gone"},
                     all : SUBSET Partition, todo : SUBSET Partition]
    /\ owned \subseteq Partition
    /\ position \in [Partition -> Offset]
    /\ client \in {"open", "closing", "closed"}
    /\ committed \in [Partition -> Offset]
    /\ handled \in [Partition -> SUBSET Offset]

Init ==
    /\ ctx = "live"
    /\ loop = "tick"
    /\ current = << >>
    /\ table = [tp \in Partition |-> None]
    /\ runtimes = << >>
    /\ fetcher = "check"
    /\ topics = << >>
    /\ callback = Idle
    /\ owned = {}
    /\ position = [tp \in Partition |-> 0]
    /\ client = "open"
    /\ committed = [tp \in Partition |-> 0]
    /\ handled = [tp \in Partition |-> {}]

Cancel ==
    /\ ctx = "live"
    /\ ctx' = "cancelled"
    /\ UNCHANGED <<loopVars, runtimes, fetcherVars, clientVars, brokerVars>>

-----------------------------------------------------------------------------
(***************************************************************************)
(* The client's group membership.  Callbacks are called one at a time.  A  *)
(* partition is fetched once the callback of its assignment has returned,  *)
(* and no longer when that of its revocation starts; what PollFetches has  *)
(* already returned stays where it is.                                     *)
(***************************************************************************)
CallBack(kind, tps) ==
    /\ callback = Idle
    /\ client = "open"
    /\ callback' = [kind |-> kind, all |-> tps, todo |-> tps]
    /\ UNCHANGED <<ctx, loopVars, runtimes, fetcherVars, client, brokerVars>>

(* Partitions that are given up lose their cursors. *)
GiveUp(tps) ==
    /\ owned' = owned \ tps
    /\ position' = [tp \in Partition |-> IF tp \in tps THEN 0 ELSE position[tp]]

Assign(tps) ==
    /\ tps \subseteq Partition \ owned
    /\ Len(runtimes) + Cardinality(tps) <= MaxRuntimes
    /\ CallBack("assigned", tps)
    /\ UNCHANGED <<owned, position>>

(* Revoked or, all that was owned at once, lost. *)
Revoke(tps) ==
    /\ tps \subseteq owned
    /\ CallBack("gone", tps)
    /\ GiveUp(tps)

(* Mutant of CallbackCancelled: a callback that sends without a select. *)
CallbackNeverCancelled ==
    /\ callback.todo # {}
    /\ FALSE
    /\ callback' = [callback EXCEPT !.todo = {}]
    /\ UNCHANGED <<ctx, loopVars, runtimes, fetcherVars, owned, position, client, brokerVars>>

(* The select of the callback takes ctx.Done(): it returns where it is. *)
CallbackCancelled ==
    /\ callback.todo # {}
    /\ ctx = "cancelled"
    /\ callback' = [callback EXCEPT !.todo = {}]
    /\ UNCHANGED <<ctx, loopVars, runtimes, fetcherVars, owned, position, client, brokerVars>>

(* After an assignment the client fetches from the group's offsets. *)
CallbackReturns ==
    /\ callback # Idle
    /\ callback.todo = {}
    /\ callback' = Idle
    /\ IF callback.kind = "assigned"
       THEN /\ owned' = owned \union callback.all
            /\ position' = [tp \in Partition |->
                              IF tp \in callback.all THEN committed[tp] ELSE position[tp]]
            /\ runtimes' = [r \in DOMAIN runtimes |->
                              IF \E tp \in callback.all : table[tp] = r
                              THEN [runtimes[r] EXCEPT !.next = committed[runtimes[r].tp]]
                              ELSE runtimes[r]]
       ELSE UNCHANGED <<owned, position, runtimes>>
    /\ UNCHANGED <<ctx, loopVars, fetcherVars, client, brokerVars>>

(* client.Close, deferred by ProcessQueue until both its goroutines have   *)
(* returned: leaving the group revokes what is owned.                      *)
CloseClient ==
    /\ fetcher = "done" /\ loop = "done"
    /\ callback = Idle
    /\ client = "open"
    /\ client' = "closing"
    /\ callback' = [kind |-> "gone", all |-> owned, todo |-> owned]
    /\ GiveUp(owned)
    /\ UNCHANGED <<ctx, loopVars, runtimes, fetcherVars, brokerVars>>

ClientClosed ==
    /\ client = "closing"
    /\ callback = Idle
    /\ client' = "closed"
    /\ UNCHANGED <<ctx, loopVars, runtimes, fetcherVars, callback, owned, position, brokerVars>>

-----------------------------------------------------------------------------
(***************************************************************************)
(* fetchRecords: check the context, poll, send each FetchTopic.            *)
(***************************************************************************)
CheckContext ==
    /\ fetcher = "check"
    /\ fetcher' = IF ctx = "cancelled" THEN "done" ELSE "poll"
    /\ UNCHANGED <<ctx, loopVars, runtimes, topics, clientVars, brokerVars>>

(* The ways a poll can list a set of partitions: in any order, in one      *)
(* FetchTopic or, coming from several brokers, in one FetchTopic each.     *)
Listings(fetches) ==
    LET orders == {s \in [1 .. Cardinality(fetches) -> fetches] :
                       \A i, j \in DOMAIN s : s[i] = s[j] => i = j}
    IN  {<<s>> : s \in orders} \union {[i \in DOMAIN s |-> <<s[i]>>] : s \in orders}

PollReturns(tps) ==
    /\ fetcher = "poll"
    /\ tps \subseteq {tp \in owned : position[tp] < LogEnd}
    /\ fetcher' = "send"
    /\ topics' \in Listings({[tp |-> tp, rt |-> table[tp], offset |-> position[tp]] : tp \in tps})
    /\ position' = [tp \in Partition |-> position[tp] + (IF tp \in tps THEN 1 ELSE 0)]
    /\ UNCHANGED <<ctx, loopVars, runtimes, callback, owned, client, brokerVars>>

(* A poll with a cancelled context returns its error as a fetch. *)
PollCancelled ==
    /\ fetcher = "poll"
    /\ ctx = "cancelled"
    /\ fetcher' = "send"
    /\ topics' = << <<[tp |-> NoPartition, rt |-> None, offset |-> 0]>> >>
    /\ UNCHANGED <<ctx, loopVars, runtimes, clientVars, brokerVars>>

(* Mutant of SendCancelled: fetchRecords sends without a select. *)
SendNeverCancelled ==
    /\ fetcher = "send"
    /\ FALSE
    /\ fetcher' = "done"
    /\ UNCHANGED <<ctx, loopVars, runtimes, topics, clientVars, brokerVars>>

SendCancelled ==
    /\ fetcher = "send"
    /\ ctx = "cancelled"
    /\ fetcher' = "done"
    /\ topics' = << >>
    /\ UNCHANGED <<ctx, loopVars, runtimes, clientVars, brokerVars>>

-----------------------------------------------------------------------------
(***************************************************************************)
(* The event loop.  tick selects among the callbacks, the fetcher and the  *)
(* end of the context.                                                     *)
(***************************************************************************)
Close(r) == runtimes' = [runtimes EXCEPT ![r].open = FALSE]

CallbackSent(tp) ==
    /\ loop = "tick"
    /\ tp \in callback.todo
    /\ callback' = [callback EXCEPT !.todo = @ \ {tp}]
    /\ UNCHANGED <<ctx, loop, current, fetcherVars, owned, position, client, brokerVars>>

(* Mutant of HandleAssigned: the channel is not entered in the table. *)
HandleAssignedUnlisted(tp) ==
    /\ callback.kind = "assigned"
    /\ CallbackSent(tp)
    /\ runtimes' = Append(runtimes, NewRuntime(tp))
    /\ UNCHANGED table

HandleAssigned(tp) ==
    /\ callback.kind = "assigned"
    /\ CallbackSent(tp)
    /\ runtimes' = Append(runtimes, NewRuntime(tp))
    /\ table' = [table EXCEPT ![tp] = Len(runtimes) + 1]

(* Mutant of HandleGone: the closed channel stays in the table. *)
HandleGoneKeepsEntry(tp) ==
    /\ callback.kind = "gone"
    /\ CallbackSent(tp)
    /\ IF table[tp] = None THEN UNCHANGED runtimes ELSE Close(table[tp])
    /\ UNCHANGED table

(* Revoked and lost have a handler each, with the same body.  It closes the *)
(* channel; it does not wait for the runtime.                               *)
HandleGone(tp) ==
    /\ callback.kind = "gone"
    /\ CallbackSent(tp)
    /\ IF table[tp] = None
       THEN UNCHANGED <<table, runtimes>>
       ELSE /\ Close(table[tp])
            /\ table' = [table EXCEPT ![tp] = None]

(* Mutant of SendTopic: the loop over the topics of a poll ends after one. *)
SendFirstTopic ==
    /\ fetcher = "send"
    /\ loop = "tick"
    /\ loop' = "deliver"
    /\ current' = Head(topics)
    /\ topics' = << >>
    /\ fetcher' = "check"
    /\ UNCHANGED <<ctx, table, runtimes, clientVars, brokerVars>>

SendTopic ==
    /\ fetcher = "send"
    /\ loop = "tick"
    /\ loop' = "deliver"
    /\ current' = Head(topics)
    /\ topics' = Tail(topics)
    /\ fetcher' = IF Tail(topics) = << >> THEN "check" ELSE "send"
    /\ UNCHANGED <<ctx, table, runtimes, clientVars, brokerVars>>

(* handleFetch: partition by partition, the loop waits for the runtime to  *)
(* receive; a partition without a channel is logged and dropped.           *)
Known(f) == f.tp \in Partition /\ table[f.tp] # None

NextPartition ==
    /\ current' = Tail(current)
    /\ loop' = IF Tail(current) = << >> THEN "tick" ELSE "deliver"

Drop ==
    /\ loop = "deliver"
    /\ ~Known(Head(current))
    /\ NextPartition
    /\ UNCHANGED <<ctx, table, runtimes, fetcherVars, clientVars, brokerVars>>

(* Mutant of HandOff: a select with a default, which drops the fetch of a  *)
(* runtime that is busy.                                                   *)
HandOffOrSkip ==
    /\ loop = "deliver"
    /\ LET f == Head(current)
           r == table[f.tp]
       IN  /\ Known(f)
           /\ runtimes' = IF runtimes[r].state = "running" /\ Len(runtimes[r].todo) < Depth
                          THEN [runtimes EXCEPT ![r].todo = Append(@, f),
                                                ![r].next = IF f.rt = r THEN f.offset + 1 ELSE @]
                          ELSE runtimes
    /\ NextPartition
    /\ UNCHANGED <<ctx, table, fetcherVars, clientVars, brokerVars>>

HandOff ==
    /\ loop = "deliver"
    /\ LET f == Head(current)
           r == table[f.tp]
       IN  /\ Known(f)
           /\ runtimes[r].state = "running"
           /\ Len(runtimes[r].todo) < Depth
           /\ runtimes' = [runtimes EXCEPT ![r].todo = Append(@, f),
                                           ![r].next = IF f.rt = r THEN f.offset + 1 ELSE @]
    /\ NextPartition
    /\ UNCHANGED <<ctx, table, fetcherVars, clientVars, brokerVars>>

(* The end of the context: close every channel and wait for the runtimes.  *)
ShutdownFrom(stops) ==
    /\ stops
    /\ ctx = "cancelled"
    /\ loop' = "wait"
    /\ current' = << >>
    /\ runtimes' = [r \in DOMAIN runtimes |->
                      IF \E tp \in Partition : table[tp] = r
                      THEN [runtimes[r] EXCEPT !.open = FALSE]
                      ELSE runtimes[r]]
    /\ UNCHANGED <<ctx, table, fetcherVars, clientVars, brokerVars>>

(* Mutant of Shutdown: handleFetch sends without a select. *)
ShutdownFromTick == ShutdownFrom(loop = "tick")

(* tick sees it, and so does a send of handleFetch. *)
Shutdown ==
    ShutdownFrom(loop = "tick" \/ (loop = "deliver" /\ Known(Head(current))))

(* Mutant of WaitReturns: the loop returns once its channels are closed. *)
ReturnsWithoutWait ==
    /\ loop = "wait"
    /\ loop' = "done"
    /\ UNCHANGED <<ctx, current, table, runtimes, fetcherVars, clientVars, brokerVars>>

WaitReturns ==
    /\ loop = "wait"
    /\ \A r \in DOMAIN runtimes : runtimes[r].state = "returned"
    /\ loop' = "done"
    /\ UNCHANGED <<ctx, current, table, runtimes, fetcherVars, clientVars, brokerVars>>

-----------------------------------------------------------------------------
(***************************************************************************)
(* The runtimes.                                                           *)
(***************************************************************************)
Running(r) == r \in DOMAIN runtimes /\ runtimes[r].state = "running"

HandleThenCommit(r, next) ==
    /\ Running(r)
    /\ runtimes[r].todo # << >>
    /\ LET f == Head(runtimes[r].todo)
       IN  /\ handled' = [handled EXCEPT ![f.tp] = @ \union {f.offset}]
           /\ committed' = [committed EXCEPT ![f.tp] = f.offset + next]
    /\ runtimes' = [runtimes EXCEPT ![r].todo = Tail(@)]
    /\ UNCHANGED <<ctx, loopVars, fetcherVars, clientVars>>

(* Mutant of HandleRecord: the offset committed is one too far. *)
HandleCommitsAhead(r) == HandleThenCommit(r, 2)

(* Its oldest record is handled and committed. *)
HandleRecord(r) == HandleThenCommit(r, 1)

ReturnIf(r, ends) ==
    /\ Running(r)
    /\ ends
    /\ runtimes' = [runtimes EXCEPT ![r].state = "returned", ![r].todo = << >>,
                                    ![r].next = 0]
    /\ UNCHANGED <<ctx, loopVars, fetcherVars, clientVars, brokerVars>>

(* Mutant of RuntimeReturns: Consume does not notice the closed channel. *)
ReturnsWhenCancelled(r) == ReturnIf(r, ctx = "cancelled")

RuntimeReturns(r) ==
    ReturnIf(r, \/ ctx = "cancelled"
                \/ ~runtimes[r].open /\ runtimes[r].todo = << >>)

RuntimeNext(r) == HandleRecord(r) \/ RuntimeReturns(r)

-----------------------------------------------------------------------------
(* ProcessQueue has returned. *)
Terminated == client = "closed" /\ UNCHANGED vars

CallbackNext == \E tp \in Partition : HandleAssigned(tp) \/ HandleGone(tp)
LoopNext == CallbackNext \/ SendTopic \/ Drop \/ HandOff \/ Shutdown \/ WaitReturns
ClientNext == CallbackCancelled \/ CallbackReturns \/ CloseClient \/ ClientClosed
FetcherNext == CheckContext \/ PollCancelled \/ SendCancelled

Next ==
    \/ Cancel
    \/ \E tps \in (SUBSET Partition) \ {{}} : Assign(tps) \/ Revoke(tps) \/ PollReturns(tps)
    \/ ClientNext
    \/ FetcherNext
    \/ LoopNext
    \/ \E r \in RuntimeId : RuntimeNext(r)
    \/ Terminated

Spec == Init /\ [][Next]_vars

(***************************************************************************)
(* The goroutines run.  A select that is reached again and again does not  *)
(* refuse a ready branch for ever: Go chooses among the ready ones at      *)
(* random; and client.Close ends the membership after the callback in      *)
(* progress, if any, whatever rebalance would come next.  Processors       *)
(* return, except those of the Slow partitions.                            *)
(* Nothing forces a rebalance, a poll to find records, or a cancellation.  *)
(***************************************************************************)
Fairness ==
    /\ WF_vars(LoopNext)
    /\ WF_vars(ClientNext)
    /\ WF_vars(FetcherNext)
    /\ SF_vars(CallbackNext)
    /\ SF_vars(SendTopic)
    /\ SF_vars(Shutdown)
    /\ SF_vars(CloseClient)
    /\ \A r \in RuntimeId :
           WF_vars(Running(r) /\ runtimes[r].tp \notin Slow /\ RuntimeNext(r))

FairSpec == Spec /\ Fairness

-----------------------------------------------------------------------------
(***************************************************************************)
(* Safety.                                                                 *)
(***************************************************************************)

(* The channels of the loop are used as Go's panics demand and none is     *)
(* forgotten.  Until the shutdown closes them all, a channel in the table  *)
(* is an open one of that partition, so nothing is sent on a closed        *)
(* channel or closed twice; and while nothing is cancelled an open one is  *)
(* in the table, so every runtime can be told to end.  (A callback that    *)
(* the cancellation cut short may leave a channel behind, for a runtime    *)
(* that the cancellation ends too.)                                        *)
ChannelDiscipline ==
    loop \in {"tick", "deliver"} =>
        /\ \A tp \in Partition :
               table[tp] # None => runtimes[table[tp]].open /\ runtimes[table[tp]].tp = tp
        /\ ctx = "live" =>
               \A r \in DOMAIN runtimes : runtimes[r].open => table[runtimes[r].tp] = r

(* Records are only dropped for partitions the client no longer fetches:   *)
(* a partition that is fetched has a channel, and a fetch without one is   *)
(* that of a revoked partition, which the group redelivers.                *)
DropsOnlyUnowned ==
    ctx = "live" => \A tp \in owned : table[tp] # None

(* What the loop and the fetcher hold, in the order the runtimes will get  *)
(* it: the rest of the FetchTopic in hand, then those not yet sent.        *)
Places ==
    {<<0, i>> : i \in DOMAIN current}
        \union UNION {{<<t, i>> : i \in DOMAIN topics[t]} : t \in DOMAIN topics}
FetchAt(p) == IF p[1] = 0 THEN current[p[2]] ELSE topics[p[1]][p[2]]
Before(p, q) == p[1] < q[1] \/ (p[1] = q[1] /\ p[2] < q[2])
InTransit(r) == {p \in Places : FetchAt(p).rt = r}

(* While nothing is cancelled, a runtime receives what was polled for it   *)
(* from where the group stood at its assignment, in order and without a    *)
(* gap: what the loop and the fetcher still hold for it continues what it  *)
(* received.                                                               *)
SessionInOrder ==
    ctx = "live" => \A r \in DOMAIN runtimes :
        runtimes[r].open => \A p \in InTransit(r) :
            FetchAt(p).offset =
                runtimes[r].next + Cardinality({q \in InTransit(r) : Before(q, p)})

(* The client is closed with no callback waiting and no runtime left to    *)
(* commit through it.                                                      *)
ClosedLast ==
    client # "open" =>
        /\ \A r \in DOMAIN runtimes : runtimes[r].state = "returned"
        /\ fetcher = "done"

(***************************************************************************)
(* Liveness, under FairSpec.                                               *)
(***************************************************************************)

(* A rebalance callback returns: neither a full runtime nor the fetcher    *)
(* keeps the loop from it for ever, and a cancellation releases it.        *)
EveryCallbackReturns == callback # Idle ~> callback = Idle

(* What was polled leaves the fetcher, delivered or dropped. *)
PolledIsSent == fetcher = "send" ~> fetcher # "send"

(* A cancelled application ends, with its client closed. *)
CancelledEnds == ctx = "cancelled" ~> client = "closed"

(* A runtime whose partition is gone returns. *)
RevokedReturns ==
    \A r \in RuntimeId :
        (r \in DOMAIN runtimes /\ ~runtimes[r].open) ~> (r \in DOMAIN runtimes /\ ~Running(r))

=============================================================================
