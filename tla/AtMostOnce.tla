------------------------------ MODULE AtMostOnce -----------------------------
(***************************************************************************)
(* One partition under at-most-once delivery: the goroutines that          *)
(* ProcessQueue of queue/kafka/at_most_once.go starts,                     *)
(*                                                                         *)
(*   consumeFetches --fetchCh--> acknowledgeFetchs --recordCh-->           *)
(*                                  processRecords, one goroutine a record *)
(*                                                                         *)
(* the broker, and the sessions of the partition.  What the Processor      *)
(* answers changes nothing here: an error is logged, and a panic is kept   *)
(* by the goroutine's pool until the runtime returns.                      *)
(***************************************************************************)
EXTENDS ConsumeFetches, FiniteSets

CONSTANT MaxRestarts    \* bound on the sessions that follow the first

ASSUME RestartsAssumption == MaxRestarts \in Nat

VARIABLES
    acker,         \* where acknowledgeFetchs is
    batch,         \* its fetch: what it has not passed on
    receiver,      \* where processRecords is
    running,       \* the records in a call of the Processor
    committed,     \* the consumer group's offset for the partition (broker)
    restarts,      \* sessions started after the first
    (* history *)
    start,         \* the offset this session started at
    starts,        \* how often each record was given to the Processor
    finished,      \* the records the Processor returned for
    acknowledged,  \* the records whose acknowledgement succeeded
    skipped        \* the records whose acknowledgement returned an error

pipelineVars == <<acker, batch, receiver, running>>
historyVars == <<start, starts, finished, acknowledged, skipped>>
vars == <<consumerVars, pipelineVars, committed, restarts, historyVars>>

Record == 0 .. LogEnd - 1

TypeOK ==
    /\ ConsumerTypeOK
    /\ acker \in {"range", "commit", "send", "done"}
    /\ batch \in Fetch
    /\ receiver \in {"range", "wait", "done"}
    /\ running \subseteq Record
    /\ committed \in Offset
    /\ restarts \in 0 .. MaxRestarts
    /\ start \in Offset
    /\ starts \in [Record -> Nat]
    /\ finished \subseteq Record
    /\ acknowledged \subseteq Record
    /\ skipped \subseteq Record

Init ==
    /\ ConsumerInit
    /\ acker = "range"
    /\ batch = NoFetch
    /\ receiver = "range"
    /\ running = {}
    /\ committed = 0
    /\ restarts = 0
    /\ start = 0
    /\ starts = [record \in Record |-> 0]
    /\ finished = {}
    /\ acknowledged = {}
    /\ skipped = {}

ConsumerStep(A) == A /\ UNCHANGED <<pipelineVars, committed, restarts, historyVars>>

-----------------------------------------------------------------------------
(***************************************************************************)
(* acknowledgeFetchs: commit the whole fetch, then send its records.       *)
(***************************************************************************)
TakeFetch ==
    /\ acker = "range"
    /\ Forward
    /\ acker' = "commit"
    /\ batch' = held
    /\ UNCHANGED <<receiver, running, committed, restarts, historyVars>>

(* The deferred close of recordCh. *)
LeaveAcker ==
    /\ acker' = "done"
    /\ batch' = NoFetch
    /\ open' = open \ {"recordCh"}
    /\ UNCHANGED <<ctx, polled, consumer, held, receiver, running, committed,
                   restarts, historyVars>>

FetchesEnd ==
    /\ acker = "range"
    /\ "fetchCh" \notin open
    /\ LeaveAcker

ResumeBatch(f) ==
    /\ batch' = f
    /\ acker' = IF HasRecord(f) THEN "send" ELSE "range"

(* CommitRecords sets the group's offset after the last record it is given. *)
Commits(f) == committed' = IF HasRecord(f) THEN f.next ELSE committed

Acknowledged ==
    /\ acker = "commit"
    /\ Commits(batch)
    /\ acknowledged' = acknowledged \union Records(batch)
    /\ ResumeBatch(batch)
    /\ UNCHANGED <<consumerVars, receiver, running, restarts, start, starts,
                   finished, skipped>>

NotAcknowledged(fate, rest) ==
    /\ acker = "commit"
    /\ IF fate = "applied" THEN Commits(batch) ELSE UNCHANGED committed
    /\ skipped' = skipped \union Records(batch)
    /\ ResumeBatch(rest)
    /\ UNCHANGED <<consumerVars, receiver, running, restarts, start, starts,
                   finished, acknowledged>>

(* Mutant of AcknowledgeFails: the records are sent all the same. *)
SendsUncommitted(fate) == NotAcknowledged(fate, batch)

(* The error of CommitRecords is logged and the fetch dropped, whether the *)
(* request did not reach the broker or only its answer was lost.           *)
AcknowledgeFails(fate) == NotAcknowledged(fate, NoFetch)

(* The send of a record meets processRecords's receive, whose p.Go starts  *)
(* the record's goroutine without any limit on their number.               *)
SendThenResume(rest) ==
    /\ acker = "send"
    /\ receiver = "range"
    /\ running' = running \union {batch.first}
    /\ starts' = [starts EXCEPT ![batch.first] = @ + 1]
    /\ ResumeBatch(rest)
    /\ UNCHANGED <<consumerVars, receiver, committed, restarts, start, finished,
                   acknowledged, skipped>>

(* Mutants of SendRecord: a loop that does not move on, one that skips the *)
(* record after each record it sends.                                      *)
SendRecordStays ==
    /\ starts[batch.first] < 2
    /\ SendThenResume(batch)

SendEveryOther ==
    LET next == batch.first + 2
    IN  SendThenResume(IF next < batch.next THEN Interval(next, batch.next) ELSE NoFetch)

SendRecord == SendThenResume(Interval(batch.first + 1, batch.next))

SendCancelled ==
    /\ acker = "send"
    /\ ctx = "cancelled"
    /\ LeaveAcker

(***************************************************************************)
(* processRecords, and the goroutines it starts.                           *)
(***************************************************************************)
ReceiverMoves(next) ==
    /\ receiver' = next
    /\ UNCHANGED <<consumerVars, acker, batch, running, committed, restarts, historyVars>>

RecordsEnd ==
    /\ receiver = "range"
    /\ "recordCh" \notin open
    /\ ReceiverMoves("wait")

(* Mutant of WaitReturns: the runtime does not wait for its goroutines. *)
ReturnsWithoutWait == receiver = "wait" /\ ReceiverMoves("done")

WaitReturns ==
    /\ receiver = "wait"
    /\ running = {}
    /\ ReceiverMoves("done")

ProcessReturns(record) ==
    /\ record \in running
    /\ running' = running \ {record}
    /\ finished' = finished \union {record}
    /\ UNCHANGED <<consumerVars, acker, batch, receiver, committed, restarts, start,
                   starts, acknowledged, skipped>>

-----------------------------------------------------------------------------
AllDone == consumer \in Returned /\ acker = "done" /\ receiver = "done"

(* A new runtime for the partition, at the committed offset: after a crash *)
(* at any point, or after the last runtime returned.                       *)
Restart ==
    /\ restarts < MaxRestarts
    /\ restarts' = restarts + 1
    /\ ConsumerRestartsAt(committed)
    /\ acker' = "range"
    /\ batch' = NoFetch
    /\ receiver' = "range"
    /\ running' = {}
    /\ start' = committed
    /\ UNCHANGED <<committed, starts, finished, acknowledged, skipped>>

(* ProcessQueue has returned. *)
Terminated == AllDone /\ UNCHANGED vars

ConsumerNext ==
    \/ ConsumerStep(ConsumeCancelled)
    \/ ConsumerStep(ConsumeEndOfQueue)
    \/ ConsumerStep(ForwardCancelled)

AckerNext ==
    \/ TakeFetch
    \/ FetchesEnd
    \/ Acknowledged
    \/ \E fate \in {"applied", "lost"} : AcknowledgeFails(fate)
    \/ SendRecord
    \/ SendCancelled

ReceiverNext == RecordsEnd \/ WaitReturns

Next ==
    \/ ConsumerStep(Cancel)
    \/ ConsumerStep(CloseSource)
    \/ \E n \in 0 .. MaxBatch : ConsumerStep(HandOver(n))
    \/ ConsumerNext
    \/ AckerNext
    \/ ReceiverNext
    \/ \E record \in Record : ProcessReturns(record)
    \/ Restart
    \/ Terminated

Spec == Init /\ [][Next]_vars

(* As in AtLeastOnce: goroutines run, commits are answered, and every call *)
(* of the Processor returns.                                               *)
Fairness ==
    /\ WF_vars(ConsumerNext)
    /\ WF_vars(AckerNext)
    /\ WF_vars(ReceiverNext)
    /\ \A record \in Record : WF_vars(ProcessReturns(record))

FairSpec == Spec /\ Fairness

-----------------------------------------------------------------------------
(***************************************************************************)
(* Safety.                                                                 *)
(***************************************************************************)

(* No record is given to the Processor twice, over any number of sessions  *)
(* and however commits fail: what a session sends it has committed, and    *)
(* what was committed no later session polls.                              *)
NeverTwice == \A record \in Record : starts[record] <= 1

(* A record is given to the Processor only with the group's offset past    *)
(* it, so a crash at any point of its processing cannot bring it back.     *)
StartedAfterCommit == \A record \in Record : starts[record] > 0 => record < committed

(* What can be lost silently: of the records whose acknowledgement         *)
(* succeeded, at most one fetch a session is never given to the Processor. *)
LossWindow ==
    Cardinality({record \in acknowledged : starts[record] = 0}) <= MaxBatch * (restarts + 1)

(* Closing the partition channel loses nothing that was acknowledged: a    *)
(* runtime that returns uncancelled has seen the Processor return for each *)
(* record it was handed, except those of a failed acknowledgement.         *)
DrainedOnClose ==
    AllDone /\ ctx = "live" => start .. polled - 1 \subseteq finished \union skipped

(* The pipeline implements at-most-once delivery. *)
Delivery == INSTANCE AtMostOnceDelivery
DeliversAtMostOnce == Delivery!Spec

(***************************************************************************)
(* Liveness, under FairSpec.                                               *)
(***************************************************************************)

(* In any session a cancelled runtime returns, whatever each goroutine was *)
(* waiting for, unless the process dies first.                             *)
CancelledReturns ==
    \A s \in 0 .. MaxRestarts :
        restarts = s /\ ctx = "cancelled" ~> AllDone \/ restarts > s

(* A record that its session acknowledged is processed, unless the runtime *)
(* is cancelled or its process dies.                                       *)
AcknowledgedIsProcessed ==
    \A s \in 0 .. MaxRestarts : \A record \in Record :
        restarts = s /\ record \in acknowledged /\ record >= start
            ~> record \in finished \/ ctx = "cancelled" \/ restarts > s

-----------------------------------------------------------------------------
(***************************************************************************)
(* Why the safety properties hold: an inductive invariant.                 *)
(***************************************************************************)

(* A closed channel is one whose sender has returned. *)
ChannelsFollowSenders ==
    /\ "fetchCh" \in open <=> consumer \notin Returned
    /\ "recordCh" \in open <=> acker # "done"
    /\ receiver # "range" => acker = "done"
    /\ receiver = "done" => running = {}

(* A fetch that is not committed begins at the group's offset or later, one *)
(* that is being sent ends before it, and the fetches do not overlap.       *)
FetchesInOrder ==
    /\ committed <= polled /\ batch.next <= polled
    /\ acker = "commit" => committed <= batch.first /\ batch.first <= batch.next
    /\ acker = "send" => HasRecord(batch) /\ batch.next <= committed
    /\ acker \in {"range", "done"} => ~HasRecord(batch)
    /\ IF consumer = "forward"
       THEN /\ committed <= held.first /\ held.first <= held.next
            /\ held.next = polled /\ batch.next <= held.first
       ELSE ~HasRecord(held)

(* What is still to be sent, or to be committed, was never sent before. *)
NotYetStarted ==
    \A record \in Record :
        record >= committed \/ (acker = "send" /\ record \in Records(batch))
            => starts[record] = 0

(* While nothing is cancelled a record handed over is somewhere. *)
Accounted ==
    ctx = "live" =>
        start .. polled - 1 \subseteq
            finished \union skipped \union running \union Records(batch) \union Records(held)

(* The invariant the proofs of AtMostOnceProofs rest on: commits run ahead *)
(* of the sends, in order, and no record is mislaid between goroutines.    *)
IInv ==
    /\ TypeOK
    /\ NeverTwice
    /\ ChannelsFollowSenders
    /\ FetchesInOrder
    /\ NotYetStarted
    /\ Accounted
=============================================================================
