----------------------------- MODULE AtLeastOnce -----------------------------
(***************************************************************************)
(* One partition under at-least-once delivery: the three goroutines that   *)
(* ProcessQueue of queue/kafka/at_least_once.go starts,                    *)
(*                                                                         *)
(*   consumeFetches --fetchCh--> processFetches --recordCh-->              *)
(*                                               acknowledgeRecords        *)
(*                                                                         *)
(* the Processor and the broker they call, and the sessions of the         *)
(* partition: the process dies, or the partition moves, and a new runtime  *)
(* starts at the committed offset.                                         *)
(***************************************************************************)
EXTENDS ConsumeFetches, Sequences

CONSTANTS
    Outcomes,      \* what Processor.Process may do: "ok", "error", "panic"
    MaxRestarts    \* bound on the sessions that follow the first

ASSUME OutcomesAssumption == Outcomes \subseteq {"ok", "error", "panic"}
ASSUME RestartsAssumption == MaxRestarts \in Nat

VARIABLES
    processor,    \* where processFetches is: "panicked" if the Processor did
    batch,        \* the records of its fetch it has not passed on
    acker,        \* where acknowledgeRecords is
    acking,       \* the record it is committing
    committed,    \* the consumer group's offset for the partition (broker)
    restarts,     \* sessions started after the first
    (* history *)
    start,        \* the offset this session started at
    order,        \* the records handled in this session, in that order
    handled,      \* the records Process returned for, in any session
    succeeded,    \* those of them it returned nil for
    commits       \* "lost" once some commit did not reach the broker

pipelineVars == <<processor, batch, acker, acking>>
historyVars == <<start, order, handled, succeeded, commits>>
vars == <<consumerVars, pipelineVars, committed, restarts, historyVars>>

TypeOK ==
    /\ ConsumerTypeOK
    /\ processor \in {"range", "process", "send", "done", "panicked"}
    /\ batch \in Fetch
    /\ acker \in {"range", "commit", "done"}
    /\ acking \in Offset
    /\ committed \in Offset
    /\ restarts \in 0 .. MaxRestarts
    /\ start \in Offset
    /\ order \in Seq(Offset)
    /\ handled \subseteq Offset
    /\ succeeded \subseteq Offset
    /\ commits \in {"kept", "lost"}

Init ==
    /\ ConsumerInit
    /\ processor = "range"
    /\ batch = NoFetch
    /\ acker = "range"
    /\ acking = 0
    /\ committed = 0
    /\ restarts = 0
    /\ start = 0
    /\ order = << >>
    /\ handled = {}
    /\ succeeded = {}
    /\ commits = "kept"

ConsumerStep(A) == A /\ UNCHANGED <<pipelineVars, committed, restarts, historyVars>>

-----------------------------------------------------------------------------
(***************************************************************************)
(* processFetches: for every record of every fetch, process, then send.    *)
(***************************************************************************)
ResumeBatch(f) ==
    /\ batch' = f
    /\ processor' = IF HasRecord(f) THEN "process" ELSE "range"

(* The deferred close of recordCh. *)
LeaveProcessor(how) ==
    /\ processor' = how
    /\ batch' = NoFetch
    /\ open' = open \ {"recordCh"}
    /\ UNCHANGED <<ctx, polled, consumer, held>>

TakeFetch ==
    /\ processor = "range"
    /\ Forward
    /\ ResumeBatch(held)
    /\ UNCHANGED <<acker, acking, committed, restarts, historyVars>>

FetchesEnd ==
    /\ processor = "range"
    /\ "fetchCh" \notin open
    /\ LeaveProcessor("done")
    /\ UNCHANGED <<acker, acking, committed, restarts, historyVars>>

(* process() logs the Processor's error and returns; a panic unwinds the   *)
(* goroutine through its deferred close.                                   *)
ProcessReturns(outcome) ==
    /\ processor = "process"
    /\ outcome # "panic"
    /\ processor' = "send"
    /\ order' = Append(order, batch.first)
    /\ handled' = handled \union {batch.first}
    /\ succeeded' = IF outcome = "ok" THEN succeeded \union {batch.first} ELSE succeeded
    /\ UNCHANGED <<consumerVars, batch, acker, acking, committed, restarts, start, commits>>

ProcessPanics ==
    /\ processor = "process"
    /\ LeaveProcessor("panicked")
    /\ UNCHANGED <<acker, acking, committed, restarts, historyVars>>

(* The send of the record in hand meets the acknowledger's receive. *)
SendThenResume(rest) ==
    /\ processor = "send"
    /\ acker = "range"
    /\ acker' = "commit"
    /\ acking' = batch.first
    /\ ResumeBatch(rest)
    /\ UNCHANGED <<consumerVars, committed, restarts, historyVars>>

(* Mutant of SendRecord: the loop does not move on to the next record. *)
SendRecordStays == SendThenResume(batch)

SendRecord == SendThenResume(Interval(batch.first + 1, batch.next))

(* Mutant of SendCancelled: the Done branch leaves the select, not the loop. *)
SendCancelledGoesOn ==
    /\ processor = "send"
    /\ ctx = "cancelled"
    /\ ResumeBatch(Interval(batch.first + 1, batch.next))
    /\ UNCHANGED <<consumerVars, acker, acking, committed, restarts, historyVars>>

SendCancelled ==
    /\ processor = "send"
    /\ ctx = "cancelled"
    /\ LeaveProcessor("done")
    /\ UNCHANGED <<acker, acking, committed, restarts, historyVars>>

(***************************************************************************)
(* acknowledgeRecords: commit each record, one at a time; an error is      *)
(* logged and the record forgotten.                                        *)
(***************************************************************************)

(* CommitRecords of one record sets the group's offset after it, unless    *)
(* the request does not reach the broker.  An answer that gets lost is an  *)
(* error of the client and a commit of the broker: same state as a commit. *)
CommitAs(offset, next, fate) ==
    /\ acker = "commit"
    /\ acker' = next
    /\ committed' = IF fate = "applied" THEN offset ELSE committed
    /\ commits' = IF fate = "applied" THEN commits ELSE "lost"
    /\ UNCHANGED <<consumerVars, processor, batch, acking, restarts, start, order,
                   handled, succeeded>>

(* Mutants of Commit: it commits all that was polled, as automatic commits *)
(* do; it returns on an error instead of going on.                         *)
CommitPolled(fate) == CommitAs(polled, "range", fate)

CommitOrReturn(fate) ==
    CommitAs(acking + 1, IF fate = "applied" THEN "range" ELSE "done", fate)

Commit(fate) == CommitAs(acking + 1, "range", fate)

RecordsEnd ==
    /\ acker = "range"
    /\ "recordCh" \notin open
    /\ acker' = "done"
    /\ UNCHANGED <<consumerVars, processor, batch, acking, committed, restarts, historyVars>>

-----------------------------------------------------------------------------
AllDone ==
    /\ consumer \in Returned
    /\ processor \in {"done", "panicked"}
    /\ acker = "done"

(* A new runtime for the partition, at the committed offset: after a crash *)
(* at any point, or after the last runtime returned.                       *)
Restart ==
    /\ restarts < MaxRestarts
    /\ restarts' = restarts + 1
    /\ ConsumerRestartsAt(committed)
    /\ processor' = "range"
    /\ batch' = NoFetch
    /\ acker' = "range"
    /\ acking' = 0
    /\ start' = committed
    /\ order' = << >>
    /\ UNCHANGED <<committed, handled, succeeded, commits>>

(* ProcessQueue has returned. *)
Terminated == AllDone /\ UNCHANGED vars

ConsumerNext ==
    \/ ConsumerStep(ConsumeCancelled)
    \/ ConsumerStep(ConsumeEndOfQueue)
    \/ ConsumerStep(ForwardCancelled)

ProcessorNext ==
    \/ TakeFetch
    \/ FetchesEnd
    \/ \E outcome \in Outcomes : ProcessReturns(outcome)
    \/ "panic" \in Outcomes /\ ProcessPanics
    \/ SendRecord
    \/ SendCancelled

AckerNext ==
    \/ \E fate \in {"applied", "lost"} : Commit(fate)
    \/ RecordsEnd

Next ==
    \/ ConsumerStep(Cancel)
    \/ ConsumerStep(CloseSource)
    \/ \E n \in 0 .. MaxBatch : ConsumerStep(HandOver(n))
    \/ ConsumerNext
    \/ ProcessorNext
    \/ AckerNext
    \/ Restart
    \/ Terminated

Spec == Init /\ [][Next]_vars

(***************************************************************************)
(* Goroutines that can take a step eventually do, the Processor returns    *)
(* or panics, and a commit request is answered.  Nothing forces the event  *)
(* loop to hand over, close or cancel.                                     *)
(***************************************************************************)
Fairness ==
    /\ WF_vars(ConsumerNext)
    /\ WF_vars(ProcessorNext)
    /\ WF_vars(AckerNext)

FairSpec == Spec /\ Fairness

-----------------------------------------------------------------------------
(***************************************************************************)
(* Safety.                                                                 *)
(***************************************************************************)

(* Where the group resumes after a crash, every earlier record has been    *)
(* given to the Processor and come back, in this session or an earlier     *)
(* one: acknowledgeRecords commits only what processFetches sends it, and  *)
(* a lost commit covered by a later one is covered rightly.                *)
CommittedImpliesHandled == 0 .. committed - 1 \subseteq handled

(* A session handles its records in offset order from where it resumed,    *)
(* leaving none out and repeating none, across fetches, empty fetches and  *)
(* the two hand-overs between goroutines.                                  *)
HandledInOrder == \A i \in 1 .. Len(order) : order[i] = start + i - 1

(* How many records can be handled twice: as long as no commit was lost,   *)
(* at most the one being committed and the one waiting to be sent are      *)
(* beyond the group's offset, however the crash or cancellation falls.     *)
DuplicateWindow == commits = "kept" => handled \subseteq 0 .. committed + 1

(* Closing the partition channel loses nothing: a runtime that returns     *)
(* uncancelled and without a panic has handled every record handed to it   *)
(* and, unless a commit was lost, committed them all.                      *)
DrainedOnClose ==
    AllDone /\ ctx = "live" /\ processor = "done" =>
        /\ start .. polled - 1 \subseteq handled
        /\ commits = "lost" \/ committed = polled

(***************************************************************************)
(* Action property.                                                        *)
(***************************************************************************)

(* The group's offset never moves back, although CommitRecords overwrites  *)
(* it with whatever record it is given.                                    *)
CommitMovesForward == [][committed' >= committed]_vars

(* The pipeline implements at-least-once delivery.                         *)
Delivery == INSTANCE AtLeastOnceDelivery
DeliversAtLeastOnce == Delivery!Spec

(***************************************************************************)
(* Liveness, under FairSpec.                                               *)
(***************************************************************************)

(* In any session a cancelled runtime returns, whatever each goroutine was *)
(* waiting for, unless the process dies first.                             *)
CancelledReturns ==
    \A s \in 0 .. MaxRestarts :
        restarts = s /\ ctx = "cancelled" ~> AllDone \/ restarts > s

(* A runtime whose channel is closed returns by itself, with no            *)
(* cancellation, provided its Processor does not panic.                    *)
ClosedReturns ==
    \A s \in 0 .. MaxRestarts :
        restarts = s /\ "partition" \notin open
            ~> AllDone \/ processor = "panicked" \/ restarts > s

(* A fetch handed to a runtime that keeps running is handled to its last   *)
(* record: no goroutine of the pipeline waits for another in a circle.     *)
HandedOverIsHandled ==
    \A s \in 0 .. MaxRestarts : \A n \in 1 .. LogEnd :
        restarts = s /\ polled = n
            ~> \/ start .. n - 1 \subseteq handled
               \/ ctx = "cancelled"
               \/ processor = "panicked"
               \/ restarts > s

-----------------------------------------------------------------------------
(***************************************************************************)
(* Why the safety properties hold: an inductive invariant.  Every offset   *)
(* of the session is in one place.  From the front of the pipeline back,   *)
(*                                                                         *)
(*   committed <= Passed <= Position <= FetchEnd <= polled                 *)
(*                                                                         *)
(* are the end of what the broker knows, of what the acknowledger was      *)
(* sent, of what was handled, and of what processFetches took.             *)
(***************************************************************************)
Position == start + Len(order)
Passed == IF processor = "send" THEN Position - 1 ELSE Position
FetchEnd == IF consumer = "forward" THEN held.first ELSE polled
InFlight == IF acker = "commit" THEN 1 ELSE 0

(* A closed channel is one whose sender has returned. *)
ChannelsFollowSenders ==
    /\ "fetchCh" \in open <=> consumer \notin Returned
    /\ "recordCh" \in open <=> processor \notin {"done", "panicked"}
    /\ acker = "done" => processor \in {"done", "panicked"}

Offsets ==
    /\ start <= committed
    /\ committed <= Passed
    /\ Position <= polled
    /\ 0 .. Position - 1 \subseteq handled

BatchAtPosition ==
    /\ processor = "process" => batch.first = Position
    /\ processor = "send" => batch.first = Position - 1
    /\ processor \in {"process", "send"} => HasRecord(batch) /\ batch.next <= polled

HeldAtEnd ==
    consumer = "forward" => held.first <= held.next /\ held.next = polled

(* What was handed over and is not handled is in batch and held: only a    *)
(* cancelled consumeFetches drops a fetch.                                 *)
NothingBetween ==
    consumer \notin Returned \/ ctx = "live" =>
        /\ processor = "range" => Position = FetchEnd
        /\ processor \in {"process", "send"} => batch.next = FetchEnd
        /\ processor = "done" /\ ctx = "live" => consumer \in Returned /\ Position = polled

AckerBehind == acker = "commit" => committed <= acking /\ acking < Passed

(* Without a lost commit the broker is behind the acknowledger by the one  *)
(* record in flight.                                                       *)
CommitsKeepUp ==
    commits = "kept" =>
        /\ acker = "commit" => acking = committed
        /\ processor \in {"range", "process", "send"} \/ ctx = "live" => Passed = committed + InFlight

(* The invariant the proofs of AtLeastOnceProofs rest on: the sessions'    *)
(* offsets pass through the goroutines in order, none lost between them.   *)
IInv ==
    /\ TypeOK
    /\ HandledInOrder
    /\ DuplicateWindow
    /\ ChannelsFollowSenders
    /\ Offsets
    /\ BatchAtPosition
    /\ HeldAtEnd
    /\ NothingBetween
    /\ AckerBehind
    /\ CommitsKeepUp
=============================================================================
