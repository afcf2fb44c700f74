--------------------------- MODULE ConsumeFetches ---------------------------
(***************************************************************************)
(* The first goroutine of every partition runtime, consumeFetches of       *)
(* queue/kafka/runtime.go, between two unbuffered channels: the partition  *)
(* channel, which the event loop fills and closes, and fetchCh, which      *)
(* consumeFetches fills and closes.                                        *)
(*                                                                         *)
(* A record is its offset.  The broker hands a partition's records out in  *)
(* offset order, so a fetch is an interval of offsets, first .. next - 1.  *)
(* An unbuffered channel has no state of its own besides open or closed: a *)
(* send and its receive are one step of the two goroutines.  Here is the   *)
(* sending half of fetchCh (Forward); the pipelines that extend this       *)
(* module conjoin it with their receiving half.                            *)
(***************************************************************************)
EXTENDS Integers

CONSTANTS
    LogEnd,     \* the partition holds the records 0 .. LogEnd - 1
    MaxBatch    \* the most records one fetch carries

ASSUME LogAssumption == LogEnd \in Nat /\ MaxBatch \in Nat

VARIABLES
    ctx,         \* "live" until the context of the pool is cancelled
    open,        \* the channels of the runtime that are not closed
    polled,      \* the offset after the last one handed over
    consumer,    \* where the goroutine is: "failed" is a return of ctx.Err()
    held         \* the fetch it holds while forwarding

consumerVars == <<ctx, open, polled, consumer, held>>

Channel == {"partition", "fetchCh", "recordCh"}
Returned == {"done", "failed"}

Offset == 0 .. LogEnd
Fetch == [first : Offset, next : Offset]
Interval(first, next) == [first |-> first, next |-> next]
NoFetch == Interval(0, 0)

Records(f) == f.first .. f.next - 1
HasRecord(f) == f.first < f.next

ConsumerTypeOK ==
    /\ ctx \in {"live", "cancelled"}
    /\ open \subseteq Channel
    /\ polled \in Offset
    /\ consumer \in {"consume", "forward"} \union Returned
    /\ held \in Fetch

ConsumerInit ==
    /\ ctx = "live"
    /\ open = Channel
    /\ polled = 0
    /\ consumer = "consume"
    /\ held = NoFetch

RestartsFrom(offset) ==
    /\ ctx' = "live"
    /\ open' = Channel
    /\ polled' = offset
    /\ consumer' = "consume"
    /\ held' = NoFetch

(* Mutant of ConsumerRestartsAt: the new runtime ignores the group's offset. *)
RestartsAtBeginning(offset) == RestartsFrom(0)

(* A later runtime of the partition starts with a new context and new      *)
(* channels, at the offset its consumer group committed.                   *)
ConsumerRestartsAt(offset) == RestartsFrom(offset)

(***************************************************************************)
(* What happens around the goroutine: the application's context ends, the  *)
(* event loop closes the partition channel (revoked, lost or shut down).   *)
(***************************************************************************)
Cancel ==
    /\ ctx = "live"
    /\ ctx' = "cancelled"
    /\ UNCHANGED <<open, polled, consumer, held>>

CloseSource ==
    /\ "partition" \in open
    /\ open' = open \ {"partition"}
    /\ UNCHANGED <<ctx, polled, consumer, held>>

(* The event loop's send of a fetch meets Consume.  The fetch may carry no *)
(* record: handleFetch forwards whatever partition PollFetches reports.    *)
HandOver(n) ==
    /\ "partition" \in open
    /\ consumer = "consume"
    /\ polled + n \in Offset
    /\ polled' = polled + n
    /\ held' = Interval(polled, polled + n)
    /\ consumer' = "forward"
    /\ UNCHANGED <<ctx, open>>

(***************************************************************************)
(* The goroutine.  Go's select takes any ready branch, so a cancelled      *)
(* context does not stop Consume from taking a fetch or seeing the close.  *)
(***************************************************************************)
(* Mutant of Return: the goroutine leaves fetchCh open. *)
ReturnWithoutClose(how) ==
    /\ consumer' = how
    /\ held' = NoFetch
    /\ UNCHANGED <<ctx, open, polled>>

Return(how) ==
    /\ consumer' = how
    /\ held' = NoFetch
    /\ open' = open \ {"fetchCh"}
    /\ UNCHANGED <<ctx, polled>>

ConsumeCancelled ==
    /\ consumer = "consume"
    /\ ctx = "cancelled"
    /\ Return("failed")

ConsumeEndOfQueue ==
    /\ consumer = "consume"
    /\ "partition" \notin open
    /\ Return("done")

(* Mutants of ForwardCancelled: a send without a select, and one that gives *)
(* up as soon as the partition is revoked.                                 *)
ForwardNeverCancelled == consumer = "forward" /\ FALSE /\ Return("done")

ForwardGivesUpOnClose ==
    /\ consumer = "forward"
    /\ ctx = "cancelled" \/ "partition" \notin open
    /\ Return("done")

ForwardCancelled ==
    /\ consumer = "forward"
    /\ ctx = "cancelled"
    /\ Return("done")

Forward ==
    /\ consumer = "forward"
    /\ consumer' = "consume"
    /\ held' = NoFetch
    /\ UNCHANGED <<ctx, open, polled>>

=============================================================================
