---------------------------- MODULE ConsumerGroup ----------------------------
(***************************************************************************)
(* One partition and the runtimes that serve it one after the other.  A    *)
(* runtime whose partition is revoked is not waited for: it handles and    *)
(* commits what it was given beside the runtime of the next owner.  The    *)
(* pipelines of at_least_once.go and at_most_once.go are abstracted to     *)
(* positions in the partition; every runtime starts where the group's      *)
(* offset is when it is assigned the partition, and the broker takes a     *)
(* commit of any member of the group.                                      *)
(***************************************************************************)
EXTENDS Integers

CONSTANTS
    LogEnd,        \* the partition has the offsets 0 .. LogEnd - 1
    MaxRuntimes    \* bound on the assignments of the partition

ASSUME BoundAssumption == LogEnd \in Nat /\ MaxRuntimes \in Nat

Offset == 0 .. LogEnd - 1
Position == 0 .. LogEnd
RuntimeId == 1 .. MaxRuntimes
None == 0

VARIABLES
    mode,         \* the orchestrator of every member
    assigned,     \* the number of runtimes so far
    owner,        \* the runtime the partition is assigned to
    runtimes,     \* positions of each: the next record to be polled, handled, committed
    crashed,      \* the runtimes whose process died
    panicked,     \* those whose Processor panicked while the process lives on
    blocked,      \* the loop of the owner waits for another partition for good
    committed,    \* the group's offset
    handled,      \* history: the records given to a Processor
    twice,        \* history: those given to one more than once
    late          \* history: a runtime committed after its revocation

stalls == <<panicked, blocked>>
vars == <<mode, assigned, owner, runtimes, crashed, stalls, committed, handled, twice, late>>

Runtime == [polled : Position, handled : Position, committed : Position]

TypeOK ==
    /\ mode \in {"AtLeastOnce", "AtMostOnce"}
    /\ assigned \in 0 .. MaxRuntimes
    /\ owner \in {None} \union 1 .. assigned
    /\ runtimes \in [RuntimeId -> Runtime]
    /\ crashed \subseteq 1 .. assigned
    /\ panicked \subseteq 1 .. assigned
    /\ blocked \in BOOLEAN
    /\ committed \in Position
    /\ handled \subseteq Offset
    /\ twice \subseteq handled
    /\ late \in BOOLEAN

At(position) == [polled |-> position, handled |-> position, committed |-> position]

Init ==
    /\ mode \in {"AtLeastOnce", "AtMostOnce"}
    /\ assigned = 0
    /\ owner = None
    /\ runtimes = [r \in RuntimeId |-> At(0)]
    /\ crashed = {}
    /\ panicked = {}
    /\ blocked = FALSE
    /\ committed = 0
    /\ handled = {}
    /\ twice = {}
    /\ late = FALSE

-----------------------------------------------------------------------------
Alive(r) == r <= assigned /\ r \notin crashed

(* Mutants of Assign: a runtime starts with the first record, or the end. *)
AssignFirst ==
    /\ owner = None
    /\ assigned < MaxRuntimes
    /\ assigned' = assigned + 1
    /\ owner' = assigned + 1
    /\ runtimes' = [runtimes EXCEPT ![assigned + 1] = At(0)]
    /\ UNCHANGED <<mode, crashed, stalls, committed, handled, twice, late>>

AssignEnd ==
    /\ owner = None
    /\ assigned < MaxRuntimes
    /\ assigned' = assigned + 1
    /\ owner' = assigned + 1
    /\ runtimes' = [runtimes EXCEPT ![assigned + 1] = At(LogEnd)]
    /\ UNCHANGED <<mode, crashed, stalls, committed, handled, twice, late>>

Assign ==
    /\ owner = None
    /\ assigned < MaxRuntimes
    /\ assigned' = assigned + 1
    /\ owner' = assigned + 1
    /\ runtimes' = [runtimes EXCEPT ![assigned + 1] = At(committed)]
    /\ UNCHANGED <<mode, crashed, stalls, committed, handled, twice, late>>

(* The callback returns before the runtime does.  A member whose loop is   *)
(* blocked does not answer it and is left behind by the group.             *)
Revoke ==
    /\ owner # None
    /\ owner' = None
    /\ blocked' = FALSE
    /\ UNCHANGED <<mode, assigned, runtimes, crashed, panicked, committed, handled, twice, late>>

(* What the process had in hand is gone. *)
Crash(r) ==
    /\ Alive(r)
    /\ crashed' = crashed \union {r}
    /\ panicked' = panicked \ {r}
    /\ runtimes' = [runtimes EXCEPT ![r] = At(0)]
    /\ owner' = IF owner = r THEN None ELSE owner
    /\ blocked' = (blocked /\ owner # r)
    /\ UNCHANGED <<mode, assigned, committed, handled, twice, late>>

(* handleFetch sends to the runtime of another partition that receives no  *)
(* more, since its Processor hangs or panicked: no fetch comes any more.   *)
LoopBlocks ==
    /\ owner # None /\ ~blocked
    /\ blocked' = TRUE
    /\ UNCHANGED <<mode, assigned, owner, runtimes, crashed, panicked, committed, handled,
                   twice, late>>

Poll(r) ==
    /\ r = owner /\ ~blocked
    /\ \E end \in runtimes[r].polled + 1 .. LogEnd :
          runtimes' = [runtimes EXCEPT ![r].polled = end]
    /\ UNCHANGED <<mode, assigned, owner, crashed, stalls, committed, handled, twice, late>>

(* The record at the position goes to the Processor. *)
Handles(r, limit) ==
    LET offset == runtimes[r].handled IN
    /\ Alive(r)
    /\ offset < limit
    /\ runtimes' = [runtimes EXCEPT ![r].handled = offset + 1]
    /\ handled' = handled \union {offset}
    /\ twice' = IF offset \in handled THEN twice \union {offset} ELSE twice
    /\ UNCHANGED <<mode, assigned, owner, crashed, stalls, committed, late>>

(* An answered commit was applied; one that fails may have been. *)
Commits(r, position) ==
    /\ committed' = position
    /\ late' = (late \/ r # owner)
CommitFails(r, position) ==
    Commits(r, position) \/ UNCHANGED <<committed, late>>

(* At least once: a record is committed after it is handled; one waits for *)
(* acknowledgeRecords at most while another is committed.                  *)
ProcessorReady(r) ==
    /\ mode = "AtLeastOnce" /\ r \notin panicked
    /\ runtimes[r].handled < runtimes[r].committed + 2

HandleRecord(r) == ProcessorReady(r) /\ Handles(r, runtimes[r].polled)

(* The panic unwinds processFetches: the runtime handles nothing more, and *)
(* consumeFetches waits for a receiver while the process lives.  Records   *)
(* sent before are still committed.                                        *)
ProcessorPanics(r) ==
    /\ ProcessorReady(r) /\ Alive(r)
    /\ runtimes[r].handled < runtimes[r].polled
    /\ panicked' = panicked \union {r}
    /\ UNCHANGED <<mode, assigned, owner, runtimes, crashed, blocked, committed, handled,
                   twice, late>>

(* Mutant of AcknowledgeRecord: a record is committed as it is received. *)
AcknowledgePolled(r) ==
    LET next == runtimes[r].committed + 1 IN
    /\ mode = "AtLeastOnce" /\ Alive(r)
    /\ next <= runtimes[r].polled
    /\ runtimes' = [runtimes EXCEPT ![r].committed = next]
    /\ Commits(r, next) \/ CommitFails(r, next)
    /\ UNCHANGED <<mode, assigned, owner, crashed, stalls, handled, twice>>

AcknowledgeRecord(r) ==
    LET next == runtimes[r].committed + 1 IN
    /\ mode = "AtLeastOnce" /\ Alive(r)
    /\ next <= runtimes[r].handled
    /\ runtimes' = [runtimes EXCEPT ![r].committed = next]
    /\ Commits(r, next) \/ CommitFails(r, next)
    /\ UNCHANGED <<mode, assigned, owner, crashed, stalls, handled, twice>>

(* At most once: a fetch is committed and its records are started then; if *)
(* the commit fails they are dropped.                                      *)
AcknowledgeFetch(r) ==
    /\ mode = "AtMostOnce" /\ Alive(r)
    /\ runtimes[r].handled = runtimes[r].committed
    /\ \E end \in runtimes[r].committed + 1 .. runtimes[r].polled :
          \/ /\ Commits(r, end)
             /\ runtimes' = [runtimes EXCEPT ![r].committed = end]
          \/ /\ CommitFails(r, end)
             /\ runtimes' = [runtimes EXCEPT ![r].committed = end, ![r].handled = end]
    /\ UNCHANGED <<mode, assigned, owner, crashed, stalls, handled, twice>>

(* Mutant of StartRecord: the records are started before their commit. *)
StartPolled(r) == mode = "AtMostOnce" /\ Handles(r, runtimes[r].polled)

StartRecord(r) == mode = "AtMostOnce" /\ Handles(r, runtimes[r].committed)

Works(r) == HandleRecord(r) \/ AcknowledgeRecord(r) \/ AcknowledgeFetch(r) \/ StartRecord(r)

(* All is polled and done, or nobody is left to do it. *)
Quiet ==
    /\ \A r \in 1 .. assigned :
          \/ ~Alive(r)
          \/ r \in panicked /\ runtimes[r].committed = runtimes[r].handled
          \/ runtimes[r].committed = runtimes[r].polled /\ runtimes[r].handled = runtimes[r].polled
    /\ UNCHANGED vars

Next ==
    \/ Assign \/ Revoke \/ LoopBlocks
    \/ \E r \in RuntimeId : Crash(r) \/ ProcessorPanics(r) \/ Poll(r) \/ Works(r)
    \/ Quiet

(* Polls return while the loop is not blocked, Processors return unless    *)
(* they panic, and goroutines are scheduled; nothing has to be assigned,   *)
(* revoked or lost.                                                        *)
Fairness == \A r \in RuntimeId : WF_vars(Poll(r)) /\ WF_vars(Works(r))

Spec == Init /\ [][Next]_vars /\ Fairness

-----------------------------------------------------------------------------
(* However many runtimes of the partition run side by side, and however    *)
(* far their late commits move the group's offset, at-least-once delivery  *)
(* never commits past a record that no Processor was given.                *)
CommittedImpliesHandled ==
    mode = "AtLeastOnce" => \A offset \in 0 .. committed - 1 : offset \in handled

(* At-most-once delivery gives a record to a Processor twice only if a     *)
(* runtime committed a fetch after its partition was revoked.              *)
NeverTwiceUnlessLate == mode = "AtMostOnce" /\ twice # {} => late

(* The group's offset moves back only after such a late commit, by the     *)
(* runtime that is late or by an owner it had overtaken.                   *)
MovesBackOnlyWhenLate == [][committed' < committed => late']_vars

(* Once the partition stays with a runtime, at-least-once delivery gives   *)
(* every record to a Processor, whatever offset late commits left to start *)
(* from and whatever became of the runtimes before it.  Two things end     *)
(* this for good while the process lives and keeps the partition: a panic  *)
(* of the owner's own Processor, and a loop that waits for another         *)
(* partition.                                                              *)
OwnerServes == owner # None /\ owner \notin panicked /\ ~blocked

OwnerHandlesAll ==
    mode = "AtLeastOnce" /\ <>[]OwnerServes => <>(handled = Offset)
=============================================================================
