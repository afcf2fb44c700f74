-------------------------- MODULE AtLeastOnceProofs --------------------------
(***************************************************************************)
(* Proofs about AtLeastOnce for every LogEnd, MaxBatch, MaxRestarts and    *)
(* Outcomes: the inductive invariant IInv, the safety properties it        *)
(* implies, and the refinement of AtLeastOnceDelivery.                     *)
(***************************************************************************)
EXTENDS AtLeastOnce, TLAPS

(* The definitions every step of the invariance proof looks at. *)
USE LogAssumption, RestartsAssumption DEF Offset, Fetch, Interval, NoFetch, HasRecord, Channel, Returned

(* The first session starts with empty channels at offset 0. *)
LEMMA InitIInv == Init => IInv
  BY DEF Init, ConsumerInit, IInv, TypeOK, ConsumerTypeOK, HandledInOrder,
         DuplicateWindow, ChannelsFollowSenders, Offsets, BatchAtPosition,
         HeldAtEnd, NothingBetween, AckerBehind, CommitsKeepUp, Position,
         Passed, FetchEnd, InFlight

-----------------------------------------------------------------------------
(* Every action of Next preserves IInv; one step per action. *)
LEMMA NextIInv == IInv /\ [Next]_vars => IInv'
<1> SUFFICES ASSUME IInv, [Next]_vars PROVE IInv'
  OBVIOUS
<1> USE DEF IInv, TypeOK, ConsumerTypeOK, HandledInOrder, DuplicateWindow,
         ChannelsFollowSenders, Offsets, BatchAtPosition, HeldAtEnd,
         NothingBetween, AckerBehind, CommitsKeepUp, Position, Passed,
         FetchEnd, InFlight
<1>1. CASE ConsumerStep(Cancel)
  BY <1>1 DEF ConsumerStep, Cancel, pipelineVars, historyVars
<1>2. CASE ConsumerStep(CloseSource)
  BY <1>2 DEF ConsumerStep, CloseSource, pipelineVars, historyVars
<1>3. ASSUME NEW n \in 0 .. MaxBatch, ConsumerStep(HandOver(n)) PROVE IInv'
  BY <1>3 DEF ConsumerStep, HandOver, pipelineVars, historyVars
<1>4. CASE ConsumerNext
  <2>1. CASE ConsumerStep(ConsumeCancelled)
    BY <2>1 DEF ConsumerStep, ConsumeCancelled, Return, pipelineVars, historyVars
  <2>2. CASE ConsumerStep(ConsumeEndOfQueue)
    BY <2>2 DEF ConsumerStep, ConsumeEndOfQueue, Return, pipelineVars, historyVars
  <2>3. CASE ConsumerStep(ForwardCancelled)
    BY <2>3 DEF ConsumerStep, ForwardCancelled, Return, pipelineVars, historyVars
  <2> HIDE DEF IInv
  <2> QED
    BY <1>4, <2>1, <2>2, <2>3 DEF ConsumerNext
<1>5. CASE TakeFetch
  BY <1>5 DEF TakeFetch, Forward, ResumeBatch, historyVars
<1>6. CASE FetchesEnd
  BY <1>6 DEF FetchesEnd, LeaveProcessor, consumerVars, historyVars
<1>7. ASSUME NEW outcome \in Outcomes, ProcessReturns(outcome) PROVE IInv'
  <2> USE <1>7 DEF ProcessReturns, consumerVars
  <2>1. /\ batch.first = Position
        /\ Len(order') = Len(order) + 1
        /\ order' \in Seq(0 .. LogEnd)
        /\ order'[Len(order) + 1] = Position
        /\ \A i \in 1 .. Len(order) : order'[i] = order[i]
    OBVIOUS
  <2>2. TypeOK'
    BY <2>1
  <2>3. HandledInOrder'
    BY <2>1
  <2>4. DuplicateWindow'
    <3>1. commits = "kept" => batch.first \in Int /\ batch.first <= committed + 1
      BY <2>1
    <3>2. batch.first \in Int /\ 0 <= batch.first /\ committed \in Int
      OBVIOUS
    <3>3. commits = "kept" => handled \subseteq 0 .. committed + 1
      OBVIOUS
    <3>4. /\ handled' = handled \union {batch.first}
          /\ committed' = committed
          /\ commits' = commits
      OBVIOUS
    <3> QED
      BY ONLY <3>1, <3>2, <3>3, <3>4 DEF DuplicateWindow
  <2>5. Offsets'
    BY <2>1
  <2>6. ChannelsFollowSenders' /\ BatchAtPosition' /\ HeldAtEnd' /\ NothingBetween'
    BY <2>1
  <2>7. AckerBehind' /\ CommitsKeepUp'
    BY <2>1
  <2> QED
    BY <2>2, <2>3, <2>4, <2>5, <2>6, <2>7
<1>8. CASE ProcessPanics
  BY <1>8 DEF ProcessPanics, LeaveProcessor, consumerVars, historyVars
<1>9. CASE SendRecord
  BY <1>9 DEF SendRecord, SendThenResume, ResumeBatch, consumerVars, historyVars
<1>10. CASE SendCancelled
  BY <1>10 DEF SendCancelled, LeaveProcessor, consumerVars, historyVars
<1>11. ASSUME NEW fate \in {"applied", "lost"}, Commit(fate) PROVE IInv'
  BY <1>11 DEF Commit, CommitAs, consumerVars
<1>12. CASE RecordsEnd
  BY <1>12 DEF RecordsEnd, consumerVars, historyVars
<1>13. CASE Restart
  <2> USE <1>13 DEF Restart, ConsumerRestartsAt, RestartsFrom
  <2>1. Len(order') = 0 /\ order' \in Seq(0 .. LogEnd)
    OBVIOUS
  <2>2. 0 .. committed - 1 \subseteq handled
    <3>1. committed <= Position /\ committed \in Int /\ Position \in Int
      OBVIOUS
    <3>2. 0 .. committed - 1 \subseteq 0 .. Position - 1
      <4> HIDE DEF Position
      <4> QED
        BY <3>1
    <3>3. 0 .. Position - 1 \subseteq handled
      OBVIOUS
    <3> QED
      BY <3>2, <3>3
  <2>3. TypeOK' /\ HandledInOrder' /\ DuplicateWindow'
    BY <2>1
  <2>4. Offsets'
    BY <2>1, <2>2
  <2>5. ChannelsFollowSenders' /\ BatchAtPosition' /\ HeldAtEnd' /\ NothingBetween'
    BY <2>1
  <2>6. AckerBehind' /\ CommitsKeepUp'
    BY <2>1
  <2> QED
    BY <2>3, <2>4, <2>5, <2>6
<1>14. CASE UNCHANGED vars
  BY <1>14 DEF vars, consumerVars, pipelineVars, historyVars
<1> HIDE DEF IInv
<1> QED
  BY <1>1, <1>2, <1>3, <1>4, <1>5, <1>6, <1>7, <1>8, <1>9, <1>10, <1>11,
     <1>12, <1>13, <1>14 DEF Next, ProcessorNext, AckerNext, Terminated

-----------------------------------------------------------------------------
(* IInv holds in every reachable state. *)
THEOREM InductiveInvariant == Spec => []IInv
  BY InitIInv, NextIInv, PTL DEF Spec

(* The declared types hold in every reachable state. *)
THEOREM TypeCorrect == Spec => []TypeOK
<1>1. IInv => TypeOK
  BY DEF IInv
<1> QED
  BY <1>1, InductiveInvariant, PTL

(* What the group's offset covers was handled by the Processor, whatever   *)
(* is cancelled, closed, lost or restarted.                                *)
THEOREM CommitsOnlyHandled == Spec => []CommittedImpliesHandled
<1>1. IInv => CommittedImpliesHandled
  <2> SUFFICES ASSUME IInv PROVE 0 .. committed - 1 \subseteq handled
    BY DEF CommittedImpliesHandled
  <2>1. committed <= Position /\ committed \in Int /\ Position \in Int
    BY DEF IInv, TypeOK, ConsumerTypeOK, Offsets, Passed, Position
  <2>2. 0 .. committed - 1 \subseteq 0 .. Position - 1
    BY <2>1
  <2>3. 0 .. Position - 1 \subseteq handled
    BY DEF IInv, Offsets
  <2> QED
    BY <2>2, <2>3
<1> QED
  BY <1>1, InductiveInvariant, PTL

(* A session handles its records in offset order, without gap or repeat.   *)
THEOREM SessionsInOrder == Spec => []HandledInOrder
<1>1. IInv => HandledInOrder
  BY DEF IInv
<1> QED
  BY <1>1, InductiveInvariant, PTL

(* At most two handled records are beyond the group's offset while no      *)
(* commit is lost.                                                         *)
THEOREM BoundedDuplicates == Spec => []DuplicateWindow
<1>1. IInv => DuplicateWindow
  BY DEF IInv
<1> QED
  BY <1>1, InductiveInvariant, PTL

(* A runtime that returns after its channel was closed, uncancelled and    *)
(* without a panic, has handled and committed all it was handed.           *)
THEOREM CloseDrains == Spec => []DrainedOnClose
<1>1. IInv => DrainedOnClose
  <2> SUFFICES ASSUME IInv, AllDone, ctx = "live", processor = "done"
               PROVE  /\ start .. polled - 1 \subseteq handled
                      /\ commits = "lost" \/ committed = polled
    BY DEF DrainedOnClose
  <2>1. polled = Position
    BY DEF IInv, NothingBetween
  <2>2. 0 .. polled - 1 \subseteq handled
    BY <2>1 DEF IInv, Offsets
  <2>3. start .. polled - 1 \subseteq 0 .. polled - 1
    BY DEF IInv, TypeOK, ConsumerTypeOK
  <2>4. commits = "kept" => Position = committed
    BY DEF IInv, TypeOK, CommitsKeepUp, Passed, InFlight, AllDone
  <2> QED
    BY <2>1, <2>2, <2>3, <2>4 DEF IInv, TypeOK
<1> QED
  BY <1>1, InductiveInvariant, PTL

-----------------------------------------------------------------------------
(* A commit in a reachable state moves the offset forward, to the end of   *)
(* what was handled at most.                                               *)
LEMMA CommitAdvances ==
  ASSUME IInv, NEW fate \in {"applied", "lost"}, Commit(fate), fate = "applied"
  PROVE  /\ committed' = acking + 1
         /\ committed < committed'
         /\ committed' \in 1 .. LogEnd
         /\ 0 .. committed' - 1 \subseteq handled
<1>1. committed' = acking + 1
  BY DEF Commit, CommitAs
<1>2. committed <= acking /\ acking < Position
  BY DEF Commit, CommitAs, IInv, AckerBehind, Passed, Position, TypeOK
<1>3. /\ committed \in Int /\ committed >= 0 /\ acking \in Int
      /\ Position \in Int /\ Position <= polled /\ polled \in 0 .. LogEnd
  BY DEF IInv, TypeOK, ConsumerTypeOK, Position, Offsets
<1>4. 0 .. acking \subseteq 0 .. Position - 1
  BY <1>2, <1>3
<1>5. 0 .. Position - 1 \subseteq handled
  BY DEF IInv, Offsets
<1>6. acking + 1 - 1 = acking
  BY <1>3
<1> QED
  BY <1>1, <1>2, <1>3, <1>4, <1>5, <1>6

(* No other action writes committed. *)
LEMMA OnlyCommitMoves ==
  ASSUME [Next]_vars
  PROVE  \/ UNCHANGED committed
         \/ \E fate \in {"applied", "lost"} : Commit(fate)
  BY DEF Next, ConsumerStep, ConsumerNext, ProcessorNext, AckerNext, TakeFetch,
         FetchesEnd, ProcessReturns, ProcessPanics, SendRecord, SendThenResume,
         SendCancelled, RecordsEnd, Restart, Terminated, vars

(* The group's offset never moves back. *)
THEOREM OffsetMovesForward == Spec => CommitMovesForward
<1>1. IInv /\ [Next]_vars => committed' >= committed
  <2> SUFFICES ASSUME IInv, [Next]_vars PROVE committed' >= committed
    OBVIOUS
  <2>1. CASE UNCHANGED committed
    BY <2>1 DEF IInv, TypeOK
  <2>2. ASSUME NEW fate \in {"applied", "lost"}, Commit(fate)
        PROVE  committed' >= committed
    <3>1. CASE fate = "applied"
      <4>1. committed < committed' /\ committed' \in 1 .. LogEnd
        BY <2>2, <3>1, CommitAdvances
      <4> QED
        BY <4>1 DEF IInv, TypeOK
    <3>2. CASE fate = "lost"
      BY <2>2, <3>2 DEF Commit, CommitAs, IInv, TypeOK
    <3> QED
      BY <3>1, <3>2
  <2> QED
    BY <2>1, <2>2, OnlyCommitMoves
<1>2. IInv /\ [Next]_vars => [committed' >= committed]_vars
  BY <1>1
<1> QED
  BY <1>2, InductiveInvariant, PTL DEF Spec, CommitMovesForward

-----------------------------------------------------------------------------
(* The pipeline implements AtLeastOnceDelivery: a return of Process is a   *)
(* Handle, a commit that is applied is an Advance, and every other step    *)
(* leaves what the abstract specification sees as it was.                  *)
THEOREM ImplementsDelivery == Spec => DeliversAtLeastOnce
<1>1. Init => Delivery!Init
  BY DEF Init, Delivery!Init
<1>2. IInv /\ [Next]_vars => [Delivery!Next]_(Delivery!vars)
  <2> SUFFICES ASSUME IInv, [Next]_vars, ~ UNCHANGED <<handled, committed>>
               PROVE  Delivery!Next
    BY DEF Delivery!vars
  <2>1. ASSUME NEW outcome \in Outcomes, ProcessReturns(outcome)
        PROVE  Delivery!Next
    <3>1. batch.first \in 0 .. LogEnd - 1
      BY <2>1 DEF ProcessReturns, IInv, TypeOK, BatchAtPosition
    <3>2. Delivery!Handle(batch.first)
      BY <2>1 DEF ProcessReturns, Delivery!Handle
    <3> QED
      BY <3>1, <3>2 DEF Delivery!Next
  <2>2. ASSUME NEW fate \in {"applied", "lost"}, Commit(fate)
        PROVE  Delivery!Next
    <3>1. UNCHANGED handled
      BY <2>2 DEF Commit, CommitAs
    <3>2. fate = "applied"
      BY <2>2, <3>1 DEF Commit, CommitAs
    <3>3. Delivery!Advance(committed')
      BY <2>2, <3>1, <3>2, CommitAdvances DEF Delivery!Advance
    <3>4. committed' \in 1 .. LogEnd
      BY <2>2, <3>2, CommitAdvances
    <3> QED
      BY <3>3, <3>4 DEF Delivery!Next
  <2>3. \/ UNCHANGED <<handled, committed>>
        \/ \E outcome \in Outcomes : ProcessReturns(outcome)
        \/ \E fate \in {"applied", "lost"} : Commit(fate)
    BY DEF Next, ConsumerStep, ConsumerNext, ProcessorNext, AckerNext, TakeFetch,
           FetchesEnd, ProcessPanics, SendRecord, SendThenResume, SendCancelled,
           RecordsEnd, Restart, Terminated, vars, historyVars
  <2> QED
    BY <2>1, <2>2, <2>3
<1> QED
  BY <1>1, <1>2, InductiveInvariant, PTL DEF Spec, DeliversAtLeastOnce, Delivery!Spec
=============================================================================
