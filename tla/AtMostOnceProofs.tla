-------------------------- MODULE AtMostOnceProofs ---------------------------
(***************************************************************************)
(* Proofs about AtMostOnce for every LogEnd, MaxBatch and MaxRestarts: the *)
(* inductive invariant IInv, the safety properties it implies, and the     *)
(* refinement of AtMostOnceDelivery.                                       *)
(***************************************************************************)
EXTENDS AtMostOnce, FiniteSetTheorems, TLAPS

(* The definitions every step of the invariance proof looks at. *)
USE LogAssumption, RestartsAssumption
    DEF Offset, Record, Fetch, Interval, NoFetch, HasRecord, Records, Channel, Returned

(* The first session starts with empty channels at offset 0. *)
LEMMA InitIInv == Init => IInv
  BY DEF Init, ConsumerInit, IInv, TypeOK, ConsumerTypeOK, NeverTwice,
         ChannelsFollowSenders, FetchesInOrder, NotYetStarted, Accounted

-----------------------------------------------------------------------------
(* Every action of Next preserves IInv; one step per action. *)
LEMMA NextIInv == IInv /\ [Next]_vars => IInv'
<1> SUFFICES ASSUME IInv, [Next]_vars PROVE IInv'
  OBVIOUS
<1> USE DEF IInv, TypeOK, ConsumerTypeOK, NeverTwice, ChannelsFollowSenders,
            FetchesInOrder, NotYetStarted, Accounted
<1>1. CASE ConsumerStep(Cancel)
  BY <1>1 DEF ConsumerStep, Cancel, pipelineVars, historyVars
<1>2. CASE ConsumerStep(CloseSource)
  BY <1>2 DEF ConsumerStep, CloseSource, pipelineVars, historyVars
<1>3. ASSUME NEW n \in 0 .. MaxBatch, ConsumerStep(HandOver(n)) PROVE IInv'
  BY <1>3 DEF ConsumerStep, HandOver, pipelineVars, historyVars
<1>4. CASE ConsumerStep(ConsumeCancelled)
  BY <1>4 DEF ConsumerStep, ConsumeCancelled, Return, pipelineVars, historyVars
<1>5. CASE ConsumerStep(ConsumeEndOfQueue)
  <2>1. /\ consumer = "consume" /\ consumer' = "done" /\ held' = NoFetch
        /\ open' = open \ {"fetchCh"} /\ UNCHANGED <<ctx, polled>>
        /\ UNCHANGED <<pipelineVars, committed, restarts, historyVars>>
    BY <1>5 DEF ConsumerStep, ConsumeEndOfQueue, Return
  <2> USE <2>1 DEF pipelineVars, historyVars
  <2>2. TypeOK'
    OBVIOUS
  <2>3. NeverTwice' /\ ChannelsFollowSenders'
    OBVIOUS
  <2>4. FetchesInOrder' /\ NotYetStarted'
    OBVIOUS
  <2>5. Accounted'
    OBVIOUS
  <2> QED
    BY <2>2, <2>3, <2>4, <2>5
<1>6. CASE ConsumerStep(ForwardCancelled)
  BY <1>6 DEF ConsumerStep, ForwardCancelled, Return, pipelineVars, historyVars
<1>7. CASE TakeFetch
  BY <1>7 DEF TakeFetch, Forward, historyVars
<1>8. CASE FetchesEnd
  BY <1>8 DEF FetchesEnd, LeaveAcker, historyVars
<1>9. CASE Acknowledged
  <2> USE <1>9 DEF Acknowledged, Commits, ResumeBatch, consumerVars
  <2>1. TypeOK'
    <3>1. Records(batch) \subseteq Record
      OBVIOUS
    <3>2. committed' \in Offset
      OBVIOUS
    <3>3. batch' \in Fetch /\ acker' \in {"range", "send"}
      OBVIOUS
    <3> QED
      BY <3>1, <3>2, <3>3
  <2>2. NeverTwice'
    OBVIOUS
  <2>3. ChannelsFollowSenders'
    OBVIOUS
  <2>4. FetchesInOrder'
    OBVIOUS
  <2>5. NotYetStarted'
    OBVIOUS
  <2>6. Accounted'
    OBVIOUS
  <2> QED
    BY <2>1, <2>2, <2>3, <2>4, <2>5, <2>6
<1>10. ASSUME NEW fate \in {"applied", "lost"}, AcknowledgeFails(fate) PROVE IInv'
  <2> USE <1>10 DEF AcknowledgeFails, NotAcknowledged, Commits, ResumeBatch, consumerVars
  <2>1. TypeOK'
    <3>1. Records(batch) \subseteq Record
      OBVIOUS
    <3>2. committed' \in Offset
      OBVIOUS
    <3>3. batch' \in Fetch /\ acker' \in {"range", "send"}
      OBVIOUS
    <3> QED
      BY <3>1, <3>2, <3>3
  <2>2. NeverTwice'
    OBVIOUS
  <2>3. ChannelsFollowSenders'
    OBVIOUS
  <2>4. FetchesInOrder'
    OBVIOUS
  <2>5. NotYetStarted'
    OBVIOUS
  <2>6. Accounted'
    OBVIOUS
  <2> QED
    BY <2>1, <2>2, <2>3, <2>4, <2>5, <2>6
<1>11. CASE SendRecord
  <2> USE <1>11 DEF SendRecord, SendThenResume, ResumeBatch, consumerVars
  <2>a. batch.first \in Record /\ batch.first < batch.next /\ batch.next \in Offset
    OBVIOUS
  <2>b. starts[batch.first] = 0
    <3>1. batch.first \in batch.first .. batch.next - 1
      BY ONLY <2>a, LogAssumption DEF Offset, Record
    <3>2. acker = "send" /\ NotYetStarted
      OBVIOUS
    <3> QED
      BY ONLY <2>a, <3>1, <3>2 DEF NotYetStarted, Records
  <2>c. /\ starts' \in [Record -> Nat]
        /\ \A r \in Record : starts'[r] = IF r = batch.first THEN 1 ELSE starts[r]
    <3>1. starts' = [starts EXCEPT ![batch.first] = starts[batch.first] + 1]
      OBVIOUS
    <3>2. starts \in [Record -> Nat] /\ batch.first \in Record
      BY <2>a
    <3> QED
      BY ONLY <2>b, <3>1, <3>2
  <2>d. /\ batch' \in Fetch /\ acker' \in {"send", "range"}
        /\ batch'.first = batch.first + 1 /\ batch'.next = batch.next
    <3>1. batch' = [first |-> batch.first + 1, next |-> batch.next]
      OBVIOUS
    <3>2. batch.first + 1 \in Offset /\ batch.next \in Offset
      BY ONLY <2>a, LogAssumption DEF Offset, Record
    <3>3. acker' \in {"send", "range"}
      OBVIOUS
    <3> QED
      BY ONLY <3>1, <3>2, <3>3
  <2>e. running' = running \union {batch.first}
    OBVIOUS
  <2>1. TypeOK'
    <3>1. running' \subseteq Record
      BY <2>a, <2>e
    <3>2. UNCHANGED <<consumerVars, receiver, committed, restarts, start, finished,
                      acknowledged, skipped>>
      OBVIOUS
    <3> QED
      BY <2>c, <2>d, <3>1, <3>2
  <2>2. NeverTwice'
    BY <2>a, <2>c
  <2>3. ChannelsFollowSenders'
    BY <2>a
  <2>4. FetchesInOrder'
    BY <2>a, <2>d
  <2>5. NotYetStarted'
    <3> SUFFICES ASSUME NEW r \in Record,
                        r >= committed' \/ (acker' = "send" /\ r \in Records(batch'))
                 PROVE  starts'[r] = 0
      OBVIOUS
    <3>1. r # batch.first
      BY <2>a, <2>d
    <3>2. starts[r] = 0
      BY <2>a, <2>d
    <3> QED
      BY <2>c, <3>1, <3>2
  <2>6. Accounted'
    <3>1. Records(batch) \subseteq {batch.first} \union Records(batch')
      BY <2>a, <2>d
    <3>2. UNCHANGED <<ctx, start, polled, finished, skipped, held>>
      OBVIOUS
    <3> HIDE DEF Records
    <3> QED
      BY <2>e, <3>1, <3>2
  <2> QED
    BY <2>1, <2>2, <2>3, <2>4, <2>5, <2>6
<1>12. CASE SendCancelled
  BY <1>12 DEF SendCancelled, LeaveAcker, historyVars
<1>13. CASE RecordsEnd
  BY <1>13 DEF RecordsEnd, ReceiverMoves, consumerVars, historyVars
<1>14. CASE WaitReturns
  BY <1>14 DEF WaitReturns, ReceiverMoves, consumerVars, historyVars
<1>15. ASSUME NEW record \in Record, ProcessReturns(record) PROVE IInv'
  BY <1>15 DEF ProcessReturns, consumerVars
<1>16. CASE Restart
  BY <1>16 DEF Restart, ConsumerRestartsAt, RestartsFrom
<1>17. CASE UNCHANGED vars
  BY <1>17 DEF vars, consumerVars, pipelineVars, historyVars
<1> HIDE DEF IInv
<1> QED
  BY <1>1, <1>2, <1>3, <1>4, <1>5, <1>6, <1>7, <1>8, <1>9, <1>10, <1>11, <1>12,
     <1>13, <1>14, <1>15, <1>16, <1>17
  DEF Next, ConsumerNext, AckerNext, ReceiverNext, Terminated

-----------------------------------------------------------------------------
(* IInv holds in every reachable state. *)
THEOREM InductiveInvariant == Spec => []IInv
  BY InitIInv, NextIInv, PTL DEF Spec

(* The declared types hold in every reachable state. *)
THEOREM TypeCorrect == Spec => []TypeOK
<1>1. IInv => TypeOK
  BY DEF IInv
<1> QED
  BY <1>1, InductiveInvariant, PTL

(* No record is given to the Processor twice. *)
THEOREM AtMostOneStart == Spec => []NeverTwice
<1>1. IInv => NeverTwice
  BY DEF IInv
<1> QED
  BY <1>1, InductiveInvariant, PTL

(* The group's offset is past a record before the Processor sees it. *)
THEOREM CommitsBeforeStart == Spec => []StartedAfterCommit
<1>1. IInv => StartedAfterCommit
  BY DEF IInv, TypeOK, NotYetStarted, StartedAfterCommit
<1> QED
  BY <1>1, InductiveInvariant, PTL

(* A runtime that returns after its channel was closed, uncancelled, has   *)
(* processed all it was handed except what it failed to acknowledge.       *)
THEOREM CloseDrains == Spec => []DrainedOnClose
<1>1. IInv => DrainedOnClose
  <2> SUFFICES ASSUME IInv, AllDone, ctx = "live"
               PROVE  start .. polled - 1 \subseteq finished \union skipped
    BY DEF DrainedOnClose
  <2>1. running = {} /\ ~HasRecord(batch) /\ ~HasRecord(held)
    BY DEF IInv, ChannelsFollowSenders, FetchesInOrder, AllDone
  <2>2. Records(batch) = {} /\ Records(held) = {}
    BY <2>1 DEF IInv, TypeOK, ConsumerTypeOK
  <2> QED
    BY <2>1, <2>2 DEF IInv, Accounted
<1> QED
  BY <1>1, InductiveInvariant, PTL

-----------------------------------------------------------------------------
(***************************************************************************)
(* What can be lost.  A record that is acknowledged and not started is one *)
(* that is still to be sent, or one of the fetch in hand when a session    *)
(* ended; no session leaves more than one such fetch.                      *)
(***************************************************************************)
Unstarted == {record \in acknowledged : starts[record] = 0}

(* How many of them this session has: those still to be sent, and, once    *)
(* the acknowledger has returned, those it may have left.                  *)
InHand ==
    IF acker = "send" THEN batch.next - batch.first
    ELSE IF acker = "done" THEN MaxBatch ELSE 0

LossInv ==
    /\ batch.next <= batch.first + MaxBatch /\ held.next <= held.first + MaxBatch
    /\ acker = "send" => Records(batch) \subseteq acknowledged
    /\ Cardinality(Unstarted) <= MaxBatch * restarts + InHand

(* There are finitely many such records. *)
LEMMA UnstartedFinite ==
  ASSUME TypeOK
  PROVE  IsFiniteSet(Unstarted) /\ Cardinality(Unstarted) \in Nat
<1>1. IsFiniteSet(Record)
  BY FS_Interval
<1>2. Unstarted \in SUBSET Record
  BY DEF Unstarted, TypeOK
<1> QED
  BY <1>1, <1>2, FS_Subset, FS_CardinalityType

(* The records of a fetch are as many as its offsets. *)
LEMMA FetchSize ==
  ASSUME NEW f \in Fetch, f.first <= f.next
  PROVE  IsFiniteSet(Records(f)) /\ Cardinality(Records(f)) = f.next - f.first
<1> DEFINE a == f.first
           b == f.next - 1
<1>1. a \in Int /\ b \in Int /\ a <= b + 1 /\ b - a + 1 = f.next - f.first
  OBVIOUS
<1>2. Records(f) = a .. b
  OBVIOUS
<1> HIDE DEF a, b, Records
<1>3. IsFiniteSet(a .. b) /\ Cardinality(a .. b) = IF a > b THEN 0 ELSE b - a + 1
  BY <1>1, FS_Interval
<1> QED
  BY <1>1, <1>2, <1>3

LEMMA InitLossInv == Init => LossInv
<1> SUFFICES ASSUME Init PROVE LossInv
  OBVIOUS
<1>1. Unstarted = {}
  BY DEF Init, Unstarted
<1>2. Cardinality(Unstarted) = 0
  BY <1>1, FS_EmptySet
<1>3. batch = NoFetch /\ held = NoFetch /\ acker = "range" /\ restarts = 0
  BY DEF Init, ConsumerInit
<1> QED
  BY <1>2, <1>3 DEF LossInv, InHand

(* A step that neither acknowledges nor starts a record, nor begins a      *)
(* session, loses what the acknowledger has in hand at most.               *)
LEMMA NothingSentLoss ==
  ASSUME TypeOK, TypeOK', LossInv, UNCHANGED <<acknowledged, starts, restarts>>,
         \/ acker' = acker /\ batch' = batch
         \/ acker' # "send" /\ batch' \in {held, NoFetch}
               /\ (acker # "done" /\ (acker = "send" => acker' = "done")),
         \/ held' \in {held, NoFetch}
         \/ \E n \in 0 .. MaxBatch : held' = Interval(polled, polled + n)
  PROVE  LossInv'
<1>1. UNCHANGED Unstarted /\ Cardinality(Unstarted) \in Nat
  BY UnstartedFinite DEF Unstarted
<1>2. batch \in Fetch /\ held \in Fetch /\ polled \in Nat
  BY DEF TypeOK, ConsumerTypeOK
<1>3. held'.next <= held'.first + MaxBatch
  BY <1>2 DEF LossInv
<1>4. batch'.next <= batch'.first + MaxBatch
  BY <1>2 DEF LossInv
<1>5. InHand <= InHand' /\ InHand \in Int /\ InHand' \in Int
  BY <1>2 DEF LossInv, InHand
<1>6. Cardinality(Unstarted') <= MaxBatch * restarts' + InHand'
  <2>1. MaxBatch * restarts \in Int
    BY DEF TypeOK
  <2> QED
    BY <1>1, <1>5, <2>1 DEF LossInv
<1>7. acker' = "send" => Records(batch') \subseteq acknowledged'
  BY DEF LossInv
<1> QED
  BY <1>3, <1>4, <1>6, <1>7 DEF LossInv

(* An acknowledgement adds the records of the fetch in hand. *)
LEMMA AcknowledgedLoss ==
  ASSUME IInv, IInv', LossInv, Acknowledged
  PROVE  LossInv'
<1>1. /\ acker = "commit" /\ acknowledged' = acknowledged \union Records(batch)
      /\ batch' = batch /\ acker' = IF HasRecord(batch) THEN "send" ELSE "range"
      /\ UNCHANGED <<held, restarts, starts>>
  BY DEF Acknowledged, ResumeBatch, consumerVars
<1>2. /\ batch \in Fetch /\ batch.first <= batch.next
      /\ restarts \in Nat
  BY <1>1 DEF IInv, TypeOK, FetchesInOrder
<1>3. /\ IsFiniteSet(Records(batch))
      /\ Cardinality(Records(batch)) = batch.next - batch.first
  BY <1>2, FetchSize
<1>4. IsFiniteSet(Unstarted) /\ Cardinality(Unstarted) \in Nat
  BY UnstartedFinite DEF IInv
<1>5. IsFiniteSet(Unstarted') /\ Cardinality(Unstarted') \in Nat
  <2>1. IsFiniteSet(Unstarted \union Records(batch))
    BY <1>3, <1>4, FS_Union
  <2>2. Unstarted' \in SUBSET (Unstarted \union Records(batch))
    BY <1>1 DEF Unstarted
  <2> QED
    BY <2>1, <2>2, FS_Subset, FS_CardinalityType
<1>6. Cardinality(Unstarted') <= Cardinality(Unstarted) + (batch.next - batch.first)
  <2> HIDE DEF Records
  <2>1. /\ IsFiniteSet(Unstarted \union Records(batch))
        /\ Cardinality(Unstarted \union Records(batch)) =
              Cardinality(Unstarted) + Cardinality(Records(batch))
                - Cardinality(Unstarted \intersect Records(batch))
    BY <1>3, <1>4, FS_Union
  <2>2. Cardinality(Unstarted \intersect Records(batch)) \in Nat
    BY <1>4, FS_Intersection, FS_CardinalityType
  <2>3. Unstarted' \in SUBSET (Unstarted \union Records(batch))
    BY <1>1 DEF Unstarted
  <2>4. Cardinality(Unstarted') <= Cardinality(Unstarted \union Records(batch))
    BY <2>1, <2>3, FS_Subset
  <2> QED
    BY <1>2, <1>3, <1>4, <1>5, <2>1, <2>2, <2>4
<1>7. InHand = 0 /\ InHand' = batch.next - batch.first
  BY <1>1, <1>2 DEF InHand
<1>8. MaxBatch * restarts \in Int
  BY <1>2
<1>9. Cardinality(Unstarted') <= MaxBatch * restarts' + InHand'
  BY <1>1, <1>2, <1>4, <1>5, <1>6, <1>7, <1>8 DEF LossInv
<1> QED
  BY <1>1, <1>9 DEF LossInv

(* The record that is sent is one of those in hand, and is started now. *)
LEMMA SendRecordLoss ==
  ASSUME IInv, IInv', LossInv, SendRecord
  PROVE  LossInv'
<1> DEFINE r == batch.first
<1>1. /\ acker = "send" /\ starts' = [starts EXCEPT ![r] = @ + 1]
      /\ batch' = Interval(r + 1, batch.next)
      /\ acker' = IF HasRecord(batch') THEN "send" ELSE "range"
      /\ UNCHANGED <<held, restarts, acknowledged>>
  BY DEF SendRecord, SendThenResume, ResumeBatch, consumerVars
<1>2. /\ batch \in Fetch /\ batch.first < batch.next /\ starts \in [Record -> Nat]
      /\ restarts \in Nat
  BY <1>1 DEF IInv, TypeOK, FetchesInOrder
<1>3. r \in Records(batch) /\ r \in Record
  BY <1>2
<1>4. r \in Unstarted
  BY <1>1, <1>3 DEF LossInv, IInv, NotYetStarted, Unstarted
<1>5. Unstarted' = Unstarted \ {r}
  <2>1. acknowledged \subseteq Record
    BY DEF IInv, TypeOK
  <2>2. starts'[r] = starts[r] + 1 /\ starts[r] \in Nat
        /\ \A q \in Record \ {r} : starts'[q] = starts[q]
    BY <1>1, <1>2, <1>3
  <2> HIDE DEF r
  <2> QED
    BY <1>1, <1>3, <2>1, <2>2 DEF Unstarted
<1>6. IsFiniteSet(Unstarted) /\ Cardinality(Unstarted) \in Nat
  BY UnstartedFinite DEF IInv
<1>7. Cardinality(Unstarted') = Cardinality(Unstarted) - 1
  BY <1>4, <1>5, <1>6, FS_RemoveElement
<1>8. InHand' = InHand - 1 /\ InHand \in Int
  <2>1. /\ batch'.first = r + 1 /\ batch'.next = batch.next
        /\ r \in Nat /\ batch.next \in Nat /\ r < batch.next
    BY <1>1, <1>2
  <2>2. InHand = batch.next - r
    BY <1>1 DEF InHand
  <2>3. InHand' = IF acker' = "send" THEN batch'.next - batch'.first ELSE 0
    BY <1>1 DEF InHand
  <2>4. acker' = "send" <=> r + 1 < batch.next
    BY <1>1, <2>1
  <2> HIDE DEF r
  <2> QED
    BY <2>1, <2>2, <2>3, <2>4
<1>9. MaxBatch * restarts \in Int
  BY <1>2
<1>10. Cardinality(Unstarted') <= MaxBatch * restarts' + InHand'
  BY <1>1, <1>6, <1>7, <1>8, <1>9 DEF LossInv
<1>11. acker' = "send" => Records(batch') \subseteq acknowledged'
  BY <1>1, <1>2 DEF LossInv
<1>12. batch'.next <= batch'.first + MaxBatch
  BY <1>1, <1>2 DEF LossInv
<1> QED
  BY <1>1, <1>10, <1>11, <1>12 DEF LossInv

(* A session that ends, however it does, leaves a fetch at most. *)
LEMMA RestartLoss ==
  ASSUME IInv, LossInv, Restart
  PROVE  LossInv'
<1>1. /\ restarts' = restarts + 1 /\ held' = NoFetch /\ batch' = NoFetch /\ acker' = "range"
      /\ UNCHANGED <<acknowledged, starts>>
  BY DEF Restart, ConsumerRestartsAt, RestartsFrom
<1>2. restarts \in Nat /\ batch \in Fetch
  BY DEF IInv, TypeOK
<1>3. UNCHANGED Unstarted /\ Cardinality(Unstarted) \in Nat
  BY <1>1, UnstartedFinite DEF Unstarted, IInv
<1>4. InHand <= MaxBatch /\ InHand' = 0 /\ InHand \in Int
  BY <1>1, <1>2 DEF InHand, LossInv
<1>5. MaxBatch * (restarts + 1) = MaxBatch * restarts + MaxBatch /\ MaxBatch * restarts \in Int
  BY <1>2
<1>6. Cardinality(Unstarted') <= MaxBatch * restarts' + InHand'
  BY <1>1, <1>3, <1>4, <1>5 DEF LossInv
<1> QED
  BY <1>1, <1>6 DEF LossInv

(* Every other step sends nothing. *)
LEMMA NextLossInv == IInv /\ IInv' /\ LossInv /\ [Next]_vars => LossInv'
<1> SUFFICES ASSUME IInv, IInv', LossInv, [Next]_vars PROVE LossInv'
  OBVIOUS
<1>1. TypeOK /\ TypeOK'
  BY DEF IInv
<1>2. ASSUME UNCHANGED <<acker, batch, acknowledged, starts, restarts>>,
             \/ held' \in {held, NoFetch}
             \/ \E n \in 0 .. MaxBatch : held' = Interval(polled, polled + n)
      PROVE  LossInv'
  BY <1>1, <1>2, NothingSentLoss
<1>3. ASSUME NEW n \in 0 .. MaxBatch, ConsumerStep(HandOver(n)) PROVE LossInv'
  BY <1>2, <1>3 DEF ConsumerStep, HandOver, pipelineVars, historyVars
<1>4. CASE \/ ConsumerStep(Cancel) \/ ConsumerStep(CloseSource) \/ ConsumerNext
  BY <1>2, <1>4 DEF ConsumerStep, Cancel, CloseSource, ConsumerNext, ConsumeCancelled,
        ConsumeEndOfQueue, ForwardCancelled, Return, pipelineVars, historyVars
<1>5. CASE TakeFetch
  <2>1. /\ acker = "range" /\ acker' = "commit" /\ batch' = held /\ held' = NoFetch
        /\ UNCHANGED <<acknowledged, starts, restarts>>
    BY <1>5 DEF TakeFetch, Forward, historyVars
  <2> QED
    BY <1>1, <2>1, NothingSentLoss
<1>6. CASE FetchesEnd \/ SendCancelled
  <2>1. /\ acker \in {"range", "send"} /\ acker' = "done" /\ batch' = NoFetch
        /\ UNCHANGED <<held, acknowledged, starts, restarts>>
    BY <1>6 DEF FetchesEnd, SendCancelled, LeaveAcker, historyVars
  <2> QED
    BY <1>1, <2>1, NothingSentLoss
<1>7. ASSUME NEW fate \in {"applied", "lost"}, AcknowledgeFails(fate) PROVE LossInv'
  <2>1. /\ acker = "commit" /\ acker' \in {"send", "range"} /\ batch' = NoFetch
        /\ (acker' = "send" => HasRecord(NoFetch))
        /\ UNCHANGED <<held, acknowledged, starts, restarts>>
    BY <1>7 DEF AcknowledgeFails, NotAcknowledged, ResumeBatch, consumerVars
  <2>2. acker' = "range"
    BY <2>1
  <2> QED
    BY <1>1, <2>1, <2>2, NothingSentLoss
<1>8. CASE ReceiverNext \/ (\E record \in Record : ProcessReturns(record)) \/ UNCHANGED vars
  BY <1>2, <1>8 DEF ReceiverNext, RecordsEnd, WaitReturns, ReceiverMoves, ProcessReturns,
        vars, consumerVars, pipelineVars, historyVars
<1> QED
  BY <1>3, <1>4, <1>5, <1>6, <1>7, <1>8, AcknowledgedLoss, SendRecordLoss, RestartLoss
  DEF Next, AckerNext, Terminated

(* At most one fetch a session is acknowledged and lost. *)
THEOREM LossIsBounded == Spec => []LossWindow
<1>1. IInv /\ LossInv => LossWindow
  <2> SUFFICES ASSUME IInv, LossInv PROVE LossWindow
    OBVIOUS
  <2>1. restarts \in Nat /\ batch \in Fetch /\ Cardinality(Unstarted) \in Nat
    BY UnstartedFinite DEF IInv, TypeOK
  <2>2. InHand <= MaxBatch /\ InHand \in Int
    BY <2>1 DEF InHand, LossInv
  <2>3. MaxBatch * (restarts + 1) = MaxBatch * restarts + MaxBatch /\ MaxBatch * restarts \in Int
    BY <2>1
  <2> QED
    BY <2>1, <2>2, <2>3 DEF LossInv, LossWindow, Unstarted
<1> QED
  BY <1>1, InductiveInvariant, InitLossInv, NextLossInv, PTL DEF Spec

-----------------------------------------------------------------------------
(* The pipeline implements AtMostOnceDelivery: a commit that reaches the   *)
(* broker is an Advance, the send of a record a Start, and every other     *)
(* step leaves what the abstract specification sees as it was.             *)
THEOREM ImplementsDelivery == Spec => DeliversAtMostOnce
<1>1. Init => Delivery!Init
  BY DEF Init, Delivery!Init
<1>2. IInv /\ [Next]_vars => [Delivery!Next]_(Delivery!vars)
  <2> SUFFICES ASSUME IInv, [Next]_vars, ~ UNCHANGED <<starts, committed>>
               PROVE  Delivery!Next
    BY DEF Delivery!vars
  <2>1. ASSUME acker = "commit", UNCHANGED starts, Commits(batch)
        PROVE  Delivery!Next
    <3>1. HasRecord(batch) /\ committed' = batch.next
      BY <2>1 DEF Commits
    <3>2. committed < batch.next /\ batch.next \in 1 .. LogEnd
      BY <2>1, <3>1 DEF IInv, TypeOK, FetchesInOrder
    <3>3. Delivery!Advance(batch.next)
      BY <2>1, <3>1, <3>2 DEF Delivery!Advance
    <3> QED
      BY <3>2, <3>3 DEF Delivery!Next
  <2>2. CASE Acknowledged
    BY <2>1, <2>2 DEF Acknowledged
  <2>3. ASSUME NEW fate \in {"applied", "lost"}, AcknowledgeFails(fate)
        PROVE  Delivery!Next
    BY <2>1, <2>3 DEF AcknowledgeFails, NotAcknowledged
  <2>4. CASE SendRecord
    <3>1. batch.first \in Records(batch) /\ batch.first \in Record
      BY <2>4 DEF SendRecord, SendThenResume, IInv, TypeOK, FetchesInOrder
    <3>2. batch.first < committed
      BY <2>4 DEF SendRecord, SendThenResume, IInv, TypeOK, FetchesInOrder
    <3>3. starts[batch.first] = 0
      BY <2>4, <3>1 DEF SendRecord, SendThenResume, IInv, NotYetStarted
    <3>4. starts' = [starts EXCEPT ![batch.first] = 1] /\ UNCHANGED committed
      BY <2>4, <3>3 DEF SendRecord, SendThenResume
    <3>5. Delivery!Start(batch.first)
      BY <3>2, <3>3, <3>4 DEF Delivery!Start
    <3> QED
      BY <3>1, <3>5 DEF Delivery!Next
  <2>5. \/ UNCHANGED <<starts, committed>>
        \/ Acknowledged
        \/ \E fate \in {"applied", "lost"} : AcknowledgeFails(fate)
        \/ SendRecord
    BY DEF Next, ConsumerStep, ConsumerNext, AckerNext, ReceiverNext, TakeFetch,
           FetchesEnd, SendCancelled, LeaveAcker, RecordsEnd, WaitReturns,
           ReceiverMoves, ProcessReturns, Restart, Terminated, vars, historyVars
  <2> QED
    BY <2>2, <2>3, <2>4, <2>5
<1> QED
  BY <1>1, <1>2, InductiveInvariant, PTL DEF Spec, DeliversAtMostOnce, Delivery!Spec
=============================================================================
