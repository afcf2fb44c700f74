------------------------- MODULE ConsumerGroupProofs -------------------------
(***************************************************************************)
(* Proofs about ConsumerGroup for every length of the partition and any    *)
(* number of runtimes.                                                     *)
(***************************************************************************)
EXTENDS ConsumerGroup, TLAPS

(* The records a runtime of at-most-once delivery has committed and not    *)
(* yet started.                                                            *)
Pending(r) == runtimes[r].handled .. runtimes[r].committed - 1

(* Each pipeline passes its positions in its own order. *)
Ordered ==
    \A r \in RuntimeId :
        /\ mode = "AtLeastOnce" => /\ runtimes[r].committed <= runtimes[r].handled
                                   /\ runtimes[r].handled <= runtimes[r].polled
        /\ mode = "AtMostOnce" => /\ runtimes[r].handled <= runtimes[r].committed
                                  /\ runtimes[r].committed <= runtimes[r].polled

(* Whatever a runtime of at-least-once delivery has passed was handled, by *)
(* it or by those before it.                                               *)
PassedIsHandled ==
    mode = "AtLeastOnce" =>
        \A r \in RuntimeId : \A offset \in 0 .. runtimes[r].handled - 1 : offset \in handled

(* Until a commit is late, the group's offset is not ahead of its owner.   *)
OwnerLeads == ~late /\ owner # None => committed <= runtimes[owner].committed

(* Until then, too, the records still to be started are below the group's  *)
(* offset, nobody has started them, and no two runtimes hold the same.     *)
PendingIsOwn ==
    mode = "AtMostOnce" /\ ~late =>
        /\ \A offset \in handled : offset < committed
        /\ twice = {}
        /\ \A r \in RuntimeId : \A offset \in Pending(r) :
              /\ offset < committed
              /\ offset \notin handled
              /\ \A s \in RuntimeId \ {r} : offset \notin Pending(s)

IInv ==
    /\ TypeOK
    /\ Ordered
    /\ PassedIsHandled
    /\ CommittedImpliesHandled
    /\ OwnerLeads
    /\ PendingIsOwn

USE BoundAssumption DEF Offset, Position, RuntimeId, None, Runtime

(* No runtime has a position yet. *)
LEMMA InitIInv == Init => IInv
<1> SUFFICES ASSUME Init PROVE IInv
  OBVIOUS
<1>1. /\ \A r \in RuntimeId : runtimes[r] = At(0)
      /\ runtimes \in [RuntimeId -> Runtime]
  BY DEF Init, At
<1>2. TypeOK
  <2>1. owner \in {None} \union 1 .. assigned /\ assigned \in 0 .. MaxRuntimes
    BY DEF Init
  <2>2. /\ committed \in Position /\ handled \subseteq Offset
        /\ crashed \subseteq 1 .. assigned /\ panicked \subseteq 1 .. assigned
    BY DEF Init
  <2>3. twice \subseteq handled /\ late \in BOOLEAN /\ blocked \in BOOLEAN
    BY DEF Init
  <2>4. mode \in {"AtLeastOnce", "AtMostOnce"}
    BY DEF Init
  <2> QED
    BY ONLY <1>1, <2>1, <2>2, <2>3, <2>4 DEF TypeOK
<1>3. Ordered /\ PassedIsHandled
  BY <1>1 DEF At, Ordered, PassedIsHandled
<1>4. CommittedImpliesHandled /\ OwnerLeads
  BY DEF Init, CommittedImpliesHandled, OwnerLeads
<1>5. \A r \in RuntimeId : Pending(r) = {}
  BY <1>1 DEF At, Pending
<1>6. PendingIsOwn
  BY <1>5 DEF Init, PendingIsOwn
<1> QED
  BY <1>2, <1>3, <1>4, <1>6 DEF IInv

-----------------------------------------------------------------------------
(* The record at a position of a runtime goes to the Processor: within the *)
(* bound its pipeline sets, the invariant survives.                        *)
LEMMA HandlesIInv ==
  ASSUME IInv, NEW r \in RuntimeId, HandleRecord(r) \/ StartRecord(r)
  PROVE  IInv'
<1> USE DEF IInv
<1> DEFINE position == runtimes[r].handled
<1>1. /\ Alive(r)
      /\ position \in Offset
      /\ runtimes' = [runtimes EXCEPT ![r].handled = position + 1]
      /\ handled' = handled \union {position}
      /\ twice' = IF position \in handled THEN twice \union {position} ELSE twice
      /\ UNCHANGED <<mode, assigned, owner, crashed, stalls, committed, late>>
      /\ mode = "AtLeastOnce" => position < runtimes[r].polled
      /\ mode = "AtMostOnce" => position < runtimes[r].committed
  <2>1. runtimes[r] \in Runtime /\ LogEnd \in Nat
    BY BoundAssumption DEF TypeOK
  <2>2. /\ runtimes[r].handled \in 0 .. LogEnd /\ runtimes[r].polled \in 0 .. LogEnd
        /\ runtimes[r].committed \in 0 .. LogEnd
    BY <2>1 DEF Runtime, Position
  <2>3. CASE HandleRecord(r)
    BY <2>2, <2>3 DEF HandleRecord, ProcessorReady, Handles, Offset
  <2>4. CASE StartRecord(r)
    BY <2>2, <2>4 DEF StartRecord, Handles, Offset
  <2> QED
    BY <2>3, <2>4
<1>2. /\ runtimes[r] \in Runtime /\ runtimes' \in [RuntimeId -> Runtime]
      /\ runtimes'[r] = [runtimes[r] EXCEPT !.handled = position + 1]
      /\ \A s \in RuntimeId \ {r} : runtimes'[s] = runtimes[s]
  <2>1. runtimes \in [RuntimeId -> Runtime]
    BY DEF TypeOK
  <2>2. position + 1 \in Position
    BY <1>1, BoundAssumption DEF Offset, Position
  <2>3. runtimes[r] \in Runtime /\ [runtimes[r] EXCEPT !.handled = position + 1] \in Runtime
    BY <2>1, <2>2 DEF Runtime
  <2> HIDE DEF IInv
  <2> QED
    BY <1>1, <2>1, <2>3
<1>3. /\ runtimes'[r].handled = position + 1
      /\ runtimes'[r].polled = runtimes[r].polled
      /\ runtimes'[r].committed = runtimes[r].committed
      /\ runtimes[r].polled \in Int /\ runtimes[r].committed \in Int /\ position \in Int
  BY <1>2 DEF Runtime, Position
<1>4. TypeOK' /\ Ordered' /\ PassedIsHandled'
  <2>1. TypeOK'
    <3>1. handled' \subseteq Offset /\ twice' \subseteq handled'
      BY <1>1 DEF TypeOK
    <3> QED
      BY <1>1, <1>2, <3>1 DEF TypeOK, stalls
  <2>2. Ordered'
    BY <1>1, <1>2, <1>3 DEF Ordered
  <2>3. PassedIsHandled'
    <3> SUFFICES ASSUME mode = "AtLeastOnce", NEW s \in RuntimeId,
                        NEW offset \in 0 .. runtimes'[s].handled - 1
                 PROVE  offset \in handled'
      BY <1>1 DEF PassedIsHandled
    <3>1. CASE s = r
      <4>1. offset = position \/ offset \in 0 .. position - 1
        BY <1>3, <3>1
      <4> QED
        BY <1>1, <4>1 DEF PassedIsHandled
    <3>2. CASE s # r
      BY <1>1, <1>2, <3>2 DEF PassedIsHandled
    <3> QED
      BY <3>1, <3>2
  <2> QED
    BY <2>1, <2>2, <2>3
<1>5. CommittedImpliesHandled'
  BY <1>1 DEF CommittedImpliesHandled
<1>6. OwnerLeads'
  <2>1. \A s \in RuntimeId : runtimes'[s].committed = runtimes[s].committed
    BY <1>2, <1>3
  <2>2. owner # None => owner \in RuntimeId
    BY DEF TypeOK, RuntimeId, None
  <2> QED
    BY <1>1, <2>1, <2>2 DEF OwnerLeads
<1>7. PendingIsOwn'
  <2> SUFFICES ASSUME mode = "AtMostOnce", ~late PROVE PendingIsOwn'
    BY <1>1 DEF PendingIsOwn
  <2>1. position \in Pending(r)
    BY <1>1, <1>3 DEF Pending
  <2>2. position < committed /\ position \notin handled
    BY <2>1 DEF PendingIsOwn
  <2>3. \A s \in RuntimeId : Pending(s)' \subseteq Pending(s) \ {position}
    <3>1. \A s \in RuntimeId \ {r} : Pending(s)' = Pending(s)
      BY <1>2 DEF Pending
    <3>2. \A s \in RuntimeId \ {r} : position \notin Pending(s)
      BY <2>1 DEF PendingIsOwn
    <3>3. Pending(r)' \subseteq Pending(r) \ {position}
      BY <1>3 DEF Pending
    <3> QED
      BY <3>1, <3>2, <3>3
  <2> QED
    BY <1>1, <2>2, <2>3 DEF PendingIsOwn
<1> QED
  BY <1>4, <1>5, <1>6, <1>7

(* A record is committed behind the handling of it. *)
LEMMA AcknowledgeRecordIInv ==
  ASSUME IInv, NEW r \in RuntimeId, AcknowledgeRecord(r)
  PROVE  IInv'
<1> USE DEF IInv
<1> DEFINE next == runtimes[r].committed + 1
<1>1. /\ mode = "AtLeastOnce"
      /\ next \in Position /\ next <= runtimes[r].handled
      /\ runtimes' = [runtimes EXCEPT ![r].committed = next]
      /\ \/ committed' = next /\ late' = (late \/ r # owner)
         \/ UNCHANGED <<committed, late>>
      /\ UNCHANGED <<mode, assigned, owner, crashed, stalls, handled, twice>>
  BY DEF AcknowledgeRecord, Commits, CommitFails, TypeOK, Ordered
<1>2. TypeOK' /\ Ordered'
  BY <1>1 DEF TypeOK, stalls, Ordered
<1>3. PassedIsHandled' /\ CommittedImpliesHandled'
  <2>1. \A s \in RuntimeId : runtimes'[s].handled = runtimes[s].handled
    BY <1>1 DEF TypeOK
  <2>2. PassedIsHandled'
    BY <1>1, <2>1 DEF PassedIsHandled
  <2>3. \A offset \in 0 .. next - 1 : offset \in 0 .. runtimes[r].handled - 1
    BY <1>1 DEF TypeOK
  <2>4. \A offset \in 0 .. next - 1 : offset \in handled
    BY <1>1, <2>3 DEF PassedIsHandled
  <2> HIDE DEF next
  <2> QED
    BY <1>1, <2>2, <2>4 DEF CommittedImpliesHandled
<1>4. OwnerLeads'
  <2>1. CASE UNCHANGED <<committed, late>>
    BY <1>1, <2>1 DEF TypeOK, OwnerLeads
  <2>2. CASE committed' = next /\ late' = (late \/ r # owner)
    <3>1. ~late' => r = owner
      BY <2>2
    <3>2. runtimes'[r].committed = next
      BY <1>1 DEF TypeOK
    <3> QED
      BY <1>1, <2>2, <3>1, <3>2 DEF TypeOK, OwnerLeads
  <2> QED
    BY <1>1, <2>1, <2>2
<1>5. PendingIsOwn'
  BY <1>1 DEF PendingIsOwn
<1> QED
  BY <1>2, <1>3, <1>4, <1>5

(* A fetch that an owner commits lies at or above the group's offset, so   *)
(* nobody holds or has started any of it.                                  *)
LEMMA AcknowledgeFetchIInv ==
  ASSUME IInv, NEW r \in RuntimeId, AcknowledgeFetch(r)
  PROVE  IInv'
<1> USE DEF IInv
<1>1. PICK end \in runtimes[r].committed + 1 .. runtimes[r].polled :
        \/ /\ Commits(r, end)
           /\ runtimes' = [runtimes EXCEPT ![r].committed = end]
        \/ /\ CommitFails(r, end)
           /\ runtimes' = [runtimes EXCEPT ![r].committed = end, ![r].handled = end]
  BY DEF AcknowledgeFetch
<1> DEFINE old == runtimes[r]
<1>2. /\ mode = "AtMostOnce" /\ Alive(r)
      /\ old.handled = old.committed
      /\ UNCHANGED <<mode, assigned, owner, crashed, stalls, handled, twice>>
      /\ old \in Runtime
      /\ runtimes \in [RuntimeId -> Runtime]
  BY DEF AcknowledgeFetch, TypeOK
<1>3. /\ old.committed < end /\ end <= old.polled
      /\ end \in Position
  BY <1>2
<1>4. /\ mode = "AtMostOnce"
      /\ end \in Position
      /\ runtimes[r].handled = runtimes[r].committed
      /\ runtimes[r].committed < end /\ end <= runtimes[r].polled
      /\ runtimes[r] \in Runtime
      /\ \A s \in RuntimeId \ {r} : runtimes'[s] = runtimes[s]
      /\ runtimes' \in [RuntimeId -> Runtime]
      /\ runtimes'[r].polled = runtimes[r].polled /\ runtimes'[r].committed = end
      /\ runtimes'[r].handled \in {runtimes[r].handled, end}
      /\ UNCHANGED <<mode, assigned, owner, crashed, stalls, handled, twice>>
  <2> HIDE DEF IInv
  <2>1. CASE runtimes' = [runtimes EXCEPT ![r].committed = end]
    BY <1>2, <1>3, <2>1
  <2>2. CASE runtimes' = [runtimes EXCEPT ![r].committed = end, ![r].handled = end]
    BY <1>2, <1>3, <2>2
  <2> QED
    BY <1>1, <2>1, <2>2
<1>5. \/ UNCHANGED <<committed, late>> /\ runtimes'[r].handled = end
      \/ committed' = end /\ late' = (late \/ r # owner)
  BY <1>1, <1>4 DEF Commits, CommitFails, TypeOK
<1>6. TypeOK' /\ Ordered'
  <2>1. TypeOK'
    BY <1>4, <1>5 DEF TypeOK, stalls
  <2>2. \A s \in RuntimeId : runtimes'[s].handled <= runtimes'[s].committed
                              /\ runtimes'[s].committed <= runtimes'[s].polled
    <3>1. /\ runtimes'[r].handled <= runtimes'[r].committed
          /\ runtimes'[r].committed <= runtimes'[r].polled
      BY <1>4
    <3>2. ASSUME NEW s \in RuntimeId, s # r
          PROVE  runtimes'[s].handled <= runtimes'[s].committed
                 /\ runtimes'[s].committed <= runtimes'[s].polled
      BY <1>4, <3>2 DEF Ordered
    <3> QED
      BY <3>1, <3>2
  <2> QED
    BY <1>4, <2>1, <2>2 DEF Ordered
<1>7. PassedIsHandled' /\ CommittedImpliesHandled'
  BY <1>4, <1>5 DEF PassedIsHandled, CommittedImpliesHandled
<1>8. OwnerLeads'
  <2>1. CASE UNCHANGED <<committed, late>>
    <3> SUFFICES ASSUME ~late, owner # None
                 PROVE  committed <= runtimes'[owner].committed
      BY <1>4, <2>1 DEF OwnerLeads
    <3>1. committed <= runtimes[owner].committed /\ committed \in Int /\ owner \in RuntimeId
      BY DEF OwnerLeads, TypeOK
    <3>2. CASE owner = r
      <4>1. /\ old.committed \in Int /\ end \in Int /\ old.committed < end
            /\ runtimes'[r].committed = end
        BY <1>4
      <4>2. committed <= old.committed
        BY <3>1, <3>2
      <4>3. committed <= end
        BY ONLY <3>1, <4>1, <4>2
      <4> QED
        BY <3>2, <4>1, <4>3
    <3>3. CASE owner # r
      BY <1>4, <3>1, <3>3
    <3> QED
      BY <3>2, <3>3
  <2>2. CASE committed' = end /\ late' = (late \/ r # owner)
    <3>1. ~late' => r = owner
      BY <2>2
    <3> QED
      BY <1>4, <2>2, <3>1 DEF OwnerLeads
  <2> QED
    BY <1>5, <2>1, <2>2
<1>9. PendingIsOwn'
  <2> SUFFICES ASSUME ~late' PROVE PendingIsOwn'
    BY DEF PendingIsOwn
  <2>1. \A s \in RuntimeId \ {r} : Pending(s)' = Pending(s)
    BY <1>4 DEF Pending
  <2>2. CASE UNCHANGED <<committed, late>> /\ runtimes'[r].handled = end
    <3>1. Pending(r)' = {}
      BY <1>4, <2>2 DEF Pending
    <3>2. \A s \in RuntimeId : Pending(s)' \subseteq Pending(s)
      BY <2>1, <3>1
    <3> QED
      BY <1>4, <2>2, <3>2 DEF PendingIsOwn
  <2>3. CASE committed' = end /\ late' = (late \/ r # owner)
    <3>1. ~late /\ committed <= runtimes[r].committed
      <4>1. ~late /\ r = owner
        BY <2>3
      <4> QED
        BY <4>1 DEF OwnerLeads
    <3>2. \A offset \in Pending(r)' : committed <= offset /\ offset < end
      <4>1. \/ Pending(r)' = {}
            \/ Pending(r)' = runtimes[r].committed .. end - 1
        BY <1>4 DEF Pending
      <4>2. committed \in Int /\ runtimes[r].committed \in Int /\ end \in Int
        BY <1>4 DEF TypeOK
      <4> HIDE DEF IInv
      <4> QED
        BY <3>1, <4>1, <4>2
    <3>3. committed < end /\ committed \in Int /\ end \in Int
      BY <1>4, <3>1 DEF TypeOK
    <3>4. \A offset \in handled : offset < committed
      BY <1>4, <3>1 DEF PendingIsOwn
    <3>5. \A s \in RuntimeId \ {r} : \A offset \in Pending(s)' :
             offset < committed /\ offset \notin handled
      BY <1>4, <2>1, <3>1 DEF PendingIsOwn
    <3>6. \A offset \in handled : offset < end
      BY <3>3, <3>4 DEF TypeOK
    <3>7. \A s \in RuntimeId \ {r} : \A offset \in Pending(s)' : offset < end /\ offset \in Int
      BY <3>3, <3>5 DEF Pending
    <3>8. \A offset \in Pending(r)' : offset \in Int /\ offset \notin handled
      BY <3>2, <3>3, <3>4 DEF Pending, TypeOK
    <3>9. \A s \in RuntimeId \ {r} : Pending(s)' \intersect Pending(r)' = {}
      BY <3>2, <3>3, <3>5, <3>7, <3>8
    <3>10. \A s \in RuntimeId \ {r} : \A offset \in Pending(s)' :
              \A q \in RuntimeId \ {s, r} : offset \notin Pending(q)'
      BY <1>4, <2>1, <3>1 DEF PendingIsOwn
    <3> QED
      BY <1>4, <2>3, <3>1, <3>2, <3>5, <3>6, <3>7, <3>8, <3>9, <3>10 DEF PendingIsOwn
  <2> QED
    BY <1>5, <2>2, <2>3
<1> QED
  BY <1>6, <1>7, <1>8, <1>9

(* Every action of Next preserves IInv. *)
LEMMA NextIInv == IInv /\ [Next]_vars => IInv'
<1> SUFFICES ASSUME IInv, [Next]_vars PROVE IInv'
  OBVIOUS
<1> USE DEF IInv
<1>1. CASE Assign
  <2>1. TypeOK' /\ Ordered'
    <3>1. committed \in Position /\ At(committed) \in Runtime
      BY DEF TypeOK, At, Runtime
    <3>2. /\ assigned \in 0 .. MaxRuntimes /\ MaxRuntimes \in Nat /\ assigned < MaxRuntimes
          /\ assigned' = assigned + 1 /\ owner' = assigned'
      BY <1>1, BoundAssumption DEF Assign, TypeOK
    <3>3. assigned' \in 0 .. MaxRuntimes /\ owner' \in 1 .. assigned'
      BY <3>2
    <3>4. 1 .. assigned \subseteq 1 .. assigned'
      BY <3>2
    <3>5. /\ runtimes' = [runtimes EXCEPT ![assigned'] = At(committed)]
          /\ UNCHANGED <<mode, crashed, stalls, committed, handled, twice, late>>
      BY <1>1 DEF Assign
    <3>6. runtimes' \in [RuntimeId -> Runtime]
      BY <3>1, <3>5 DEF TypeOK
    <3>7. TypeOK'
      BY <3>3, <3>4, <3>5, <3>6 DEF TypeOK, stalls
    <3>8. \A s \in RuntimeId : runtimes'[s] \in {runtimes[s], At(committed)}
      BY <3>5 DEF TypeOK
    <3>9. \A s \in RuntimeId : runtimes'[s] = At(committed) =>
             /\ runtimes'[s].polled = committed /\ runtimes'[s].handled = committed
             /\ runtimes'[s].committed = committed /\ committed <= committed
      BY <3>1 DEF At, Position
    <3>10. Ordered'
      BY <3>5, <3>8, <3>9 DEF Ordered
    <3> QED
      BY <3>7, <3>10
  <2>2. PassedIsHandled' /\ CommittedImpliesHandled' /\ OwnerLeads'
    BY <1>1 DEF Assign, At, TypeOK, PassedIsHandled, CommittedImpliesHandled, OwnerLeads
  <2>3. \A r \in RuntimeId : Pending(r)' \subseteq Pending(r)
    BY <1>1 DEF Assign, At, TypeOK, Pending
  <2>4. PendingIsOwn'
    BY <1>1, <2>3 DEF Assign, PendingIsOwn
  <2> QED
    BY <2>1, <2>2, <2>4
<1>2. CASE Revoke
  BY <1>2 DEF Revoke, TypeOK, Ordered, PassedIsHandled, CommittedImpliesHandled,
              OwnerLeads, PendingIsOwn, Pending
<1>3. ASSUME NEW r \in RuntimeId, Crash(r) PROVE IInv'
  <2>1. /\ runtimes'[r] = At(0) /\ At(0) \in Runtime
        /\ \A s \in RuntimeId \ {r} : runtimes'[s] = runtimes[s]
        /\ owner' \in {owner, None} /\ (owner' # None => owner' # r)
    BY <1>3 DEF Crash, At, TypeOK
  <2>2. TypeOK'
    <3>1. runtimes' \in [RuntimeId -> Runtime] /\ owner' \in {None} \union 1 .. assigned'
      BY <1>3, <2>1 DEF Crash, TypeOK
    <3>2. crashed' \subseteq 1 .. assigned' /\ panicked' \subseteq 1 .. assigned'
      BY <1>3 DEF Crash, Alive, TypeOK
    <3>3. blocked' \in BOOLEAN
      BY <1>3 DEF Crash
    <3> QED
      BY <1>3, <3>1, <3>2, <3>3 DEF Crash, TypeOK
  <2>3. Ordered' /\ OwnerLeads'
    <3>1. mode' = mode /\ committed' = committed /\ late' = late
      BY <1>3 DEF Crash
    <3>2. Ordered'
      <4>1. \A s \in RuntimeId \ {r} : runtimes'[s] = runtimes[s]
        BY <2>1
      <4>2. runtimes'[r].polled = 0 /\ runtimes'[r].handled = 0 /\ runtimes'[r].committed = 0
        BY <2>1 DEF At
      <4> QED
        BY <3>1, <4>1, <4>2 DEF Ordered
    <3>3. OwnerLeads'
      <4>1. owner' # None => owner' = owner /\ owner \in RuntimeId \ {r}
        BY <2>1 DEF TypeOK, RuntimeId, None
      <4>2. owner' # None => runtimes'[owner'] = runtimes[owner] /\ owner' = owner
        BY <2>1, <4>1
      <4> QED
        BY <3>1, <4>2 DEF OwnerLeads
    <3> QED
      BY <3>2, <3>3
  <2>4. PassedIsHandled' /\ CommittedImpliesHandled'
    BY <1>3, <2>1 DEF Crash, At, TypeOK, PassedIsHandled, CommittedImpliesHandled
  <2>5. \A s \in RuntimeId : Pending(s)' \subseteq Pending(s)
    BY <2>1 DEF At, Pending
  <2>6. PendingIsOwn'
    BY <1>3, <2>5 DEF Crash, PendingIsOwn
  <2> QED
    BY <2>2, <2>3, <2>4, <2>6
<1>4. ASSUME NEW r \in RuntimeId, Poll(r) PROVE IInv'
  <2>1. PICK end \in runtimes[r].polled + 1 .. LogEnd :
           runtimes' = [runtimes EXCEPT ![r].polled = end]
    BY <1>4 DEF Poll
  <2>2. /\ runtimes \in [RuntimeId -> Runtime] /\ runtimes[r] \in Runtime
        /\ end \in Position /\ runtimes[r].polled < end
        /\ UNCHANGED <<mode, assigned, owner, crashed, stalls, committed, handled, twice, late>>
    BY <1>4, BoundAssumption DEF Poll, TypeOK, Runtime, Position
  <2>3. /\ runtimes' \in [RuntimeId -> Runtime]
        /\ runtimes'[r] = [runtimes[r] EXCEPT !.polled = end]
        /\ \A s \in RuntimeId \ {r} : runtimes'[s] = runtimes[s]
    <3>1. [runtimes[r] EXCEPT !.polled = end] \in Runtime
      BY <2>2 DEF Runtime
    <3> HIDE DEF IInv
    <3> QED
      BY <2>1, <2>2, <3>1
  <2>4. \A s \in RuntimeId : /\ runtimes'[s].handled = runtimes[s].handled
                            /\ runtimes'[s].committed = runtimes[s].committed
                            /\ runtimes[s].polled <= runtimes'[s].polled
    <3>1. runtimes'[r].polled = end /\ runtimes'[r].handled = runtimes[r].handled
          /\ runtimes'[r].committed = runtimes[r].committed
      BY <2>2, <2>3 DEF Runtime
    <3>2. \A s \in RuntimeId : runtimes[s].polled \in Int
      BY <2>2 DEF Runtime, Position
    <3>3. runtimes[r].polled <= runtimes'[r].polled
      BY <2>2, <3>1, <3>2 DEF Position
    <3>4. \A s \in RuntimeId \ {r} : runtimes[s].polled <= runtimes'[s].polled
      BY <2>3, <3>2
    <3> HIDE DEF IInv
    <3> QED
      BY <2>3, <3>1, <3>3, <3>4
  <2>5. TypeOK'
    BY <2>2, <2>3 DEF TypeOK, stalls
  <2>6. Ordered'
    <3>1. ASSUME NEW s \in RuntimeId
          PROVE  /\ runtimes[s].handled \in Int /\ runtimes[s].committed \in Int
                 /\ runtimes[s].polled \in Int /\ runtimes'[s].polled \in Int
      <4>1. runtimes[s] \in Runtime /\ runtimes'[s] \in Runtime
        BY <2>2, <2>3
      <4> QED
        BY <4>1 DEF Runtime, Position
    <3>2. ASSUME NEW s \in RuntimeId
          PROVE  /\ runtimes[s].handled <= runtimes[s].polled
                       => runtimes'[s].handled <= runtimes'[s].polled
                 /\ runtimes[s].committed <= runtimes[s].polled
                       => runtimes'[s].committed <= runtimes'[s].polled
      BY <2>4, <3>1
    <3> QED
      BY <2>2, <2>4, <3>2 DEF Ordered
  <2>7. PassedIsHandled' /\ CommittedImpliesHandled'
    BY <2>2, <2>4 DEF PassedIsHandled, CommittedImpliesHandled
  <2>8. OwnerLeads'
    BY <2>2, <2>4 DEF TypeOK, OwnerLeads, RuntimeId, None
  <2>9. \A s \in RuntimeId : Pending(s)' = Pending(s)
    BY <2>4 DEF Pending
  <2>10. PendingIsOwn'
    BY <1>4, <2>9 DEF Poll, PendingIsOwn
  <2> QED
    BY <2>5, <2>6, <2>7, <2>8, <2>10
<1>5. ASSUME NEW r \in RuntimeId, Works(r) PROVE IInv'
  BY <1>5, HandlesIInv, AcknowledgeRecordIInv, AcknowledgeFetchIInv DEF Works
<1>6. ASSUME NEW r \in RuntimeId, ProcessorPanics(r) PROVE IInv'
  <2>1. /\ panicked' \subseteq 1 .. assigned
        /\ UNCHANGED <<mode, assigned, owner, runtimes, crashed, blocked, committed,
                       handled, twice, late>>
    BY <1>6 DEF ProcessorPanics, Alive, TypeOK
  <2> QED
    BY <2>1 DEF TypeOK, Ordered, PassedIsHandled, CommittedImpliesHandled,
                OwnerLeads, PendingIsOwn, Pending
<1>7. CASE LoopBlocks
  <2>1. /\ blocked' \in BOOLEAN
        /\ UNCHANGED <<mode, assigned, owner, runtimes, crashed, panicked, committed,
                       handled, twice, late>>
    BY <1>7 DEF LoopBlocks
  <2> QED
    BY <2>1 DEF TypeOK, Ordered, PassedIsHandled, CommittedImpliesHandled,
                OwnerLeads, PendingIsOwn, Pending
<1>8. CASE UNCHANGED vars
  BY <1>8 DEF vars, stalls, TypeOK, Ordered, PassedIsHandled, CommittedImpliesHandled,
              OwnerLeads, PendingIsOwn, Pending
<1> QED
  BY <1>1, <1>2, <1>3, <1>4, <1>5, <1>6, <1>7, <1>8 DEF Next, Quiet

-----------------------------------------------------------------------------
(* In every reachable state the runtimes, whichever of them still run,     *)
(* have only handled records behind them, and until a commit is late hold  *)
(* their own records.                                                      *)
THEOREM InductiveInvariant == Spec => []IInv
  BY InitIInv, NextIInv, PTL DEF Spec

(* Every variable keeps its type. *)
THEOREM TypeCorrect == Spec => []TypeOK
  BY InductiveInvariant, PTL DEF IInv

(* At-least-once delivery never commits past a record that was not         *)
(* handled, however many runtimes of a partition overlap.                  *)
THEOREM CommitsOnlyHandled == Spec => []CommittedImpliesHandled
  BY InductiveInvariant, PTL DEF IInv

(* At-most-once delivery handles a record twice only after a late commit.  *)
THEOREM NoDuplicateUnlessLate == Spec => []NeverTwiceUnlessLate
<1>1. IInv => NeverTwiceUnlessLate
  BY DEF IInv, PendingIsOwn, NeverTwiceUnlessLate
<1> QED
  BY <1>1, InductiveInvariant, PTL

(* The group's offset does not move back before a late commit. *)
THEOREM NoMoveBackUnlessLate == Spec => MovesBackOnlyWhenLate
<1>1. ASSUME IInv, Next PROVE committed' < committed => late'
  <2>1. ASSUME NEW r \in RuntimeId, AcknowledgeRecord(r)
        PROVE  committed' < committed => late'
    <3>1. /\ runtimes[r].committed \in Int /\ committed \in Int
          /\ ~late /\ r = owner => committed <= runtimes[r].committed
      BY <1>1 DEF IInv, TypeOK, OwnerLeads
    <3>2. \/ committed' = committed
          \/ committed' > runtimes[r].committed /\ committed' \in Int
                /\ late' = (late \/ r # owner)
      BY <2>1, <3>1 DEF AcknowledgeRecord, Commits, CommitFails
    <3>3. late' = (late \/ r # owner) => late' \/ (~late /\ r = owner)
      OBVIOUS
    <3> QED
      BY <3>1, <3>2, <3>3
  <2>2. ASSUME NEW r \in RuntimeId, AcknowledgeFetch(r)
        PROVE  committed' < committed => late'
    <3>1. /\ runtimes[r].committed \in Int /\ runtimes[r].polled \in Int /\ committed \in Int
          /\ ~late /\ r = owner => committed <= runtimes[r].committed
      BY <1>1 DEF IInv, TypeOK, OwnerLeads
    <3>2. \/ committed' = committed
          \/ committed' > runtimes[r].committed /\ committed' \in Int
                /\ late' = (late \/ r # owner)
      BY <2>2, <3>1 DEF AcknowledgeFetch, Commits, CommitFails
    <3>3. late' = (late \/ r # owner) => late' \/ (~late /\ r = owner)
      OBVIOUS
    <3> QED
      BY <3>1, <3>2, <3>3
  <2>3. \/ committed' = committed
        \/ \E r \in RuntimeId : AcknowledgeRecord(r) \/ AcknowledgeFetch(r)
    BY <1>1 DEF Next, Assign, Revoke, Crash, LoopBlocks, ProcessorPanics, Poll, Works,
                HandleRecord, StartRecord, Handles, Quiet, vars
  <2>4. committed' = committed => ~(committed' < committed)
    BY <1>1 DEF IInv, TypeOK
  <2> QED
    BY <2>1, <2>2, <2>3, <2>4
<1>2. IInv /\ [Next]_vars => [committed' < committed => late']_vars
  BY <1>1
<1> QED
  BY <1>2, InductiveInvariant, PTL DEF Spec, MovesBackOnlyWhenLate
=============================================================================
