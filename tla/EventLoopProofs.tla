--------------------------- MODULE EventLoopProofs ---------------------------
(***************************************************************************)
(* Proofs about EventLoop for any partitions, records, depth and number of *)
(* assignments: the types, the discipline of the loop's channels, what may *)
(* be dropped, and that the client is closed last.                         *)
(***************************************************************************)
EXTENDS EventLoop, FiniteSetTheorems, SequenceTheorems, TLAPS

(* A fetch that was polled is of a record there is, or of an error, and    *)
(* what a runtime holds is of a partition.                                 *)
Sent == {f \in Fetch : f.tp \in Partition => f.offset < LogEnd}
Held == {f \in Sent : f.tp \in Partition}

FetchesTyped ==
    /\ current \in Seq(Sent)
    /\ loop = "deliver" => current # << >>
    /\ topics \in Seq(Seq(Sent) \ {<< >>})
    /\ fetcher = "send" => topics # << >>
    /\ \A r \in DOMAIN runtimes : runtimes[r].todo \in Seq(Held)

(* There is room for the runtimes of the callback in progress. *)
RoomLeft ==
    /\ callback.todo \subseteq callback.all
    /\ callback.kind = "assigned" => Len(runtimes) + Cardinality(callback.todo) <= MaxRuntimes

(* The table leads to the channels of its partitions, open until shutdown. *)
TableLeads ==
    \A tp \in Partition : table[tp] # None =>
        /\ table[tp] \in DOMAIN runtimes
        /\ runtimes[table[tp]].tp = tp
        /\ loop \in {"tick", "deliver"} => runtimes[table[tp]].open

(* While nothing is cancelled, the partitions in the table are those the   *)
(* client owns and those the callback in progress has added or has yet to  *)
(* remove, and every open channel is in it.                                *)
Listed(tp) ==
    \/ tp \in owned
    \/ callback.kind = "assigned" /\ tp \in callback.all \ callback.todo
    \/ callback.kind = "gone" /\ tp \in callback.todo
TableIsComplete ==
    ctx = "live" =>
        /\ callback.all \intersect owned = {}
        /\ \A tp \in Partition : table[tp] # None <=> Listed(tp)
        /\ \A r \in DOMAIN runtimes : runtimes[r].open => table[runtimes[r].tp] = r

(* The goroutines end after a cancellation only, and the client after them. *)
EndsInOrder ==
    /\ ctx = "live" => loop \in {"tick", "deliver"} /\ fetcher # "done"
    /\ loop = "done" => \A r \in DOMAIN runtimes : runtimes[r].state = "returned"
    /\ client # "open" => loop = "done" /\ fetcher = "done"

Types == TypeOK /\ FetchesTyped /\ RoomLeft
Tables == TableLeads /\ TableIsComplete /\ EndsInOrder
IInv == Types /\ Tables

USE PartitionAssumption, BoundAssumption DEF Offset, RuntimeId, None

(* No partition is assigned. *)
LEMMA InitIInv == Init => IInv
<1> SUFFICES ASSUME Init PROVE IInv
  OBVIOUS
<1>1. TypeOK
  BY DEF Init, TypeOK, Idle
<1>2. FetchesTyped /\ RoomLeft
  BY DEF Init, FetchesTyped, RoomLeft, Idle
<1>3. Tables
  BY DEF Init, Tables, TableLeads, TableIsComplete, Listed, EndsInOrder, Idle
<1> QED
  BY <1>1, <1>2, <1>3 DEF IInv, Types

(* A poll lists fetches in topics of at least one. *)
LEMMA ListingsType ==
  ASSUME NEW fetches \in SUBSET Sent, IsFiniteSet(fetches), fetches # {},
         NEW l \in Listings(fetches)
  PROVE  l \in Seq(Seq(Sent) \ {<< >>}) /\ l # << >>
<1> DEFINE n == Cardinality(fetches)
<1>1. n \in Nat \ {0}
  BY FS_CardinalityType, FS_EmptySet
<1> HIDE DEF n
<1>2. ASSUME NEW s \in [1 .. n -> fetches]
      PROVE  s \in Seq(Sent) \ {<< >>} /\ Len(s) = n /\ \A i \in 1 .. n : <<s[i]>> \in Seq(Sent) \ {<< >>}
  BY <1>1, <1>2
<1>3. PICK s \in [1 .. n -> fetches] : l = <<s>> \/ l = [i \in DOMAIN s |-> <<s[i]>>]
  BY DEF Listings, n
<1>4. CASE l = <<s>>
  BY <1>2, <1>4
<1>5. CASE l = [i \in DOMAIN s |-> <<s[i]>>]
  <2>1. l \in [1 .. n -> Seq(Sent) \ {<< >>}]
    BY <1>2, <1>5
  <2> QED
    BY <1>1, <2>1
<1> QED
  BY <1>3, <1>4, <1>5

(* The fetches a poll returns. *)
LEMMA PolledType ==
  ASSUME Types, NEW tps \in SUBSET {tp \in owned : position[tp] < LogEnd}, tps # {}
  PROVE  LET fetches == {[tp |-> tp, rt |-> table[tp], offset |-> position[tp]] : tp \in tps}
         IN  fetches \in SUBSET Sent /\ IsFiniteSet(fetches) /\ fetches # {}
<1> DEFINE fetch == [tp \in tps |-> [tp |-> tp, rt |-> table[tp], offset |-> position[tp]]]
           fetches == {[tp |-> tp, rt |-> table[tp], offset |-> position[tp]] : tp \in tps}
<1>1. IsFiniteSet(tps) /\ tps \subseteq Partition
  <2>1. tps \in SUBSET Partition
    BY DEF Types, TypeOK
  <2> QED
    BY <2>1, FS_Subset
<1>2. fetches \in SUBSET Sent /\ fetches # {}
  <2>1. ASSUME NEW tp \in tps
        PROVE  [tp |-> tp, rt |-> table[tp], offset |-> position[tp]] \in Sent
    <3>1. /\ tp \in Partition /\ table[tp] \in RuntimeId \union {None}
          /\ position[tp] \in Offset /\ position[tp] < LogEnd
      BY <1>1 DEF Types, TypeOK
    <3> QED
      BY <3>1 DEF Sent, Fetch
  <2> QED
    BY <2>1
<1>3. fetch \in Surjection(tps, fetches)
  BY DEF Surjection
<1>4. IsFiniteSet(fetches)
  <2> HIDE DEF fetch, fetches
  <2> QED
    BY <1>1, <1>3, FS_Surjection
<1> QED
  BY <1>2, <1>4

(* The fetcher's steps. *)
LEMMA FetcherTypes ==
  ASSUME Types,
         \/ CheckContext \/ PollCancelled \/ SendCancelled
         \/ \E tps \in (SUBSET Partition) \ {{}} : PollReturns(tps)
  PROVE  Types'
<1> USE DEF Types, loopVars, clientVars, brokerVars
<1>1. CASE CheckContext
  BY <1>1 DEF CheckContext, TypeOK, FetchesTyped, RoomLeft
<1>2. CASE SendCancelled
  <2>1. << >> \in Seq(Seq(Fetch)) /\ << >> \in Seq(Seq(Sent) \ {<< >>})
    OBVIOUS
  <2> QED
    BY <1>2, <2>1 DEF SendCancelled, TypeOK, FetchesTyped, RoomLeft
<1>3. CASE PollCancelled
  <2> DEFINE error == [tp |-> NoPartition, rt |-> None, offset |-> 0]
  <2>1. error \in Sent /\ error \in Fetch
    BY DEF Fetch, Sent
  <2>2. topics' = << <<error>> >>
    BY <1>3 DEF PollCancelled
  <2> HIDE DEF error
  <2>3. topics' \in Seq(Seq(Fetch)) /\ topics' \in Seq(Seq(Sent) \ {<< >>}) /\ topics' # << >>
    BY <2>1, <2>2
  <2> QED
    BY <1>3, <2>3 DEF PollCancelled, TypeOK, FetchesTyped, RoomLeft
<1>4. ASSUME NEW tps \in (SUBSET Partition) \ {{}}, PollReturns(tps) PROVE Types'
  <2> USE <1>4 DEF PollReturns
  <2>1. topics' \in Seq(Seq(Sent) \ {<< >>}) /\ topics' # << >>
    <3> DEFINE fetches == {[tp |-> tp, rt |-> table[tp], offset |-> position[tp]] : tp \in tps}
    <3>1. fetches \in SUBSET Sent /\ IsFiniteSet(fetches) /\ fetches # {}
      <4> HIDE DEF Types
      <4>1. tps \subseteq {tp \in owned : position[tp] < LogEnd}
        BY <1>4 DEF PollReturns
      <4> HIDE DEF PollReturns
      <4>2. tps # {}
        BY <1>4
      <4> QED
        BY <4>1, <4>2, PolledType
    <3>2. topics' \in Listings(fetches)
      OBVIOUS
    <3> HIDE DEF fetches
    <3> QED
      BY <3>1, <3>2, ListingsType
  <2>2. Sent \subseteq Fetch
    BY DEF Sent
  <2>3. Seq(Seq(Sent) \ {<< >>}) \subseteq Seq(Seq(Fetch))
    BY <2>2
  <2>4. position' \in [Partition -> Offset]
    BY DEF TypeOK
  <2> QED
    BY <2>1, <2>3, <2>4 DEF TypeOK, FetchesTyped, RoomLeft
<1> QED
  BY <1>1, <1>2, <1>3, <1>4

(* The steps of the client, of its callbacks and of the context. *)
LEMMA ClientTypes ==
  ASSUME Types,
         \/ Cancel \/ CallbackCancelled \/ CallbackReturns \/ CloseClient \/ ClientClosed
         \/ \E tps \in (SUBSET Partition) \ {{}} : Assign(tps) \/ Revoke(tps)
  PROVE  Types'
<1> USE DEF Types, loopVars, fetcherVars, clientVars, brokerVars
<1>1. CASE Cancel
  BY <1>1 DEF Cancel, TypeOK, FetchesTyped, RoomLeft
<1>2. CASE ClientClosed
  BY <1>2 DEF ClientClosed, TypeOK, FetchesTyped, RoomLeft
<1>3. CASE CallbackCancelled
  <2>1. callback'.kind = callback.kind /\ callback'.todo = {} /\ callback'.all = callback.all
    BY <1>3 DEF CallbackCancelled, TypeOK
  <2>2. callback.todo \in SUBSET Partition
    BY DEF TypeOK
  <2>3. IsFiniteSet(callback.todo) /\ Cardinality(callback.todo) \in Nat /\ Cardinality({}) = 0
    BY <2>2, FS_Subset, FS_CardinalityType, FS_EmptySet
  <2>4. RoomLeft'
    <3>1. Len(runtimes) \in Nat /\ UNCHANGED runtimes
      BY <1>3 DEF CallbackCancelled, TypeOK
    <3> QED
      BY <2>1, <2>3, <3>1 DEF RoomLeft
  <2>5. TypeOK' /\ FetchesTyped'
    <3>1. callback' \in [kind : {"none", "assigned", "gone"},
                         all : SUBSET Partition, todo : SUBSET Partition]
      BY <1>3 DEF CallbackCancelled, TypeOK
    <3> QED
      BY <1>3, <3>1 DEF CallbackCancelled, TypeOK, FetchesTyped
  <2> QED
    BY <2>4, <2>5
<1>4. CASE CallbackReturns
  <2> USE <1>4 DEF CallbackReturns
  <2>1. /\ runtimes' \in Seq(Runtime) /\ Len(runtimes') = Len(runtimes)
        /\ DOMAIN runtimes' = DOMAIN runtimes
        /\ \A r \in DOMAIN runtimes : runtimes'[r].todo = runtimes[r].todo
    <3>1. CASE callback.kind # "assigned"
      BY <3>1 DEF TypeOK
    <3>2. CASE callback.kind = "assigned"
      <4>1. runtimes' = [r \in DOMAIN runtimes |->
                           IF \E tp \in callback.all : table[tp] = r
                           THEN [runtimes[r] EXCEPT !.next = committed[runtimes[r].tp]]
                           ELSE runtimes[r]]
        BY <3>2
      <4>2. \A r \in DOMAIN runtimes :
              /\ runtimes'[r] \in Runtime
              /\ runtimes'[r].todo = runtimes[r].todo
        <5> SUFFICES ASSUME NEW r \in DOMAIN runtimes
                     PROVE  runtimes'[r] \in Runtime /\ runtimes'[r].todo = runtimes[r].todo
          OBVIOUS
        <5>1. runtimes[r] \in Runtime
          BY DEF TypeOK
        <5>2. committed[runtimes[r].tp] \in Offset
          BY <5>1 DEF TypeOK, Runtime
        <5> QED
          BY <4>1, <5>1, <5>2 DEF Runtime
      <4>3. DOMAIN runtimes = 1 .. Len(runtimes) /\ Len(runtimes) \in Nat
        BY DEF TypeOK
      <4>4. runtimes' \in [1 .. Len(runtimes) -> Runtime]
        BY <4>1, <4>2, <4>3
      <4> QED
        BY <4>2, <4>3, <4>4
    <3> QED
      BY <3>1, <3>2
  <2>2. owned' \subseteq Partition /\ position' \in [Partition -> Offset]
    BY DEF TypeOK
  <2>3. callback' = [kind |-> "none", all |-> {}, todo |-> {}]
    BY DEF Idle
  <2> QED
    BY <2>1, <2>2, <2>3 DEF TypeOK, FetchesTyped, RoomLeft
<1>5. CASE CloseClient
  <2>1. position' \in [Partition -> Offset] /\ owned' \subseteq Partition
    BY <1>5 DEF CloseClient, GiveUp, TypeOK
  <2>2. callback' = [kind |-> "gone", all |-> owned, todo |-> owned]
    BY <1>5 DEF CloseClient
  <2> QED
    BY <1>5, <2>1, <2>2 DEF CloseClient, TypeOK, FetchesTyped, RoomLeft
<1>6. ASSUME NEW tps \in (SUBSET Partition) \ {{}}, Assign(tps) PROVE Types'
  <2>1. callback' = [kind |-> "assigned", all |-> tps, todo |-> tps]
    BY <1>6 DEF Assign, CallBack
  <2> QED
    BY <1>6, <2>1 DEF Assign, CallBack, TypeOK, FetchesTyped, RoomLeft
<1>7. ASSUME NEW tps \in (SUBSET Partition) \ {{}}, Revoke(tps) PROVE Types'
  <2>1. callback' = [kind |-> "gone", all |-> tps, todo |-> tps]
    BY <1>7 DEF Revoke, CallBack
  <2>2. position' \in [Partition -> Offset] /\ owned' \subseteq Partition
    BY <1>7 DEF Revoke, GiveUp, TypeOK
  <2> QED
    BY <1>7, <2>1, <2>2 DEF Revoke, CallBack, TypeOK, FetchesTyped, RoomLeft
<1> QED
  BY <1>1, <1>2, <1>3, <1>4, <1>5, <1>6, <1>7

(* The steps of the loop. *)
LEMMA LoopTypes ==
  ASSUME Types, LoopNext
  PROVE  Types'
<1> USE DEF Types, loopVars, fetcherVars, clientVars, brokerVars
<1>1. /\ runtimes \in Seq(Runtime) /\ Len(runtimes) \in Nat
      /\ DOMAIN runtimes = 1 .. Len(runtimes)
      /\ callback \in [kind : {"none", "assigned", "gone"},
                       all : SUBSET Partition, todo : SUBSET Partition]
      /\ table \in [Partition -> RuntimeId \union {None}]
      /\ \A r \in DOMAIN runtimes : runtimes[r] \in Runtime /\ runtimes[r].todo \in Seq(Held)
  BY DEF TypeOK, FetchesTyped
<1>2. ASSUME NEW tp \in Partition, CallbackSent(tp)
      PROVE  /\ callback' \in [kind : {"none", "assigned", "gone"},
                               all : SUBSET Partition, todo : SUBSET Partition]
             /\ callback'.kind = callback.kind /\ callback'.all = callback.all
             /\ callback'.todo = callback.todo \ {tp}
             /\ Cardinality(callback'.todo) = Cardinality(callback.todo) - 1
             /\ Cardinality(callback.todo) \in Nat \ {0}
  <2>1. /\ callback'.kind = callback.kind /\ callback'.all = callback.all
        /\ callback'.todo = callback.todo \ {tp} /\ tp \in callback.todo
        /\ callback' \in [kind : {"none", "assigned", "gone"},
                          all : SUBSET Partition, todo : SUBSET Partition]
    BY <1>1, <1>2 DEF CallbackSent
  <2>2. IsFiniteSet(callback.todo)
    <3>1. callback.todo \in SUBSET Partition
      BY <1>1
    <3> QED
      BY <3>1, FS_Subset
  <2>3. Cardinality(callback.todo) \in Nat \ {0}
    BY <2>1, <2>2, FS_CardinalityType, FS_EmptySet
  <2>4. Cardinality(callback.todo \ {tp}) = Cardinality(callback.todo) - 1
    BY <2>1, <2>2, FS_RemoveElement
  <2> QED
    BY <2>1, <2>3, <2>4
<1>3. ASSUME NEW tp \in Partition, HandleAssigned(tp) PROVE Types'
  <2>1. CallbackSent(tp) /\ callback.kind = "assigned"
    BY <1>3 DEF HandleAssigned
  <2>2. Len(runtimes) + 1 <= MaxRuntimes
    BY <1>1, <1>2, <2>1 DEF RoomLeft
  <2>3. NewRuntime(tp) \in Runtime /\ NewRuntime(tp).todo = << >>
    BY DEF NewRuntime, Runtime
  <2>4. /\ runtimes' = Append(runtimes, NewRuntime(tp)) /\ runtimes' \in Seq(Runtime)
        /\ Len(runtimes') = Len(runtimes) + 1 /\ DOMAIN runtimes' = 1 .. Len(runtimes) + 1
        /\ \A r \in DOMAIN runtimes : runtimes'[r] = runtimes[r]
        /\ runtimes'[Len(runtimes) + 1] = NewRuntime(tp)
    BY <1>1, <1>3, <2>3 DEF HandleAssigned
  <2>5. table' \in [Partition -> RuntimeId \union {None}]
    BY <1>1, <1>3, <2>2 DEF HandleAssigned
  <2>6. TypeOK'
    BY <1>2, <2>1, <2>2, <2>4, <2>5 DEF TypeOK, CallbackSent
  <2>7. \A r \in DOMAIN runtimes' : runtimes'[r].todo \in Seq(Held)
    <3>1. << >> \in Seq(Held) /\ DOMAIN runtimes' = DOMAIN runtimes \union {Len(runtimes) + 1}
      BY <1>1, <2>4
    <3> QED
      BY <1>1, <2>3, <2>4, <3>1
  <2>8. FetchesTyped'
    BY <2>1, <2>7 DEF FetchesTyped, CallbackSent
  <2>9. RoomLeft'
    BY <1>1, <1>2, <2>1, <2>4 DEF RoomLeft
  <2> QED
    BY <2>6, <2>8, <2>9
<1>4. ASSUME NEW tp \in Partition, HandleGone(tp) PROVE Types'
  <2>1. CallbackSent(tp) /\ callback.kind = "gone"
    BY <1>4 DEF HandleGone
  <2>2. table' \in [Partition -> RuntimeId \union {None}]
    BY <1>1, <1>4 DEF HandleGone
  <2>3. /\ runtimes' \in Seq(Runtime) /\ Len(runtimes') = Len(runtimes)
        /\ DOMAIN runtimes' = DOMAIN runtimes
        /\ \A r \in DOMAIN runtimes : runtimes'[r].todo = runtimes[r].todo
    <3>1. CASE table[tp] = None
      BY <1>1, <1>4, <3>1 DEF HandleGone
    <3>2. CASE table[tp] # None
      <4> DEFINE r == table[tp]
      <4>1. runtimes' = [runtimes EXCEPT ![r].open = FALSE]
        BY <1>4, <3>2 DEF HandleGone, Close
      <4> HIDE DEF r
      <4>2. ASSUME r \in DOMAIN runtimes
            PROVE  /\ [runtimes[r] EXCEPT !.open = FALSE] \in Runtime
                   /\ [runtimes[r] EXCEPT !.open = FALSE].todo = runtimes[r].todo
        BY <1>1, <4>2 DEF Runtime
      <4>3. CASE r \notin DOMAIN runtimes
        <5>1. runtimes' = runtimes
          BY <1>1, <4>1, <4>3
        <5> QED
          BY <1>1, <5>1
      <4>4. CASE r \in DOMAIN runtimes
        <5>1. runtimes' \in [1 .. Len(runtimes) -> Runtime]
          BY <1>1, <4>1, <4>2, <4>4
        <5>2. \A s \in DOMAIN runtimes : runtimes'[s].todo = runtimes[s].todo
          BY <1>1, <4>1, <4>2, <4>4
        <5> QED
          BY <1>1, <5>1, <5>2
      <4> QED
        BY <4>3, <4>4
    <3> QED
      BY <3>1, <3>2
  <2>4. TypeOK'
    BY <1>2, <2>1, <2>2, <2>3 DEF TypeOK, CallbackSent
  <2>5. FetchesTyped'
    BY <2>1, <2>3 DEF FetchesTyped, CallbackSent
  <2>6. RoomLeft'
    BY <1>1, <1>2, <2>1, <2>3 DEF RoomLeft
  <2> QED
    BY <2>4, <2>5, <2>6
<1>5. CASE SendTopic
  <2> USE <1>5 DEF SendTopic
  <2>1. topics \in Seq(Seq(Sent) \ {<< >>}) /\ topics # << >>
    BY DEF FetchesTyped
  <2>2. /\ current' \in Seq(Sent) /\ current' # << >>
        /\ topics' \in Seq(Seq(Sent) \ {<< >>})
    BY <2>1
  <2>3. current' \in Seq(Fetch) /\ topics' \in Seq(Seq(Fetch))
    BY <2>1 DEF TypeOK
  <2> QED
    BY <2>2, <2>3 DEF TypeOK, FetchesTyped, RoomLeft
<1>6. ASSUME NextPartition, loop = "deliver"
      PROVE  /\ current \in Seq(Sent) /\ current # << >>
             /\ current' \in Seq(Sent) /\ current' \in Seq(Fetch)
             /\ loop' \in {"tick", "deliver"} /\ (loop' = "deliver" => current' # << >>)
  BY <1>6 DEF NextPartition, FetchesTyped, TypeOK
<1>7. CASE Drop
  BY <1>6, <1>7 DEF Drop, TypeOK, FetchesTyped, RoomLeft
<1>8. CASE HandOff
  <2> DEFINE f == Head(current)
             r == table[f.tp]
  <2>1. NextPartition /\ loop = "deliver"
    BY <1>8 DEF HandOff
  <2>2. f \in Held /\ f \in Fetch /\ f.offset + 1 \in Offset
    <3>1. f \in Sent /\ f.tp \in Partition
      BY <1>6, <1>8, <2>1 DEF HandOff, Known
    <3> HIDE DEF f
    <3> QED
      BY <3>1 DEF Sent, Held, Fetch
  <2>3. runtimes' = [runtimes EXCEPT ![r].todo = Append(@, f),
                                     ![r].next = IF f.rt = r THEN f.offset + 1 ELSE @]
    BY <1>8 DEF HandOff
  <2> HIDE DEF f, r
  <2>4. /\ runtimes' \in Seq(Runtime) /\ Len(runtimes') = Len(runtimes)
        /\ DOMAIN runtimes' = DOMAIN runtimes
        /\ \A s \in DOMAIN runtimes : runtimes'[s].todo \in Seq(Held)
    <3>1. CASE r \notin DOMAIN runtimes
      <4>1. runtimes' = runtimes
        BY <1>1, <2>3, <3>1
      <4> QED
        BY <1>1, <4>1
    <3>2. CASE r \in DOMAIN runtimes
      <4>1. runtimes[r] \in Runtime /\ runtimes[r].todo \in Seq(Held)
        BY <1>1, <3>2
      <4>2. /\ runtimes'[r] = [runtimes[r] EXCEPT !.todo = Append(@, f),
                                       !.next = IF f.rt = r THEN f.offset + 1 ELSE @]
            /\ runtimes' = [runtimes EXCEPT ![r] = runtimes'[r]]
        BY <1>1, <2>3, <3>2
      <4>3. runtimes'[r] \in Runtime /\ runtimes'[r].todo = Append(runtimes[r].todo, f)
        <5>1. Append(runtimes[r].todo, f) \in Seq(Fetch)
          BY <2>2, <4>1 DEF Runtime
        <5>2. (IF f.rt = r THEN f.offset + 1 ELSE runtimes[r].next) \in Offset
          BY <2>2, <4>1 DEF Runtime
        <5>3. runtimes[r] \in [tp : Partition, open : BOOLEAN, state : {"running", "returned"},
                              todo : Seq(Fetch), next : Offset]
          BY <4>1 DEF Runtime
        <5>4. runtimes'[r] = [runtimes[r] EXCEPT !.todo = Append(runtimes[r].todo, f),
                                  !.next = IF f.rt = r THEN f.offset + 1 ELSE runtimes[r].next]
          BY <4>2
        <5> QED
          BY <5>1, <5>2, <5>3, <5>4 DEF Runtime
      <4>4. runtimes'[r].todo \in Seq(Held)
        BY <2>2, <4>1, <4>3
      <4>5. runtimes' \in [1 .. Len(runtimes) -> Runtime]
        BY <1>1, <3>2, <4>2, <4>3
      <4>6. \A s \in DOMAIN runtimes : runtimes'[s].todo \in Seq(Held)
        BY <1>1, <3>2, <4>2, <4>4
      <4> QED
        BY <1>1, <4>5, <4>6
    <3> QED
      BY <3>1, <3>2
  <2>5. TypeOK'
    BY <1>6, <1>8, <2>1, <2>4 DEF HandOff, TypeOK
  <2>6. FetchesTyped' /\ RoomLeft'
    BY <1>6, <1>8, <2>1, <2>4 DEF HandOff, FetchesTyped, RoomLeft
  <2> QED
    BY <2>5, <2>6
<1>9. CASE Shutdown
  <2> USE <1>9 DEF Shutdown, ShutdownFrom
  <2>1. \A r \in DOMAIN runtimes :
          runtimes'[r] \in Runtime /\ runtimes'[r].todo = runtimes[r].todo
    BY <1>1 DEF Runtime
  <2>2. runtimes' \in Seq(Runtime) /\ Len(runtimes') = Len(runtimes)
        /\ DOMAIN runtimes' = DOMAIN runtimes
    <3>1. runtimes' \in [1 .. Len(runtimes) -> Runtime]
      BY <1>1, <2>1
    <3> QED
      BY <1>1, <3>1
  <2>3. current' = << >> /\ << >> \in Seq(Sent) /\ << >> \in Seq(Fetch)
    OBVIOUS
  <2> QED
    BY <1>1, <2>1, <2>2, <2>3 DEF TypeOK, FetchesTyped, RoomLeft
<1>10. CASE WaitReturns
  BY <1>10 DEF WaitReturns, TypeOK, FetchesTyped, RoomLeft
<1> QED
  BY <1>3, <1>4, <1>5, <1>7, <1>8, <1>9, <1>10 DEF LoopNext, CallbackNext

(* The steps of the runtimes. *)
LEMMA RuntimeTypes ==
  ASSUME Types, NEW r \in RuntimeId, RuntimeNext(r)
  PROVE  Types'
<1> USE DEF Types, loopVars, fetcherVars, clientVars
<1>1. /\ runtimes \in Seq(Runtime) /\ Len(runtimes) \in Nat
      /\ DOMAIN runtimes = 1 .. Len(runtimes)
      /\ r \in DOMAIN runtimes
      /\ runtimes[r] \in Runtime
      /\ \A s \in DOMAIN runtimes : runtimes[s].todo \in Seq(Held)
  BY DEF TypeOK, FetchesTyped, RuntimeNext, HandleRecord, HandleThenCommit, RuntimeReturns,
         ReturnIf, Running
<1>2. ASSUME NEW rt \in Runtime, rt.todo \in Seq(Held), runtimes' = [runtimes EXCEPT ![r] = rt]
      PROVE  /\ runtimes' \in Seq(Runtime) /\ Len(runtimes') = Len(runtimes)
             /\ DOMAIN runtimes' = DOMAIN runtimes
             /\ \A s \in DOMAIN runtimes : runtimes'[s].todo \in Seq(Held)
  <2>1. runtimes' \in [1 .. Len(runtimes) -> Runtime]
    BY <1>1, <1>2
  <2> QED
    BY <1>1, <1>2, <2>1
<1>3. CASE HandleRecord(r)
  <2> DEFINE f == Head(runtimes[r].todo)
  <2>1. runtimes[r].todo # << >> /\ runtimes' = [runtimes EXCEPT ![r].todo = Tail(@)]
    BY <1>3 DEF HandleRecord, HandleThenCommit
  <2>2. f \in Held /\ f \in Fetch /\ f.tp \in Partition /\ f.offset \in Offset /\ f.offset + 1 \in Offset
    <3>1. f \in Held
      BY <1>1, <2>1
    <3> HIDE DEF f
    <3> QED
      BY <3>1 DEF Held, Sent, Fetch
  <2>3. /\ handled' = [handled EXCEPT ![f.tp] = @ \union {f.offset}]
        /\ committed' = [committed EXCEPT ![f.tp] = f.offset + 1]
    BY <1>3 DEF HandleRecord, HandleThenCommit
  <2> HIDE DEF f
  <2>4. handled' \in [Partition -> SUBSET Offset] /\ committed' \in [Partition -> Offset]
    BY <2>2, <2>3 DEF TypeOK
  <2> DEFINE rt == [runtimes[r] EXCEPT !.todo = Tail(@)]
  <2>5. Tail(runtimes[r].todo) \in Seq(Held) /\ Tail(runtimes[r].todo) \in Seq(Fetch)
    <3>1. runtimes[r].todo \in Seq(Fetch)
      BY <1>1 DEF Runtime
    <3> QED
      BY <1>1, <2>1, <3>1
  <2>6. rt \in Runtime /\ rt.todo \in Seq(Held)
    BY <1>1, <2>5 DEF Runtime
  <2>7. runtimes' = [runtimes EXCEPT ![r] = rt]
    BY <1>1, <2>1
  <2> HIDE DEF rt
  <2>8. /\ runtimes' \in Seq(Runtime) /\ Len(runtimes') = Len(runtimes)
        /\ DOMAIN runtimes' = DOMAIN runtimes
        /\ \A s \in DOMAIN runtimes : runtimes'[s].todo \in Seq(Held)
    BY <1>2, <2>6, <2>7
  <2>9. UNCHANGED <<ctx, loopVars, fetcherVars, clientVars>>
    BY <1>3 DEF HandleRecord, HandleThenCommit
  <2> QED
    BY <2>4, <2>8, <2>9 DEF TypeOK, FetchesTyped, RoomLeft
<1>4. CASE RuntimeReturns(r)
  <2> DEFINE rt == [runtimes[r] EXCEPT !.state = "returned", !.todo = << >>, !.next = 0]
  <2>1. rt \in Runtime /\ rt.todo \in Seq(Held)
    <3>1. << >> \in Seq(Held) /\ << >> \in Seq(Fetch) /\ 0 \in Offset
      OBVIOUS
    <3> QED
      BY <1>1, <3>1 DEF Runtime
  <2>2. runtimes' = [runtimes EXCEPT ![r] = rt]
    BY <1>1, <1>4 DEF RuntimeReturns, ReturnIf
  <2> HIDE DEF rt
  <2>3. /\ runtimes' \in Seq(Runtime) /\ Len(runtimes') = Len(runtimes)
        /\ DOMAIN runtimes' = DOMAIN runtimes
        /\ \A s \in DOMAIN runtimes : runtimes'[s].todo \in Seq(Held)
    BY <1>2, <2>1, <2>2
  <2>4. UNCHANGED <<ctx, loopVars, fetcherVars, clientVars, brokerVars>>
    BY <1>4 DEF RuntimeReturns, ReturnIf
  <2> QED
    BY <2>3, <2>4 DEF TypeOK, FetchesTyped, RoomLeft, brokerVars
<1> QED
  BY <1>3, <1>4 DEF RuntimeNext

(* Every step keeps the types. *)
LEMMA NextTypes == Types /\ [Next]_vars => Types'
<1> SUFFICES ASSUME Types, [Next]_vars PROVE Types'
  OBVIOUS
<1>1. CASE UNCHANGED vars
  BY <1>1 DEF vars, loopVars, fetcherVars, clientVars, brokerVars,
              Types, TypeOK, FetchesTyped, RoomLeft
<1>2. Terminated => UNCHANGED vars
  BY DEF Terminated
<1> QED
  BY <1>1, <1>2, FetcherTypes, ClientTypes, LoopTypes, RuntimeTypes
  DEF Next, ClientNext, FetcherNext

-----------------------------------------------------------------------------
(* The steps that touch neither the table nor what it depends on. *)
LEMMA SameTables ==
  ASSUME Tables, UNCHANGED <<ctx, table, callback, owned, client>>,
         DOMAIN runtimes' = DOMAIN runtimes,
         \A r \in DOMAIN runtimes :
            /\ runtimes'[r].tp = runtimes[r].tp /\ runtimes'[r].open = runtimes[r].open
            /\ runtimes[r].state = "returned" => runtimes'[r].state = "returned",
         loop' \in {"tick", "deliver"} => loop \in {"tick", "deliver"},
         loop' \in {"wait", "done"} /\ loop' # loop => ctx = "cancelled",
         loop' = "done" /\ loop # "done" => \A r \in DOMAIN runtimes : runtimes[r].state = "returned",
         loop = "done" => loop' = "done",
         loop' \in {"tick", "deliver", "wait", "done"},
         fetcher' = "done" => fetcher = "done" \/ ctx = "cancelled",
         fetcher = "done" => fetcher' = "done"
  PROVE  Tables'
<1>1. TableLeads'
  BY DEF Tables, TableLeads
<1>2. EndsInOrder'
  BY DEF Tables, EndsInOrder
<1>3. TableIsComplete'
  <2> SUFFICES ASSUME ctx = "live" PROVE TableIsComplete'
    BY DEF TableIsComplete
  <2>1. \A tp \in Partition : Listed(tp)' <=> Listed(tp)
    BY DEF Listed
  <2>2. \A r \in DOMAIN runtimes : runtimes'[r].open => table'[runtimes'[r].tp] = r
    BY DEF Tables, TableIsComplete
  <2> QED
    BY <2>1, <2>2 DEF Tables, TableIsComplete
<1> QED
  BY <1>1, <1>2, <1>3 DEF Tables

(* The fetcher's steps, and those of the loop and the runtimes that leave  *)
(* the channels alone.                                                     *)
LEMMA OtherTables ==
  ASSUME Types, Tables,
         \/ FetcherNext
         \/ \E tps \in (SUBSET Partition) \ {{}} : PollReturns(tps)
         \/ SendTopic \/ Drop \/ HandOff \/ WaitReturns
         \/ \E r \in RuntimeId : RuntimeNext(r)
  PROVE  Tables'
<1> USE DEF loopVars, fetcherVars, clientVars, brokerVars
<1>1. /\ runtimes \in Seq(Runtime)
      /\ \A r \in DOMAIN runtimes : runtimes[r] \in Runtime
      /\ loop \in {"tick", "deliver", "wait", "done"}
  BY DEF Types, TypeOK
<1>2. CASE FetcherNext \/ \E tps \in (SUBSET Partition) \ {{}} : PollReturns(tps)
  <2>1. /\ UNCHANGED <<ctx, table, callback, owned, client, runtimes, loop>>
        /\ fetcher' = "done" => fetcher = "done" \/ ctx = "cancelled"
        /\ fetcher # "done"
    BY <1>2 DEF FetcherNext, CheckContext, PollCancelled, SendCancelled, PollReturns
  <2> QED
    BY <1>1, <2>1, SameTables
<1>3. CASE SendTopic \/ Drop
  <2>1. /\ UNCHANGED <<ctx, table, callback, owned, client, runtimes>>
        /\ loop \in {"tick", "deliver"} /\ loop' \in {"tick", "deliver"}
        /\ fetcher' = "done" => fetcher = "done"
        /\ fetcher = "done" => fetcher' = "done"
    BY <1>3 DEF SendTopic, Drop, NextPartition
  <2> QED
    BY <1>1, <2>1, SameTables
<1>4. CASE HandOff
  <2>1. /\ UNCHANGED <<ctx, table, callback, owned, client, fetcher>>
        /\ loop = "deliver" /\ loop' \in {"tick", "deliver"}
    BY <1>4 DEF HandOff, NextPartition
  <2>2. /\ DOMAIN runtimes' = DOMAIN runtimes
        /\ \A r \in DOMAIN runtimes :
              /\ runtimes'[r].tp = runtimes[r].tp /\ runtimes'[r].open = runtimes[r].open
              /\ runtimes'[r].state = runtimes[r].state
    <3> DEFINE f == Head(current)
               s == table[f.tp]
               next == IF f.rt = s THEN f.offset + 1 ELSE runtimes[s].next
               todo == Append(runtimes[s].todo, f)
    <3>1. runtimes' = [runtimes EXCEPT ![s] = [runtimes[s] EXCEPT !.todo = todo, !.next = next]]
      BY <1>4 DEF HandOff
    <3> HIDE DEF f, s, next, todo
    <3> QED
      BY <1>1, <3>1 DEF Runtime
  <2> QED
    BY <1>1, <2>1, <2>2, SameTables
<1>5. CASE WaitReturns
  <2>1. /\ UNCHANGED <<ctx, table, callback, owned, client, runtimes, fetcher>>
        /\ loop = "wait" /\ loop' = "done"
        /\ \A r \in DOMAIN runtimes : runtimes[r].state = "returned"
    BY <1>5 DEF WaitReturns
  <2>2. ctx = "cancelled"
    BY <2>1 DEF Tables, EndsInOrder, Types, TypeOK
  <2> QED
    BY <1>1, <2>1, <2>2, SameTables
<1>6. ASSUME NEW r \in RuntimeId, RuntimeNext(r) PROVE Tables'
  <2>1. UNCHANGED <<ctx, table, callback, owned, client, fetcher, loop>>
    BY <1>6 DEF RuntimeNext, HandleRecord, HandleThenCommit, RuntimeReturns, ReturnIf
  <2>2. /\ DOMAIN runtimes' = DOMAIN runtimes
        /\ \A s \in DOMAIN runtimes :
              /\ runtimes'[s].tp = runtimes[s].tp /\ runtimes'[s].open = runtimes[s].open
              /\ runtimes[s].state = "returned" => runtimes'[s].state = "returned"
    <3>1. CASE HandleRecord(r)
      <4> DEFINE todo == Tail(runtimes[r].todo)
      <4>1. runtimes' = [runtimes EXCEPT ![r] = [runtimes[r] EXCEPT !.todo = todo]]
        BY <3>1 DEF HandleRecord, HandleThenCommit
      <4> HIDE DEF todo
      <4> QED
        BY <1>1, <4>1 DEF Runtime
    <3>2. CASE RuntimeReturns(r)
      <4>1. runtimes' = [runtimes EXCEPT ![r] =
                           [runtimes[r] EXCEPT !.state = "returned", !.todo = << >>, !.next = 0]]
        BY <3>2 DEF RuntimeReturns, ReturnIf
      <4> QED
        BY <1>1, <4>1 DEF Runtime
    <3> QED
      BY <1>6, <3>1, <3>2 DEF RuntimeNext
  <2> QED
    BY <1>1, <2>1, <2>2, SameTables
<1> QED
  BY <1>2, <1>3, <1>4, <1>5, <1>6

(* The client's steps: a rebalance takes partitions that are owned, or     *)
(* adds such as are not.                                                   *)
LEMMA ClientTables ==
  ASSUME Types, Tables,
         \/ Cancel \/ ClientNext
         \/ \E tps \in (SUBSET Partition) \ {{}} : Assign(tps) \/ Revoke(tps)
  PROVE  Tables'
<1> USE DEF Tables, TableLeads, TableIsComplete, EndsInOrder, Listed,
            loopVars, fetcherVars, clientVars, brokerVars
<1>1. CASE Cancel
  BY <1>1 DEF Cancel
<1>2. CASE CallbackCancelled
  BY <1>2 DEF CallbackCancelled
<1>3. CASE ClientClosed
  BY <1>3 DEF ClientClosed
<1>4. CASE CloseClient
  <2>1. ctx # "live"
    BY <1>4 DEF CloseClient
  <2> QED
    BY <1>4, <2>1 DEF CloseClient
<1>5. CASE CallbackReturns
  <2>1. /\ callback.todo = {} /\ callback' = [kind |-> "none", all |-> {}, todo |-> {}]
        /\ owned' = IF callback.kind = "assigned" THEN owned \union callback.all ELSE owned
        /\ UNCHANGED <<ctx, loop, table, fetcher, client>>
    BY <1>5 DEF CallbackReturns, Idle
  <2>2. /\ DOMAIN runtimes' = DOMAIN runtimes
        /\ \A r \in DOMAIN runtimes :
              /\ runtimes'[r].tp = runtimes[r].tp /\ runtimes'[r].open = runtimes[r].open
              /\ runtimes'[r].state = runtimes[r].state
    <3>1. \A r \in DOMAIN runtimes : runtimes[r] \in Runtime
      BY DEF Types, TypeOK
    <3>2. CASE callback.kind # "assigned"
      BY <1>5, <3>2 DEF CallbackReturns
    <3>3. CASE callback.kind = "assigned"
      <4>1. runtimes' = [r \in DOMAIN runtimes |->
                           IF \E tp \in callback.all : table[tp] = r
                           THEN [runtimes[r] EXCEPT !.next = committed[runtimes[r].tp]]
                           ELSE runtimes[r]]
        BY <1>5, <3>3 DEF CallbackReturns
      <4> QED
        BY <3>1, <4>1 DEF Runtime
    <3> QED
      BY <3>2, <3>3
  <2>3. TableLeads' /\ EndsInOrder'
    BY <2>1, <2>2
  <2>4. TableIsComplete'
    <3> SUFFICES ASSUME ctx = "live" PROVE TableIsComplete'
      BY <2>1
    <3>1. \A tp \in Partition : Listed(tp)' <=> Listed(tp)
      BY <2>1
    <3> QED
      BY <2>1, <2>2, <3>1
  <2> QED
    BY <2>3, <2>4
<1>6. ASSUME NEW tps \in (SUBSET Partition) \ {{}}, Assign(tps) PROVE Tables'
  <2>1. /\ callback = [kind |-> "none", all |-> {}, todo |-> {}]
        /\ callback' = [kind |-> "assigned", all |-> tps, todo |-> tps]
        /\ tps \subseteq Partition \ owned
        /\ UNCHANGED <<ctx, loop, table, fetcher, client, runtimes, owned>>
    BY <1>6 DEF Assign, CallBack, Idle
  <2> QED
    BY <2>1
<1>7. ASSUME NEW tps \in (SUBSET Partition) \ {{}}, Revoke(tps) PROVE Tables'
  <2>1. /\ callback = [kind |-> "none", all |-> {}, todo |-> {}]
        /\ callback' = [kind |-> "gone", all |-> tps, todo |-> tps]
        /\ tps \subseteq owned /\ owned' = owned \ tps
        /\ UNCHANGED <<ctx, loop, table, fetcher, client, runtimes>>
    BY <1>7 DEF Revoke, GiveUp, CallBack, Idle
  <2> QED
    BY <2>1
<1> QED
  BY <1>1, <1>2, <1>3, <1>4, <1>5, <1>6, <1>7 DEF ClientNext

(* The loop's steps that open and close channels. *)
LEMMA ChannelTables ==
  ASSUME Types, Tables, CallbackNext \/ Shutdown
  PROVE  Tables'
<1> USE DEF Tables, TableLeads, TableIsComplete, EndsInOrder, Listed,
            loopVars, fetcherVars, clientVars, brokerVars
<1>1. /\ runtimes \in Seq(Runtime) /\ Len(runtimes) \in Nat
      /\ DOMAIN runtimes = 1 .. Len(runtimes)
      /\ \A r \in DOMAIN runtimes : runtimes[r] \in Runtime
      /\ table \in [Partition -> RuntimeId \union {None}]
      /\ callback \in [kind : {"none", "assigned", "gone"},
                       all : SUBSET Partition, todo : SUBSET Partition]
      /\ callback.todo \subseteq callback.all
  BY DEF Types, TypeOK, RoomLeft
<1>2. ASSUME NEW tp \in Partition, CallbackSent(tp)
      PROVE  /\ loop = "tick" /\ tp \in callback.todo
             /\ callback'.kind = callback.kind /\ callback'.all = callback.all
             /\ callback'.todo = callback.todo \ {tp}
             /\ UNCHANGED <<ctx, loop, fetcher, owned, client>>
  BY <1>1, <1>2 DEF CallbackSent
<1>3. ASSUME NEW tp \in Partition, HandleAssigned(tp) PROVE Tables'
  <2> DEFINE n == Len(runtimes) + 1
  <2>1. CallbackSent(tp) /\ callback.kind = "assigned"
    BY <1>3 DEF HandleAssigned
  <2>2. /\ n \notin DOMAIN runtimes /\ n # None
        /\ DOMAIN runtimes' = DOMAIN runtimes \union {n}
        /\ \A r \in DOMAIN runtimes : runtimes'[r] = runtimes[r]
        /\ runtimes'[n].tp = tp /\ runtimes'[n].open /\ runtimes'[n].state = "running"
    BY <1>1, <1>3 DEF HandleAssigned, NewRuntime
  <2>3. table' = [table EXCEPT ![tp] = n]
    BY <1>3 DEF HandleAssigned
  <2> HIDE DEF n
  <2>4. TableLeads' /\ EndsInOrder'
    BY <1>1, <1>2, <2>1, <2>2, <2>3
  <2>5. TableIsComplete'
    <3> SUFFICES ASSUME ctx = "live" PROVE TableIsComplete'
      BY <1>2, <2>1
    <3>1. table[tp] = None
      <4>1. callback.kind = "assigned" /\ tp \in callback.todo
        BY <1>2, <2>1
      <4>2. tp \in callback.all /\ callback.all \intersect owned = {}
        BY <1>1, <4>1
      <4>3. ~Listed(tp)
        BY <4>1, <4>2
      <4> QED
        BY <4>3
    <3>2. \A r \in DOMAIN runtimes' : runtimes'[r].open => table'[runtimes'[r].tp] = r
      <4>1. \A r \in DOMAIN runtimes : runtimes[r].open => runtimes[r].tp # tp /\ runtimes[r].tp \in Partition
        BY <1>1, <3>1, <2>2 DEF Runtime
      <4> QED
        BY <1>1, <2>2, <2>3, <4>1
    <3>3. \A p \in Partition : table'[p] # None <=> Listed(p)'
      BY <1>1, <1>2, <2>1, <2>2, <2>3
    <3> QED
      BY <1>2, <2>1, <3>2, <3>3
  <2> QED
    BY <2>4, <2>5
<1>4. ASSUME NEW tp \in Partition, HandleGone(tp) PROVE Tables'
  <2> DEFINE r == table[tp]
  <2>1. CallbackSent(tp) /\ callback.kind = "gone"
    BY <1>4 DEF HandleGone
  <2>2. CASE r = None
    <3>1. UNCHANGED <<table, runtimes>>
      BY <1>4, <2>2 DEF HandleGone
    <3>2. ctx # "live"
      <4>1. callback.kind = "gone" /\ tp \in callback.todo
        BY <1>2, <2>1
      <4>2. Listed(tp) /\ table[tp] = None
        BY <2>2, <4>1
      <4> QED
        BY <4>2
    <3> QED
      BY <1>2, <2>1, <3>1, <3>2
  <2>3. CASE r # None
    <3>1. /\ runtimes' = [runtimes EXCEPT ![r] = [runtimes[r] EXCEPT !.open = FALSE]]
          /\ table' = [table EXCEPT ![tp] = None]
          /\ r \in DOMAIN runtimes /\ runtimes[r].tp = tp
      BY <1>4, <2>3 DEF HandleGone, Close
    <3> HIDE DEF r
    <3>2. /\ DOMAIN runtimes' = DOMAIN runtimes
          /\ \A s \in DOMAIN runtimes :
                /\ runtimes'[s].tp = runtimes[s].tp /\ runtimes'[s].state = runtimes[s].state
                /\ runtimes'[s].open <=> runtimes[s].open /\ s # r
      <4>1. DOMAIN runtimes' = DOMAIN runtimes /\ runtimes[r] \in Runtime
        BY <1>1, <3>1
      <4>2. /\ runtimes'[r] = [runtimes[r] EXCEPT !.open = FALSE]
            /\ \A s \in DOMAIN runtimes \ {r} : runtimes'[s] = runtimes[s]
        BY <3>1
      <4>3. /\ runtimes'[r].tp = runtimes[r].tp /\ runtimes'[r].state = runtimes[r].state
            /\ runtimes'[r].open = FALSE
        BY <4>1, <4>2 DEF Runtime
      <4>4. \A s \in DOMAIN runtimes \ {r} :
              /\ runtimes'[s].tp = runtimes[s].tp /\ runtimes'[s].state = runtimes[s].state
              /\ runtimes'[s].open = runtimes[s].open
        BY <4>2
      <4> QED
        BY <4>1, <4>3, <4>4
    <3>3. TableLeads' /\ EndsInOrder'
      BY <1>1, <1>2, <2>1, <3>1, <3>2
    <3>4. TableIsComplete'
      <4> SUFFICES ASSUME ctx = "live" PROVE TableIsComplete'
        BY <1>2, <2>1
      <4>1. \A s \in DOMAIN runtimes' : runtimes'[s].open => table'[runtimes'[s].tp] = s
        <5>1. table[tp] = r
          BY DEF r
        <5>2. \A s \in DOMAIN runtimes : runtimes[s].open /\ s # r => runtimes[s].tp # tp /\ runtimes[s].tp \in Partition
          <6> SUFFICES ASSUME NEW s \in DOMAIN runtimes, runtimes[s].open, s # r
                       PROVE  runtimes[s].tp # tp /\ runtimes[s].tp \in Partition
            OBVIOUS
          <6>1. table[runtimes[s].tp] = s
            BY <1>2, <2>1
          <6>2. runtimes[s] \in Runtime
            BY <1>1
          <6> QED
            BY <5>1, <6>1, <6>2 DEF Runtime
        <5> QED
          BY <1>1, <3>1, <3>2, <5>2
      <4>2. \A p \in Partition : table'[p] # None <=> Listed(p)'
        BY <1>1, <1>2, <2>1, <3>1
      <4> QED
        BY <1>2, <2>1, <4>1, <4>2
    <3> QED
      BY <3>3, <3>4
  <2> QED
    BY <2>2, <2>3
<1>5. CASE Shutdown
  <2>1. /\ ctx = "cancelled" /\ loop' = "wait" /\ loop \in {"tick", "deliver"}
        /\ UNCHANGED <<ctx, table, fetcher, callback, owned, client>>
        /\ DOMAIN runtimes' = DOMAIN runtimes
    BY <1>5 DEF Shutdown, ShutdownFrom
  <2>2. \A r \in DOMAIN runtimes : runtimes'[r].tp = runtimes[r].tp
    BY <1>1, <1>5 DEF Shutdown, ShutdownFrom, Runtime
  <2> QED
    BY <2>1, <2>2
<1> QED
  BY <1>3, <1>4, <1>5 DEF CallbackNext

-----------------------------------------------------------------------------
(* IInv holds in every reachable state: the table, the channels and the    *)
(* callback in progress account for every partition.                       *)
THEOREM InductiveInvariant == Spec => []IInv
<1>1. IInv /\ [Next]_vars => IInv'
  <2> SUFFICES ASSUME Types, Tables, [Next]_vars PROVE IInv'
    BY DEF IInv
  <2>1. Types'
    BY NextTypes
  <2>2. ASSUME UNCHANGED vars PROVE Tables'
    BY <2>2 DEF vars, loopVars, fetcherVars, clientVars, brokerVars,
                Tables, TableLeads, TableIsComplete, EndsInOrder, Listed
  <2>3. ASSUME Next PROVE Tables'
    BY <2>2, <2>3, OtherTables, ClientTables, ChannelTables DEF Next, LoopNext, Terminated
  <2> QED
    BY <2>1, <2>2, <2>3 DEF IInv
<1> QED
  BY <1>1, InitIInv, PTL DEF Spec

(* Every variable keeps its type. *)
THEOREM TypeCorrect == Spec => []TypeOK
<1>1. IInv => TypeOK
  BY DEF IInv, Types
<1> QED
  BY <1>1, InductiveInvariant, PTL

(* Nothing is sent on a closed channel, none is closed twice, and none is  *)
(* forgotten, for any number of partitions and rebalances.                 *)
THEOREM ChannelsDisciplined == Spec => []ChannelDiscipline
<1>1. IInv => ChannelDiscipline
  BY DEF IInv, Tables, TableLeads, TableIsComplete, ChannelDiscipline
<1> QED
  BY <1>1, InductiveInvariant, PTL

(* A partition the client fetches has a channel. *)
THEOREM OwnedAreServed == Spec => []DropsOnlyUnowned
<1>1. IInv => DropsOnlyUnowned
  BY DEF IInv, Types, TypeOK, Tables, TableIsComplete, Listed, DropsOnlyUnowned
<1> QED
  BY <1>1, InductiveInvariant, PTL

(* The client is closed when no runtime is left to commit through it. *)
THEOREM ClientClosedLast == Spec => []ClosedLast
<1>1. IInv => ClosedLast
  BY DEF IInv, Tables, EndsInOrder, ClosedLast
<1> QED
  BY <1>1, InductiveInvariant, PTL
=============================================================================
