------------------------- MODULE EventLoopOrderProofs -------------------------
(***************************************************************************)
(* Proof that the event loop hands a runtime what was polled for it in     *)
(* order and without a gap (SessionInOrder of EventLoop), for any          *)
(* partitions, records, depth and number of assignments.  A poll lists a   *)
(* partition once and comes when the fetcher holds nothing, so at most two *)
(* fetches of a partition are on their way: one the loop has in hand, one  *)
(* the fetcher has yet to send.                                            *)
(***************************************************************************)
EXTENDS EventLoopProofs

(* What the loop holds, and what the fetcher holds. *)
InHand == {current[i] : i \in DOMAIN current}
Polled == UNION {{topics[t][i] : i \in DOMAIN topics[t]} : t \in DOMAIN topics}

(* The loop and the fetcher hold a partition once each. *)
HeldOnce ==
    /\ loop # "deliver" => current = << >>
    /\ fetcher # "send" => topics = << >>
    /\ \A i, j \in DOMAIN current : current[i].tp = current[j].tp => i = j
    /\ \A t, u \in DOMAIN topics : \A i \in DOMAIN topics[t], j \in DOMAIN topics[u] :
           topics[t][i].tp = topics[u][j].tp => t = u /\ i = j

(* How many fetches of a set are for a runtime, when it is one at most. *)
Holds(fetches, r) == IF \E f \in fetches : f.rt = r THEN 1 ELSE 0

(* While nothing is cancelled, what is held for an open runtime is the     *)
(* next it receives, the loop's before the fetcher's; the client's cursor  *)
(* is past both; and nothing is held for a runtime whose assignment the    *)
(* client has yet to begin to fetch.                                       *)
FetchesLead ==
    \A f \in InHand \union Polled :
        f.tp \in Partition /\ f.rt \in DOMAIN runtimes /\ runtimes[f.rt].tp = f.tp
HandInOrder ==
    \A f \in InHand : runtimes[f.rt].open => f.offset = runtimes[f.rt].next
PolledInOrder ==
    \A f \in Polled : runtimes[f.rt].open => f.offset = runtimes[f.rt].next + Holds(InHand, f.rt)
CursorsAhead ==
    \A tp \in owned :
        position[tp] = runtimes[table[tp]].next + Holds(InHand, table[tp]) + Holds(Polled, table[tp])
NothingEarly ==
    callback.kind = "assigned" =>
        \A tp \in callback.all \ callback.todo : \A f \in InHand \union Polled : f.rt # table[tp]
Continues == FetchesLead /\ HandInOrder /\ PolledInOrder /\ CursorsAhead /\ NothingEarly

Order == HeldOnce /\ (ctx = "live" => Continues)

USE PartitionAssumption, BoundAssumption DEF Offset, RuntimeId, None

(* Nothing is held. *)
LEMMA InitOrder == Init => Order
<1> SUFFICES ASSUME Init PROVE Order
  OBVIOUS
<1>1. HeldOnce
  BY DEF Init, HeldOnce
<1>2. InHand = {} /\ Polled = {}
  BY DEF Init, InHand, Polled
<1>3. Continues
  BY <1>2 DEF Init, Idle, Continues, FetchesLead, HandInOrder, PolledInOrder, CursorsAhead, NothingEarly
<1> QED
  BY <1>1, <1>3 DEF Order

-----------------------------------------------------------------------------
(* However a poll lists the fetches of different partitions, it lists all  *)
(* of them and each once.                                                  *)
LEMMA ListedOnce ==
  ASSUME NEW fetches, IsFiniteSet(fetches),
         \A f, g \in fetches : f.tp = g.tp => f = g,
         NEW l \in Listings(fetches)
  PROVE  /\ UNION {{l[t][i] : i \in DOMAIN l[t]} : t \in DOMAIN l} = fetches
         /\ \A t, u \in DOMAIN l : \A i \in DOMAIN l[t], j \in DOMAIN l[u] :
               l[t][i].tp = l[u][j].tp => t = u /\ i = j
<1> DEFINE n == Cardinality(fetches)
<1>1. n \in Nat
  BY FS_CardinalityType
<1>2. PICK s \in [1 .. n -> fetches] :
        /\ \A i, j \in DOMAIN s : s[i] = s[j] => i = j
        /\ l = <<s>> \/ l = [i \in DOMAIN s |-> <<s[i]>>]
  BY DEF Listings
<1>3. \A f \in fetches : \E i \in 1 .. n : s[i] = f
  <2>1. IsFiniteSet(1 .. n) /\ Cardinality(1 .. n) = n
    BY <1>1, FS_Interval
  <2>2. s \in Injection(1 .. n, fetches)
    BY <1>2 DEF Injection, IsInjective
  <2>3. s \in Surjection(1 .. n, fetches)
    BY <2>1, <2>2, FS_Injection
  <2> QED
    BY <2>3 DEF Surjection
<1> HIDE DEF n
<1>4. CASE l = <<s>>
  <2>1. DOMAIN l = {1} /\ l[1] = s
    BY <1>4
  <2>2. {s[i] : i \in DOMAIN s} = fetches
    BY <1>2, <1>3
  <2>3. UNION {{l[t][i] : i \in DOMAIN l[t]} : t \in DOMAIN l} = {s[i] : i \in DOMAIN s}
    <3>1. {{l[t][i] : i \in DOMAIN l[t]} : t \in DOMAIN l} = {{l[t][i] : i \in DOMAIN l[t]} : t \in {1}}
      BY <2>1
    <3>2. @ = {{l[1][i] : i \in DOMAIN l[1]}}
      OBVIOUS
    <3>3. @ = {{s[i] : i \in DOMAIN s}}
      BY <2>1
    <3> QED
      BY <3>1, <3>2, <3>3
  <2>4. \A i, j \in DOMAIN s : s[i].tp = s[j].tp => i = j
    BY <1>2
  <2> QED
    BY <2>1, <2>2, <2>3, <2>4
<1>5. CASE l = [i \in DOMAIN s |-> <<s[i]>>]
  <2>1. DOMAIN l = 1 .. n /\ \A t \in 1 .. n : DOMAIN l[t] = {1} /\ l[t][1] = s[t]
    BY <1>2, <1>5
  <2>2. UNION {{l[t][i] : i \in DOMAIN l[t]} : t \in DOMAIN l} = {s[t] : t \in 1 .. n}
    BY <2>1
  <2>3. {s[t] : t \in 1 .. n} = fetches
    BY <1>2, <1>3
  <2>4. \A i, j \in 1 .. n : s[i].tp = s[j].tp => i = j
    BY <1>2
  <2> QED
    BY <2>1, <2>2, <2>3, <2>4
<1> QED
  BY <1>2, <1>4, <1>5

(* What a poll adds to what is held. *)
LEMMA PollHolds ==
  ASSUME Types, HeldOnce, NEW tps \in (SUBSET Partition) \ {{}}, PollReturns(tps)
  PROVE  /\ HeldOnce'
         /\ Polled = {} /\ InHand' = InHand
         /\ Polled' = {[tp |-> tp, rt |-> table[tp], offset |-> position[tp]] : tp \in tps}
<1> DEFINE fetches == {[tp |-> tp, rt |-> table[tp], offset |-> position[tp]] : tp \in tps}
<1>1. /\ fetcher = "poll" /\ fetcher' = "send"
      /\ tps \subseteq {tp \in owned : position[tp] < LogEnd}
      /\ topics' \in Listings(fetches)
      /\ UNCHANGED <<loop, current>>
  BY DEF PollReturns, loopVars
<1>2. IsFiniteSet(fetches)
  BY <1>1, PolledType
<1>3. \A f, g \in fetches : f.tp = g.tp => f = g
  OBVIOUS
<1> HIDE DEF fetches
<1>4. /\ Polled' = fetches
      /\ \A t, u \in DOMAIN topics' : \A i \in DOMAIN topics'[t], j \in DOMAIN topics'[u] :
            topics'[t][i].tp = topics'[u][j].tp => t = u /\ i = j
  BY <1>1, <1>2, <1>3, ListedOnce DEF Polled
<1>5. HeldOnce'
  BY <1>1, <1>4 DEF HeldOnce
<1>6. Polled = {} /\ InHand' = InHand
  BY <1>1 DEF HeldOnce, Polled, InHand
<1> QED
  BY <1>4, <1>5, <1>6 DEF fetches

(* The topic that is sent goes from the fetcher to the loop. *)
LEMMA SendMoves ==
  ASSUME Types, HeldOnce, SendTopic
  PROVE  /\ HeldOnce'
         /\ InHand = {} /\ Polled = InHand' \union Polled'
         /\ \A f \in InHand', g \in Polled' : f.tp # g.tp
<1>1. /\ loop = "tick" /\ loop' = "deliver"
      /\ topics \in Seq(Seq(Sent) \ {<< >>}) /\ topics # << >>
      /\ current' = Head(topics) /\ topics' = Tail(topics)
      /\ fetcher' # "send" => topics' = << >>
  BY DEF SendTopic, Types, FetchesTyped
<1>2. /\ DOMAIN topics = 1 .. Len(topics) /\ Len(topics) \in Nat \ {0}
      /\ current' = topics[1]
      /\ DOMAIN topics' = 1 .. (Len(topics) - 1)
      /\ \A t \in DOMAIN topics' : t + 1 \in DOMAIN topics /\ topics'[t] = topics[t + 1]
  BY <1>1
<1>3. \A i, j \in DOMAIN current' : current'[i].tp = current'[j].tp => i = j
  BY <1>2 DEF HeldOnce
<1>4. ASSUME NEW t \in DOMAIN topics', NEW u \in DOMAIN topics',
             NEW i \in DOMAIN topics'[t], NEW j \in DOMAIN topics'[u],
             topics'[t][i].tp = topics'[u][j].tp
      PROVE  t = u /\ i = j
  <2>1. /\ t + 1 \in DOMAIN topics /\ topics'[t] = topics[t + 1]
        /\ u + 1 \in DOMAIN topics /\ topics'[u] = topics[u + 1]
    BY <1>2
  <2>2. t + 1 = u + 1 /\ i = j
    BY <1>4, <2>1 DEF HeldOnce
  <2> QED
    BY <1>2, <2>2
<1>5. HeldOnce'
  BY <1>1, <1>3, <1>4 DEF HeldOnce
<1>6. InHand = {}
  BY <1>1 DEF HeldOnce, InHand
<1>7. ASSUME NEW f \in InHand', NEW g \in Polled' PROVE f.tp # g.tp
  <2>1. PICK i \in DOMAIN topics[1] : f = topics[1][i]
    BY <1>2 DEF InHand
  <2>2. PICK t \in DOMAIN topics' : \E j \in DOMAIN topics'[t] : g = topics'[t][j]
    BY DEF Polled
  <2>3. PICK j \in DOMAIN topics[t + 1] : g = topics[t + 1][j]
    BY <1>2, <2>2
  <2>4. 1 \in DOMAIN topics /\ t + 1 \in DOMAIN topics /\ t + 1 # 1
    BY <1>2
  <2> QED
    BY <2>1, <2>3, <2>4 DEF HeldOnce
<1>8. Polled = InHand' \union Polled'
  <2>1. ASSUME NEW f \in Polled PROVE f \in InHand' \union Polled'
    <3>1. PICK t \in DOMAIN topics : \E i \in DOMAIN topics[t] : f = topics[t][i]
      BY DEF Polled
    <3>2. CASE t = 1
      BY <1>2, <3>1, <3>2 DEF InHand
    <3>3. CASE t # 1
      <4>1. t - 1 \in DOMAIN topics' /\ topics'[t - 1] = topics[t]
        BY <1>2, <3>3
      <4> QED
        BY <3>1, <4>1 DEF Polled
    <3> QED
      BY <3>2, <3>3
  <2>2. InHand' \subseteq Polled
    <3>1. 1 \in DOMAIN topics
      BY <1>2
    <3> QED
      BY <1>2, <3>1 DEF InHand, Polled
  <2>3. Polled' \subseteq Polled
    <3> SUFFICES ASSUME NEW f \in Polled' PROVE f \in Polled
      OBVIOUS
    <3>1. PICK t \in DOMAIN topics' : \E i \in DOMAIN topics'[t] : f = topics'[t][i]
      BY DEF Polled
    <3>2. t + 1 \in DOMAIN topics /\ topics'[t] = topics[t + 1]
      BY <1>2
    <3> QED
      BY <3>1, <3>2 DEF Polled
  <2> QED
    BY <2>1, <2>2, <2>3
<1> QED
  BY <1>5, <1>6, <1>7, <1>8

(* The loop goes on to the next partition. *)
LEMMA HeadLeaves ==
  ASSUME Types, HeldOnce, loop = "deliver", NextPartition, UNCHANGED fetcherVars
  PROVE  /\ HeldOnce'
         /\ Polled' = Polled
         /\ Head(current) \in InHand
         /\ InHand' = InHand \ {Head(current)}
         /\ \A f \in InHand' : f.tp # Head(current).tp
<1>1. /\ current \in Seq(Sent) /\ current # << >>
      /\ current' = Tail(current)
      /\ loop' = IF Tail(current) = << >> THEN "tick" ELSE "deliver"
      /\ UNCHANGED <<topics, fetcher>>
  BY DEF Types, FetchesTyped, NextPartition, fetcherVars
<1>2. /\ DOMAIN current = 1 .. Len(current) /\ Len(current) \in Nat \ {0}
      /\ Head(current) = current[1]
      /\ DOMAIN current' = 1 .. (Len(current) - 1)
      /\ \A i \in DOMAIN current' : i + 1 \in DOMAIN current /\ current'[i] = current[i + 1]
  BY <1>1
<1>3. \A i, j \in DOMAIN current' : current'[i].tp = current'[j].tp => i = j
  <2> SUFFICES ASSUME NEW i \in DOMAIN current', NEW j \in DOMAIN current',
                      current'[i].tp = current'[j].tp
               PROVE  i = j
    OBVIOUS
  <2>1. i + 1 = j + 1
    BY <1>2 DEF HeldOnce
  <2> QED
    BY <1>2, <2>1
<1>4. HeldOnce'
  BY <1>1, <1>3 DEF HeldOnce
<1>5. ASSUME NEW f \in InHand' PROVE f \in InHand /\ f.tp # Head(current).tp
  <2>1. PICK i \in DOMAIN current' : f = current'[i]
    BY DEF InHand
  <2>2. i + 1 \in DOMAIN current /\ f = current[i + 1] /\ 1 \in DOMAIN current /\ i + 1 # 1
    BY <1>2, <2>1
  <2> QED
    BY <1>2, <2>2 DEF HeldOnce, InHand
<1>6. ASSUME NEW f \in InHand, f # Head(current) PROVE f \in InHand'
  <2>1. PICK i \in DOMAIN current : f = current[i]
    BY DEF InHand
  <2>2. i - 1 \in DOMAIN current' /\ current'[i - 1] = f
    <3>1. i # 1
      BY <1>2, <1>6, <2>1
    <3> QED
      BY <1>2, <2>1, <3>1
  <2> QED
    BY <2>2 DEF InHand
<1>7. Head(current) \in InHand /\ Polled' = Polled
  BY <1>1, <1>2 DEF InHand, Polled
<1>8. InHand' = InHand \ {Head(current)}
  BY <1>5, <1>6
<1> QED
  BY <1>4, <1>5, <1>7, <1>8

(* The other steps empty what is held, leave it alone or, after a          *)
(* cancellation, poll an error.                                            *)
LEMMA NextHeldOnce ==
  ASSUME Types, HeldOnce, [Next]_vars
  PROVE  HeldOnce'
<1> USE DEF loopVars, fetcherVars, clientVars, brokerVars
<1>1. ASSUME UNCHANGED <<loop, current, fetcher, topics>> PROVE HeldOnce'
  BY <1>1 DEF HeldOnce
<1>2. UNCHANGED vars => HeldOnce'
  BY <1>1 DEF vars
<1>3. ASSUME Cancel \/ ClientNext \/ CallbackNext \/ Terminated PROVE HeldOnce'
  BY <1>1, <1>2, <1>3 DEF Cancel, ClientNext, CallbackCancelled, CallbackReturns, CloseClient,
     ClientClosed, CallbackNext, HandleAssigned, HandleGone, CallbackSent, Terminated
<1>4. ASSUME NEW tps \in (SUBSET Partition) \ {{}}, Assign(tps) \/ Revoke(tps) PROVE HeldOnce'
  BY <1>1, <1>4 DEF Assign, Revoke, CallBack
<1>5. ASSUME NEW r \in RuntimeId, RuntimeNext(r) PROVE HeldOnce'
  BY <1>1, <1>5 DEF RuntimeNext, HandleRecord, HandleThenCommit, RuntimeReturns, ReturnIf
<1>6. CASE CheckContext
  BY <1>6 DEF CheckContext, HeldOnce
<1>7. CASE SendCancelled
  BY <1>7 DEF SendCancelled, HeldOnce
<1>8. CASE PollCancelled
  <2>1. /\ topics' = << <<[tp |-> NoPartition, rt |-> None, offset |-> 0]>> >>
        /\ fetcher' = "send" /\ UNCHANGED <<loop, current>>
    BY <1>8 DEF PollCancelled
  <2>2. DOMAIN topics' = {1} /\ DOMAIN topics'[1] = {1}
    BY <2>1
  <2> QED
    BY <2>1, <2>2 DEF HeldOnce
<1>9. CASE Shutdown
  BY <1>9 DEF Shutdown, ShutdownFrom, HeldOnce
<1>10. CASE WaitReturns
  BY <1>10 DEF WaitReturns, HeldOnce
<1>11. CASE Drop \/ HandOff
  <2>1. loop = "deliver" /\ NextPartition /\ UNCHANGED fetcherVars
    BY <1>11 DEF Drop, HandOff
  <2> QED
    BY <2>1, HeadLeaves
<1> QED
  BY <1>2, <1>3, <1>4, <1>5, <1>6, <1>7, <1>8, <1>9, <1>10, <1>11, PollHolds, SendMoves
  DEF Next, FetcherNext, LoopNext

-----------------------------------------------------------------------------
(* While nothing is cancelled, the open channels are those of the table. *)
LEMMA LiveTables ==
  ASSUME Types, Tables, ctx = "live"
  PROVE  /\ \A tp \in Partition : table[tp] # None =>
               /\ table[tp] \in DOMAIN runtimes
               /\ runtimes[table[tp]].tp = tp /\ runtimes[table[tp]].open
         /\ \A tp \in owned : tp \in Partition /\ table[tp] # None
         /\ \A r \in DOMAIN runtimes : runtimes[r].open => table[runtimes[r].tp] = r
         /\ \A r \in DOMAIN runtimes :
               r # None /\ runtimes[r].tp \in Partition /\ runtimes[r].next \in Nat
         /\ DOMAIN runtimes = 1 .. Len(runtimes) /\ Len(runtimes) \in Nat
         /\ \A tp \in Partition : position[tp] \in Nat /\ committed[tp] \in Nat
         /\ callback.todo \subseteq callback.all /\ callback.all \intersect owned = {}
         /\ callback.all \subseteq Partition
<1>1. loop \in {"tick", "deliver"}
  BY DEF Tables, EndsInOrder
<1>2. /\ runtimes \in Seq(Runtime)
      /\ DOMAIN runtimes = 1 .. Len(runtimes) /\ Len(runtimes) \in Nat
      /\ \A tp \in Partition : position[tp] \in Nat /\ committed[tp] \in Nat
      /\ callback.all \subseteq Partition
      /\ owned \subseteq Partition
  BY DEF Types, TypeOK
<1>3. \A r \in DOMAIN runtimes :
        r # None /\ runtimes[r].tp \in Partition /\ runtimes[r].next \in Nat
  <2> SUFFICES ASSUME NEW r \in DOMAIN runtimes
               PROVE  r # None /\ runtimes[r].tp \in Partition /\ runtimes[r].next \in Nat
    OBVIOUS
  <2>1. runtimes[r] \in Runtime /\ r # None
    BY <1>2
  <2> QED
    BY <2>1 DEF Runtime
<1>4. \A tp \in owned : tp \in Partition /\ table[tp] # None
  BY <1>2 DEF Tables, TableIsComplete, Listed
<1> QED
  BY <1>1, <1>2, <1>3, <1>4 DEF Tables, TableLeads, TableIsComplete, Types, RoomLeft

(* What is held for a runtime is of one fetch or none. *)
LEMMA HoldsType == \A fetches, r : Holds(fetches, r) \in {0, 1}
BY DEF Holds

(* The steps that leave what is held, the cursors and the open runtimes. *)
LEMMA SameOrder ==
  ASSUME Types, Tables, ctx = "live", Continues,
         UNCHANGED <<current, topics, table, callback, owned, position>>,
         DOMAIN runtimes' = DOMAIN runtimes,
         \A r \in DOMAIN runtimes :
            /\ runtimes'[r].tp = runtimes[r].tp
            /\ runtimes'[r].open => runtimes[r].open
            /\ runtimes[r].open => runtimes'[r].next = runtimes[r].next
  PROVE  Continues'
<1> USE DEF Continues
<1>1. InHand' = InHand /\ Polled' = Polled
  BY DEF InHand, Polled
<1>2. \A tp \in owned : table[tp] \in DOMAIN runtimes /\ runtimes[table[tp]].open
  BY LiveTables
<1>3. FetchesLead'
  BY <1>1 DEF FetchesLead
<1>4. HandInOrder'
  BY <1>1 DEF FetchesLead, HandInOrder
<1>5. PolledInOrder'
  BY <1>1 DEF FetchesLead, PolledInOrder, Holds
<1>6. CursorsAhead'
  BY <1>1, <1>2 DEF CursorsAhead, Holds
<1>7. NothingEarly'
  BY <1>1 DEF NothingEarly
<1> QED
  BY <1>3, <1>4, <1>5, <1>6, <1>7

(* A runtime's own steps: it returns once its channel is closed. *)
LEMMA RuntimeOrder ==
  ASSUME Types, Tables, ctx = "live", Continues, NEW r \in RuntimeId, RuntimeNext(r)
  PROVE  Continues'
<1>1. UNCHANGED <<current, topics, table, callback, owned, position>>
  BY DEF RuntimeNext, HandleRecord, HandleThenCommit, RuntimeReturns, ReturnIf,
         loopVars, fetcherVars, clientVars
<1>2. \A s \in DOMAIN runtimes : runtimes[s] \in Runtime
  BY DEF Types, TypeOK
<1>3. CASE HandleRecord(r)
  <2> DEFINE todo == Tail(runtimes[r].todo)
  <2>1. runtimes' = [runtimes EXCEPT ![r] = [runtimes[r] EXCEPT !.todo = todo]]
    BY <1>3 DEF HandleRecord, HandleThenCommit
  <2> HIDE DEF todo
  <2>2. /\ DOMAIN runtimes' = DOMAIN runtimes
        /\ \A s \in DOMAIN runtimes :
              /\ runtimes'[s].tp = runtimes[s].tp
              /\ runtimes'[s].open = runtimes[s].open
              /\ runtimes'[s].next = runtimes[s].next
    BY <1>2, <2>1 DEF Runtime
  <2> QED
    BY <1>1, <2>2, SameOrder
<1>4. CASE RuntimeReturns(r)
  <2>1. /\ ~runtimes[r].open
        /\ runtimes' = [runtimes EXCEPT ![r] =
                           [runtimes[r] EXCEPT !.state = "returned", !.todo = << >>, !.next = 0]]
    BY <1>4 DEF RuntimeReturns, ReturnIf
  <2>2. /\ DOMAIN runtimes' = DOMAIN runtimes
        /\ \A s \in DOMAIN runtimes :
              /\ runtimes'[s].tp = runtimes[s].tp
              /\ runtimes'[s].open = runtimes[s].open
              /\ s # r => runtimes'[s].next = runtimes[s].next
    BY <1>2, <2>1 DEF Runtime
  <2> QED
    BY <1>1, <2>1, <2>2, SameOrder
<1> QED
  BY <1>3, <1>4 DEF RuntimeNext

(* The fetcher's steps: a poll starts where the client's cursors are. *)
LEMMA FetcherOrder ==
  ASSUME Types, Tables, HeldOnce, ctx = "live", Continues,
         FetcherNext \/ \E tps \in (SUBSET Partition) \ {{}} : PollReturns(tps)
  PROVE  Continues'
<1>1. CASE FetcherNext
  <2>1. CheckContext
    BY <1>1 DEF FetcherNext, PollCancelled, SendCancelled
  <2> QED
    BY <2>1, SameOrder DEF CheckContext, loopVars, clientVars, brokerVars
<1>2. ASSUME NEW tps \in (SUBSET Partition) \ {{}}, PollReturns(tps) PROVE Continues'
  <2>1. /\ UNCHANGED <<runtimes, table, callback, owned>>
        /\ tps \subseteq owned
        /\ position' = [tp \in Partition |-> position[tp] + (IF tp \in tps THEN 1 ELSE 0)]
    BY <1>2 DEF PollReturns, loopVars
  <2>2. /\ Polled = {} /\ InHand' = InHand
        /\ Polled' = {[tp |-> tp, rt |-> table[tp], offset |-> position[tp]] : tp \in tps}
    BY <1>2, PollHolds
  <2>3. /\ \A tp \in owned : /\ tp \in Partition /\ position[tp] \in Nat
                             /\ table[tp] \in DOMAIN runtimes
                             /\ runtimes[table[tp]].tp = tp /\ runtimes[table[tp]].next \in Nat
        /\ callback.all \intersect owned = {}
        /\ \A tp \in callback.all : tp \in Partition
                                    /\ (table[tp] # None => runtimes[table[tp]].tp = tp)
        /\ \A r \in DOMAIN runtimes : r # None
    BY LiveTables
  <2>4. \A tp \in owned : position[tp] = runtimes[table[tp]].next + Holds(InHand, table[tp])
    <3>1. \A r : Holds({}, r) = 0
      BY DEF Holds
    <3> QED
      BY <2>2, <2>3, <3>1, HoldsType DEF Continues, CursorsAhead
  <2>5. \A f \in Polled' : /\ f.tp \in tps /\ f.rt = table[f.tp] /\ f.offset = position[f.tp]
    BY <2>2
  <2>6. \A tp \in owned : Holds(Polled', table[tp]) = IF tp \in tps THEN 1 ELSE 0
    <3> SUFFICES ASSUME NEW tp \in owned
                 PROVE  (\E f \in Polled' : f.rt = table[tp]) <=> tp \in tps
      BY DEF Holds
    <3>1. ASSUME tp \in tps PROVE \E f \in Polled' : f.rt = table[tp]
      <4> DEFINE f == [tp |-> tp, rt |-> table[tp], offset |-> position[tp]]
      <4>1. f \in Polled' /\ f.rt = table[tp]
        BY <2>2, <3>1
      <4> QED
        BY <4>1
    <3>2. ASSUME NEW f \in Polled', f.rt = table[tp] PROVE tp \in tps
      BY <2>1, <2>3, <2>5, <3>2
    <3> QED
      BY <3>1, <3>2
  <2>7. FetchesLead'
    BY <2>1, <2>2, <2>3, <2>5 DEF Continues, FetchesLead
  <2>8. HandInOrder'
    BY <2>1, <2>2 DEF Continues, HandInOrder
  <2>9. PolledInOrder'
    <3> SUFFICES ASSUME NEW f \in Polled'
                 PROVE  f.offset = runtimes[f.rt].next + Holds(InHand, f.rt)
      BY <2>1, <2>2 DEF PolledInOrder
    <3> QED
      BY <2>1, <2>4, <2>5
  <2>10. CursorsAhead'
    <3> SUFFICES ASSUME NEW tp \in owned
                 PROVE  position'[tp] = runtimes[table[tp]].next + Holds(InHand, table[tp])
                                          + Holds(Polled', table[tp])
      BY <2>1, <2>2 DEF CursorsAhead
    <3> QED
      BY <2>1, <2>3, <2>4, <2>6, HoldsType
  <2>11. NothingEarly'
    <3> SUFFICES ASSUME callback.kind = "assigned", NEW tp \in callback.all \ callback.todo,
                        NEW f \in Polled'
                 PROVE  f.rt # table[tp]
      BY <2>1, <2>2 DEF Continues, NothingEarly
    <3> QED
      BY <2>1, <2>3, <2>5
  <2> QED
    BY <2>7, <2>8, <2>9, <2>10, <2>11 DEF Continues
<1> QED
  BY <1>1, <1>2

(* The client's steps: an assignment begins at the group's offset, with    *)
(* nothing held for its runtime.                                           *)
LEMMA ClientOrder ==
  ASSUME Types, Tables, ctx = "live", ctx' = "live", Continues,
         \/ Cancel \/ ClientNext
         \/ \E tps \in (SUBSET Partition) \ {{}} : Assign(tps) \/ Revoke(tps)
  PROVE  Continues'
<1> USE DEF loopVars, fetcherVars, brokerVars
<1>1. ~Cancel /\ ~CallbackCancelled
  BY DEF Cancel, CallbackCancelled
<1>2. ~CloseClient /\ ~ClientClosed
  BY DEF CloseClient, ClientClosed, Tables, EndsInOrder
<1>3. ASSUME UNCHANGED <<current, topics, table, runtimes>>,
             owned' \subseteq owned,
             \A tp \in owned' : position'[tp] = position[tp],
             callback'.kind = "assigned" => callback'.all \ callback'.todo = {}
      PROVE  Continues'
  <2>1. InHand' = InHand /\ Polled' = Polled
    BY <1>3 DEF InHand, Polled
  <2>2. FetchesLead' /\ HandInOrder' /\ PolledInOrder'
    BY <1>3, <2>1 DEF Continues, FetchesLead, HandInOrder, PolledInOrder
  <2>3. CursorsAhead'
    BY <1>3, <2>1 DEF Continues, CursorsAhead
  <2>4. NothingEarly'
    BY <1>3 DEF NothingEarly
  <2> QED
    BY <2>2, <2>3, <2>4 DEF Continues
<1>4. ASSUME NEW tps \in (SUBSET Partition) \ {{}}, Assign(tps) PROVE Continues'
  <2>1. /\ UNCHANGED <<current, topics, table, runtimes, owned, position>>
        /\ callback'.all = tps /\ callback'.todo = tps
    BY <1>4 DEF Assign, CallBack
  <2> QED
    BY <1>3, <2>1
<1>5. ASSUME NEW tps \in (SUBSET Partition) \ {{}}, Revoke(tps) PROVE Continues'
  <2>1. /\ UNCHANGED <<current, topics, table, runtimes>>
        /\ owned' = owned \ tps
        /\ position' = [tp \in Partition |-> IF tp \in tps THEN 0 ELSE position[tp]]
        /\ callback'.kind = "gone"
    BY <1>5 DEF Revoke, CallBack, GiveUp
  <2>2. owned \subseteq Partition
    BY DEF Types, TypeOK
  <2> QED
    BY <1>3, <2>1, <2>2
<1>6. CASE CallbackReturns
  <2>1. /\ UNCHANGED <<ctx, current, topics, table, committed>>
        /\ callback.todo = {} /\ callback'.kind = "none"
    BY <1>6 DEF CallbackReturns, Idle
  <2>2. CASE callback.kind # "assigned"
    <3>1. UNCHANGED <<owned, position, runtimes>>
      BY <1>6, <2>2 DEF CallbackReturns
    <3> QED
      BY <1>3, <2>1, <3>1
  <2>3. CASE callback.kind = "assigned"
    <3> DEFINE new(r) == \E tp \in callback.all : table[tp] = r
    <3>1. /\ owned' = owned \union callback.all
          /\ position' = [tp \in Partition |->
                            IF tp \in callback.all THEN committed[tp] ELSE position[tp]]
          /\ runtimes' = [r \in DOMAIN runtimes |->
                            IF new(r) THEN [runtimes[r] EXCEPT !.next = committed[runtimes[r].tp]]
                            ELSE runtimes[r]]
      BY <1>6, <2>3 DEF CallbackReturns
    <3>2. /\ DOMAIN runtimes' = DOMAIN runtimes
          /\ \A r \in DOMAIN runtimes :
                /\ runtimes'[r].tp = runtimes[r].tp
                /\ runtimes'[r].open = runtimes[r].open
                /\ runtimes'[r].next = IF new(r) THEN committed[runtimes[r].tp] ELSE runtimes[r].next
      <4> HIDE DEF new
      <4>1. \A r \in DOMAIN runtimes : runtimes[r] \in Runtime
        BY DEF Types, TypeOK
      <4> QED
        BY <3>1, <4>1 DEF Runtime
    <3>3. /\ callback.all \subseteq Partition /\ callback.all \intersect owned = {}
          /\ \A tp \in callback.all :
                table[tp] # None => table[tp] \in DOMAIN runtimes /\ runtimes[table[tp]].tp = tp
          /\ \A tp \in owned : /\ tp \in Partition /\ table[tp] \in DOMAIN runtimes
                               /\ runtimes[table[tp]].tp = tp
          /\ \A tp \in callback.all : committed[tp] \in Nat
          /\ None \notin DOMAIN runtimes
      BY LiveTables
    <3>4. \A tp \in callback.all : table[tp] # None
      BY <2>1, <2>3, <3>3 DEF Tables, TableIsComplete, Listed
    <3>5. InHand' = InHand /\ Polled' = Polled
      BY <2>1 DEF InHand, Polled
    <3>6. \A tp \in callback.all : \A f \in InHand \union Polled : f.rt # table[tp]
      BY <2>1, <2>3 DEF Continues, NothingEarly
    <3>7. FetchesLead'
      BY <3>2, <3>5 DEF Continues, FetchesLead
    <3>8. \A f \in InHand \union Polled :
            f.rt \in DOMAIN runtimes /\ runtimes'[f.rt].next = runtimes[f.rt].next
      BY <3>2, <3>6 DEF Continues, FetchesLead
    <3>9. HandInOrder' /\ PolledInOrder'
      BY <3>2, <3>5, <3>8 DEF Continues, HandInOrder, PolledInOrder
    <3>10. CursorsAhead'
      <4> SUFFICES ASSUME NEW tp \in owned'
                   PROVE  position'[tp] = runtimes'[table[tp]].next + Holds(InHand, table[tp])
                                            + Holds(Polled, table[tp])
        BY <2>1, <3>5 DEF CursorsAhead
      <4>1. CASE tp \in callback.all
        <5>1. Holds(InHand, table[tp]) = 0 /\ Holds(Polled, table[tp]) = 0
          BY <3>6, <4>1 DEF Holds
        <5>2. runtimes'[table[tp]].next = committed[tp] /\ position'[tp] = committed[tp]
          BY <3>1, <3>2, <3>3, <3>4, <4>1
        <5> QED
          BY <3>3, <4>1, <5>1, <5>2
      <4>2. CASE tp \in owned
        <5>1. tp \notin callback.all /\ ~new(table[tp])
          BY <3>3, <3>4, <4>2
        <5>2. runtimes'[table[tp]].next = runtimes[table[tp]].next /\ position'[tp] = position[tp]
          BY <3>1, <3>2, <3>3, <4>2, <5>1
        <5> QED
          BY <4>2, <5>2 DEF Continues, CursorsAhead
      <4> QED
        BY <3>1, <4>1, <4>2
    <3>11. NothingEarly'
      BY <2>1 DEF NothingEarly
    <3> QED
      BY <3>7, <3>9, <3>10, <3>11 DEF Continues
  <2> QED
    BY <2>2, <2>3
<1> QED
  BY <1>1, <1>2, <1>4, <1>5, <1>6 DEF ClientNext

(* A channel that is opened has nothing held for it, and one that is       *)
(* closed is of a partition the client no longer owns.                     *)
LEMMA ChannelOrder ==
  ASSUME Types, Tables, ctx = "live", Continues, CallbackNext
  PROVE  Continues'
<1>1. PICK tp \in Partition : HandleAssigned(tp) \/ HandleGone(tp)
  BY DEF CallbackNext
<1>2. /\ CallbackSent(tp)
      /\ UNCHANGED <<ctx, current, topics, owned, position>>
      /\ tp \in callback.todo
      /\ callback' = [callback EXCEPT !.todo = @ \ {tp}]
  BY <1>1 DEF HandleAssigned, HandleGone, CallbackSent, fetcherVars
<1>3. /\ callback'.kind = callback.kind /\ callback'.all = callback.all
      /\ callback'.todo = callback.todo \ {tp}
  BY <1>2 DEF Types, TypeOK
<1>4. InHand' = InHand /\ Polled' = Polled
  BY <1>2 DEF InHand, Polled
<1>5. /\ tp \in callback.all /\ tp \notin owned
      /\ \A p \in Partition : table[p] # None =>
            /\ table[p] \in DOMAIN runtimes /\ runtimes[table[p]].tp = p
      /\ \A p \in owned : p \in Partition /\ table[p] # None
      /\ DOMAIN runtimes = 1 .. Len(runtimes) /\ Len(runtimes) \in Nat
      /\ callback.all \subseteq Partition
  BY <1>2, LiveTables
<1>6. table \in [Partition -> RuntimeId \union {None}] /\ runtimes \in Seq(Runtime)
  BY DEF Types, TypeOK
<1>7. CASE HandleAssigned(tp)
  <2> DEFINE n == Len(runtimes) + 1
  <2>1. /\ DOMAIN runtimes' = DOMAIN runtimes \union {n} /\ n \notin DOMAIN runtimes
        /\ \A r \in DOMAIN runtimes : runtimes'[r] = runtimes[r]
        /\ table' = [table EXCEPT ![tp] = n]
    BY <1>5, <1>6, <1>7 DEF HandleAssigned
  <2> HIDE DEF n
  <2>2. \A f \in InHand \union Polled :
          f.rt \in DOMAIN runtimes /\ f.rt # n /\ runtimes'[f.rt] = runtimes[f.rt]
    BY <2>1 DEF Continues, FetchesLead
  <2>3. FetchesLead' /\ HandInOrder' /\ PolledInOrder'
    BY <1>4, <2>1, <2>2 DEF Continues, FetchesLead, HandInOrder, PolledInOrder
  <2>4. \A p \in Partition \ {tp} : table'[p] = table[p]
    BY <1>6, <2>1
  <2>5. table'[tp] = n
    BY <1>6, <2>1
  <2>6. CursorsAhead'
    <3>1. \A p \in owned : table'[p] = table[p] /\ runtimes'[table[p]] = runtimes[table[p]]
      BY <1>5, <2>1, <2>4
    <3> QED
      BY <1>2, <1>4, <3>1 DEF Continues, CursorsAhead
  <2>7. NothingEarly'
    <3> SUFFICES ASSUME callback.kind = "assigned",
                        NEW p \in callback.all \ (callback.todo \ {tp}),
                        NEW f \in InHand \union Polled
                 PROVE  f.rt # table'[p]
      BY <1>3, <1>4 DEF NothingEarly
    <3>1. CASE p = tp
      BY <2>2, <2>5, <3>1
    <3>2. CASE p # tp
      BY <1>5, <2>4, <3>2 DEF Continues, NothingEarly
    <3> QED
      BY <3>1, <3>2
  <2> QED
    BY <2>3, <2>6, <2>7 DEF Continues
<1>8. CASE HandleGone(tp)
  <2>1. callback.kind = "gone"
    BY <1>8 DEF HandleGone
  <2>2. /\ \A p \in Partition \ {tp} : table'[p] = table[p]
        /\ DOMAIN runtimes' = DOMAIN runtimes
        /\ \A r \in DOMAIN runtimes :
              /\ runtimes'[r].tp = runtimes[r].tp /\ runtimes'[r].next = runtimes[r].next
              /\ runtimes'[r].open => runtimes[r].open
    <3>1. CASE table[tp] = None
      BY <1>8, <3>1 DEF HandleGone
    <3>2. CASE table[tp] # None
      <4> DEFINE r == table[tp]
      <4>1. /\ runtimes' = [runtimes EXCEPT ![r] = [runtimes[r] EXCEPT !.open = FALSE]]
            /\ table' = [table EXCEPT ![tp] = None]
            /\ r \in DOMAIN runtimes
        BY <1>5, <1>8, <3>2 DEF HandleGone, Close
      <4> HIDE DEF r
      <4>2. DOMAIN runtimes' = DOMAIN runtimes /\ runtimes[r] \in Runtime
        BY <1>6, <4>1
      <4>3. /\ runtimes'[r] = [runtimes[r] EXCEPT !.open = FALSE]
            /\ \A s \in DOMAIN runtimes \ {r} : runtimes'[s] = runtimes[s]
        BY <4>1
      <4>4. /\ runtimes'[r].tp = runtimes[r].tp /\ runtimes'[r].next = runtimes[r].next
            /\ runtimes'[r].open = FALSE
        BY <4>2, <4>3 DEF Runtime
      <4> QED
        BY <1>6, <4>1, <4>2, <4>3, <4>4
    <3> QED
      BY <3>1, <3>2
  <2>3. FetchesLead' /\ HandInOrder' /\ PolledInOrder'
    <3>1. \A f \in InHand \union Polled : f.rt \in DOMAIN runtimes
      BY DEF Continues, FetchesLead
    <3> QED
      BY <1>4, <2>2, <3>1 DEF Continues, FetchesLead, HandInOrder, PolledInOrder
  <2>4. CursorsAhead'
    <3>1. \A p \in owned : /\ table'[p] = table[p]
                           /\ runtimes'[table[p]].next = runtimes[table[p]].next
      BY <1>5, <2>2
    <3> QED
      BY <1>2, <1>4, <3>1 DEF Continues, CursorsAhead
  <2>5. NothingEarly'
    BY <1>3, <2>1 DEF NothingEarly
  <2> QED
    BY <2>3, <2>4, <2>5 DEF Continues
<1> QED
  BY <1>1, <1>7, <1>8

(* What is sent becomes what is in hand. *)
LEMMA SendOrder ==
  ASSUME Types, Tables, HeldOnce, ctx = "live", Continues, SendTopic
  PROVE  Continues'
<1>1. /\ UNCHANGED <<table, runtimes, callback, owned, position>>
  BY DEF SendTopic, clientVars
<1>2. /\ InHand = {} /\ Polled = InHand' \union Polled'
      /\ \A f \in InHand', g \in Polled' : f.tp # g.tp
  BY SendMoves
<1>3. \A f \in InHand', g \in Polled' : f.rt # g.rt
  BY <1>2 DEF Continues, FetchesLead
<1>4. \A r : Holds(InHand, r) = 0
  BY <1>2 DEF Holds
<1>5. \A r : Holds(Polled, r) = Holds(InHand', r) + Holds(Polled', r)
  BY <1>2, <1>3 DEF Holds
<1>6. \A f \in Polled' : Holds(InHand', f.rt) = 0
  BY <1>3 DEF Holds
<1>7. \A f \in Polled : /\ f.rt \in DOMAIN runtimes /\ runtimes[f.rt].next \in Nat
                        /\ runtimes[f.rt].open => f.offset = runtimes[f.rt].next
  <2>1. \A f \in Polled : f.rt \in DOMAIN runtimes
    BY DEF Continues, FetchesLead
  <2>2. \A r \in DOMAIN runtimes : runtimes[r].next \in Nat
    BY LiveTables
  <2> QED
    BY <1>4, <2>1, <2>2 DEF Continues, PolledInOrder
<1>8. FetchesLead'
  BY <1>1, <1>2 DEF Continues, FetchesLead
<1>9. HandInOrder'
  BY <1>1, <1>2, <1>7 DEF HandInOrder
<1>10. PolledInOrder'
  BY <1>1, <1>2, <1>6, <1>7 DEF PolledInOrder
<1>11. CursorsAhead'
  <2> SUFFICES ASSUME NEW tp \in owned
               PROVE  position[tp] = runtimes[table[tp]].next + Holds(InHand', table[tp])
                                       + Holds(Polled', table[tp])
    BY <1>1 DEF CursorsAhead
  <2>1. runtimes[table[tp]].next \in Nat
    BY LiveTables
  <2>2. position[tp] = runtimes[table[tp]].next + Holds(InHand, table[tp]) + Holds(Polled, table[tp])
    BY DEF Continues, CursorsAhead
  <2>3. /\ Holds(InHand, table[tp]) = 0
        /\ Holds(Polled, table[tp]) = Holds(InHand', table[tp]) + Holds(Polled', table[tp])
    BY <1>4, <1>5
  <2>4. Holds(InHand', table[tp]) \in {0, 1} /\ Holds(Polled', table[tp]) \in {0, 1}
    BY HoldsType
  <2> QED
    BY <2>1, <2>2, <2>3, <2>4
<1>12. NothingEarly'
  BY <1>1, <1>2 DEF Continues, NothingEarly
<1> QED
  BY <1>8, <1>9, <1>10, <1>11, <1>12 DEF Continues

(* What leaves the loop is received by the runtime it was polled for, if   *)
(* that one's channel is still open.                                       *)
LEMMA DeliverOrder ==
  ASSUME Types, Tables, HeldOnce, ctx = "live", Continues, Drop \/ HandOff
  PROVE  Continues'
<1> DEFINE f == Head(current)
<1>1. /\ loop = "deliver" /\ NextPartition /\ UNCHANGED fetcherVars
      /\ UNCHANGED <<table, callback, owned, position>>
  BY DEF Drop, HandOff, clientVars
<1>2. /\ Polled' = Polled /\ f \in InHand /\ InHand' = InHand \ {f}
      /\ \A g \in InHand' : g.tp # f.tp
  BY <1>1, HeadLeaves
<1>3. /\ f.tp \in Partition /\ f.rt \in DOMAIN runtimes /\ runtimes[f.rt].tp = f.tp
      /\ runtimes[f.rt].open => f.offset = runtimes[f.rt].next
      /\ \A g \in InHand' : g.rt # f.rt
  BY <1>2 DEF Continues, FetchesLead, HandInOrder
<1>4. /\ DOMAIN runtimes' = DOMAIN runtimes
      /\ \A r \in DOMAIN runtimes :
            /\ runtimes'[r].tp = runtimes[r].tp /\ runtimes'[r].open = runtimes[r].open
            /\ runtimes[r].open =>
                  runtimes'[r].next = runtimes[r].next + (IF r = f.rt THEN 1 ELSE 0)
  <2>1. \A r \in DOMAIN runtimes :
           /\ runtimes[r] \in Runtime /\ runtimes[r].next \in Nat
           /\ runtimes[r].open => table[runtimes[r].tp] = r /\ r # None
    <3>1. \A r \in DOMAIN runtimes : runtimes[r] \in Runtime
      BY DEF Types, TypeOK
    <3> QED
      BY <3>1, LiveTables
  <2>2. CASE Drop
    <3>1. table[f.tp] = None /\ UNCHANGED runtimes
      BY <1>3, <2>2 DEF Drop, Known
    <3>2. ~runtimes[f.rt].open
      BY <1>3, <2>1, <3>1
    <3> HIDE DEF f
    <3> QED
      BY <2>1, <3>1, <3>2
  <2>3. CASE HandOff
    <3> DEFINE s == table[f.tp]
               next == IF f.rt = s THEN f.offset + 1 ELSE runtimes[s].next
               todo == Append(runtimes[s].todo, f)
    <3>1. runtimes' = [runtimes EXCEPT ![s] = [runtimes[s] EXCEPT !.todo = todo, !.next = next]]
      BY <2>3 DEF HandOff
    <3>2. s # None => s \in DOMAIN runtimes /\ runtimes[s].open
      BY <1>3, LiveTables
    <3>3. s # None
      BY <2>3 DEF HandOff, Known
    <3>4. runtimes[f.rt].open => f.rt = s
      BY <1>3, <2>1
    <3>5. next = runtimes[s].next + (IF s = f.rt THEN 1 ELSE 0)
      BY <1>3, <2>1, <3>2, <3>3
    <3> HIDE DEF f, s, next, todo
    <3>6. /\ DOMAIN runtimes' = DOMAIN runtimes
          /\ runtimes'[s] = [runtimes[s] EXCEPT !.todo = todo, !.next = next]
          /\ \A r \in DOMAIN runtimes \ {s} : runtimes'[r] = runtimes[r]
      BY <3>1, <3>2, <3>3
    <3>7. /\ runtimes'[s].tp = runtimes[s].tp /\ runtimes'[s].open = runtimes[s].open
          /\ runtimes'[s].next = next
      BY <2>1, <3>2, <3>3, <3>6 DEF Runtime
    <3>8. ASSUME NEW r \in DOMAIN runtimes, r # s
          PROVE  /\ runtimes'[r].tp = runtimes[r].tp /\ runtimes'[r].open = runtimes[r].open
                 /\ runtimes[r].open =>
                       runtimes'[r].next = runtimes[r].next + (IF r = f.rt THEN 1 ELSE 0)
      BY <2>1, <3>4, <3>6, <3>8
    <3>9. ASSUME NEW r \in DOMAIN runtimes, r = s
          PROVE  /\ runtimes'[r].tp = runtimes[r].tp /\ runtimes'[r].open = runtimes[r].open
                 /\ runtimes'[r].next = runtimes[r].next + (IF r = f.rt THEN 1 ELSE 0)
      BY <3>5, <3>7, <3>9
    <3>10. DOMAIN runtimes' = DOMAIN runtimes
      BY <3>6
    <3> QED
      BY <3>8, <3>9, <3>10
  <2> QED
    BY <2>2, <2>3
<1> HIDE DEF f
<1>5. \A r : Holds(InHand', r) = Holds(InHand, r) - (IF r = f.rt THEN 1 ELSE 0)
  <2> SUFFICES ASSUME NEW r
               PROVE  Holds(InHand', r) = Holds(InHand, r) - (IF r = f.rt THEN 1 ELSE 0)
    OBVIOUS
  <2>1. CASE r = f.rt
    <3>1. Holds(InHand, r) = 1 /\ Holds(InHand', r) = 0
      BY <1>2, <1>3, <2>1 DEF Holds
    <3> QED
      BY <2>1, <3>1
  <2>2. CASE r # f.rt
    <3>1. Holds(InHand, r) = Holds(InHand', r)
      BY <1>2, <2>2 DEF Holds
    <3> QED
      BY <2>2, <3>1, HoldsType
  <2> QED
    BY <2>1, <2>2
<1>6. \A r \in DOMAIN runtimes : runtimes[r].open =>
         runtimes'[r].next + Holds(InHand', r) = runtimes[r].next + Holds(InHand, r)
  <2>1. \A r \in DOMAIN runtimes : runtimes[r].next \in Nat
    BY LiveTables
  <2> QED
    BY <1>4, <1>5, <2>1, HoldsType
<1>7. FetchesLead'
  BY <1>2, <1>4 DEF Continues, FetchesLead
<1>8. HandInOrder'
  <2> SUFFICES ASSUME NEW g \in InHand', runtimes'[g.rt].open
               PROVE  g.offset = runtimes'[g.rt].next
    BY DEF HandInOrder
  <2>1. g \in InHand /\ g.rt # f.rt /\ g.rt \in DOMAIN runtimes /\ runtimes[g.rt].open
    BY <1>2, <1>3, <1>4 DEF Continues, FetchesLead
  <2>2. g.offset = runtimes[g.rt].next /\ runtimes[g.rt].next \in Nat
    BY <2>1, LiveTables DEF Continues, HandInOrder
  <2> QED
    BY <1>4, <2>1, <2>2
<1>9. PolledInOrder'
  BY <1>2, <1>4, <1>6 DEF Continues, FetchesLead, PolledInOrder
<1>10. CursorsAhead'
  <2>1. \A tp \in owned : table[tp] \in DOMAIN runtimes /\ runtimes[table[tp]].open
    BY LiveTables
  <2> QED
    BY <1>1, <1>2, <1>6, <2>1 DEF Continues, CursorsAhead
<1>11. NothingEarly'
  BY <1>1, <1>2 DEF Continues, NothingEarly
<1> QED
  BY <1>7, <1>8, <1>9, <1>10, <1>11 DEF Continues

-----------------------------------------------------------------------------
(* Every step keeps the order. *)
LEMMA NextOrder == IInv /\ Order /\ [Next]_vars => Order'
<1> SUFFICES ASSUME Types, Tables, Order, [Next]_vars PROVE Order'
  BY DEF IInv
<1>1. HeldOnce'
  BY NextHeldOnce DEF Order
<1>2. ASSUME ctx' = "live" PROVE Continues'
  <2>1. ctx = "live"
    BY <1>2 DEF vars, Next, Cancel, ClientNext, CallbackCancelled, CallbackReturns, CloseClient,
       ClientClosed, Assign, Revoke, CallBack, FetcherNext, CheckContext, PollCancelled,
       SendCancelled, PollReturns, LoopNext, CallbackNext, HandleAssigned, HandleGone,
       CallbackSent, SendTopic, Drop, HandOff, Shutdown, ShutdownFrom, WaitReturns, RuntimeNext,
       HandleRecord, HandleThenCommit, RuntimeReturns, ReturnIf, Terminated
  <2>2. Continues /\ HeldOnce
    BY <2>1 DEF Order
  <2>3. ASSUME UNCHANGED vars PROVE Continues'
    BY <2>1, <2>2, <2>3, SameOrder DEF vars, loopVars, fetcherVars, clientVars, brokerVars
  <2>4. ~Shutdown /\ ~WaitReturns
    BY <2>1 DEF Shutdown, ShutdownFrom, WaitReturns, Tables, EndsInOrder
  <2> QED
    BY <1>2, <2>1, <2>2, <2>3, <2>4, RuntimeOrder, FetcherOrder, ClientOrder, ChannelOrder,
       SendOrder, DeliverOrder
    DEF Next, LoopNext, Terminated
<1> QED
  BY <1>1, <1>2 DEF Order

(* What is held for a runtime is one fetch in hand at most and, after it,  *)
(* one that was polled.                                                    *)
LEMMA OrderGivesSession == IInv /\ Order => SessionInOrder
<1> SUFFICES ASSUME Types, Tables, HeldOnce, ctx = "live", Continues,
                    NEW r \in DOMAIN runtimes, runtimes[r].open, NEW p \in InTransit(r)
             PROVE  FetchAt(p).offset =
                      runtimes[r].next + Cardinality({q \in InTransit(r) : Before(q, p)})
  BY DEF IInv, Order, SessionInOrder
<1> DEFINE before == {q \in InTransit(r) : Before(q, p)}
<1>1. runtimes[r].next \in Nat
  BY LiveTables
<1>2. DOMAIN topics \subseteq Nat \ {0}
  BY DEF Types, TypeOK
<1>3. ASSUME NEW q \in InTransit(r)
      PROVE  /\ FetchAt(q).rt = r
             /\ \/ \E i \in DOMAIN current :
                      q = <<0, i>> /\ FetchAt(q) = current[i] /\ FetchAt(q) \in InHand
                \/ \E t \in DOMAIN topics : \E i \in DOMAIN topics[t] :
                      q = <<t, i>> /\ FetchAt(q) = topics[t][i] /\ FetchAt(q) \in Polled /\ t > 0
  <2>1. q \in Places /\ FetchAt(q).rt = r
    BY DEF InTransit
  <2>2. CASE \E i \in DOMAIN current : q = <<0, i>>
    BY <2>1, <2>2 DEF FetchAt, InHand
  <2>3. CASE \E t \in DOMAIN topics : \E i \in DOMAIN topics[t] : q = <<t, i>>
    <3>1. PICK t \in DOMAIN topics : \E i \in DOMAIN topics[t] : q = <<t, i>>
      BY <2>3
    <3>2. PICK i \in DOMAIN topics[t] : q = <<t, i>>
      BY <3>1
    <3>3. t > 0 /\ t # 0
      BY <1>2
    <3>4. FetchAt(q) = topics[t][i]
      BY <3>2, <3>3 DEF FetchAt
    <3>5. FetchAt(q) \in Polled
      BY <3>4 DEF Polled
    <3> QED
      BY <2>1, <3>2, <3>3, <3>4, <3>5
  <2> QED
    BY <2>1, <2>2, <2>3 DEF Places
<1>4. \A q \in InTransit(r) : FetchAt(q).tp = runtimes[r].tp
  BY <1>3 DEF Continues, FetchesLead
<1>5. ASSUME NEW q \in InTransit(r), NEW s \in InTransit(r),
             (q[1] = 0) <=> (s[1] = 0)
      PROVE  q = s
  <2>1. FetchAt(q).tp = FetchAt(s).tp
    BY <1>4
  <2>2. CASE q[1] = 0
    <3>1. PICK i \in DOMAIN current : q = <<0, i>> /\ FetchAt(q) = current[i]
      BY <1>3, <2>2
    <3>2. PICK j \in DOMAIN current : s = <<0, j>> /\ FetchAt(s) = current[j]
      BY <1>3, <1>5, <2>2
    <3> QED
      BY <2>1, <3>1, <3>2 DEF HeldOnce
  <2>3. CASE q[1] # 0
    <3>1. PICK t \in DOMAIN topics :
            \E i \in DOMAIN topics[t] : q = <<t, i>> /\ FetchAt(q) = topics[t][i]
      BY <1>3, <2>3
    <3>2. PICK u \in DOMAIN topics :
            \E j \in DOMAIN topics[u] : s = <<u, j>> /\ FetchAt(s) = topics[u][j]
      BY <1>3, <1>5, <2>3
    <3> QED
      BY <2>1, <3>1, <3>2 DEF HeldOnce
  <2> QED
    BY <2>2, <2>3
<1>6. \A q \in InTransit(r) : /\ q[1] \in Nat /\ q[2] \in Nat
                              /\ q[1] = 0 => FetchAt(q) \in InHand
                              /\ q[1] # 0 => FetchAt(q) \in Polled
  <2>1. \A t \in DOMAIN topics : DOMAIN topics[t] \subseteq Nat
    BY DEF Types, TypeOK
  <2>2. DOMAIN current \subseteq Nat
    BY DEF Types, TypeOK
  <2> QED
    BY <1>2, <1>3, <2>1, <2>2
<1>7. CASE p[1] = 0
  <2>1. before = {}
    BY <1>5, <1>6, <1>7 DEF Before
  <2>2. FetchAt(p).offset = runtimes[r].next
    BY <1>3, <1>6, <1>7 DEF Continues, HandInOrder
  <2> QED
    BY <1>1, <2>1, <2>2, FS_EmptySet
<1>8. CASE p[1] # 0
  <2>1. FetchAt(p).offset = runtimes[r].next + Holds(InHand, r)
    BY <1>3, <1>6, <1>8 DEF Continues, PolledInOrder
  <2>2. CASE \E f \in InHand : f.rt = r
    <3>1. PICK i \in DOMAIN current : current[i].rt = r
      BY <2>2 DEF InHand
    <3>2. <<0, i>> \in InTransit(r)
      BY <3>1 DEF InTransit, Places, FetchAt
    <3>3. before = {<<0, i>>}
      BY <1>5, <1>6, <1>8, <3>2 DEF Before
    <3>4. Cardinality(before) = 1
      BY <3>3, FS_Singleton
    <3> QED
      BY <2>1, <2>2, <3>4 DEF Holds
  <2>3. CASE ~\E f \in InHand : f.rt = r
    <3>1. before = {}
      BY <1>3, <1>5, <1>6, <1>8, <2>3 DEF Before
    <3> QED
      BY <1>1, <2>1, <2>3, <3>1, FS_EmptySet DEF Holds
  <2> QED
    BY <2>2, <2>3
<1> QED
  BY <1>7, <1>8

(* While nothing is cancelled, what the loop and the fetcher hold for a    *)
(* runtime continues what it received, in order and without a gap, however *)
(* polls, rebalances and deliveries interleave.                            *)
THEOREM SessionsInOrder == Spec => []SessionInOrder
<1>1. Init => Order
  BY InitOrder
<1>2. IInv /\ Order /\ [Next]_vars => Order'
  BY NextOrder
<1>3. IInv /\ Order => SessionInOrder
  BY OrderGivesSession
<1> QED
  BY <1>1, <1>2, <1>3, InductiveInvariant, PTL DEF Spec
=============================================================================
