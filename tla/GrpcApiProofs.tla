---------------------------- MODULE GrpcApiProofs ----------------------------
(***************************************************************************)
(* Proofs about ServerApp and GrpcApi for any calls, services and number   *)
(* of parts: how Run of a server ends, that the Api with its health rpcs   *)
(* runs as such a server, and what the rpcs answer.                        *)
(***************************************************************************)
EXTENDS GrpcApi, TLAPS

-----------------------------------------------------------------------------
(* The server is stopped only by a cancellation or after a failure, and a  *)
(* failure of the listener is the first error of the group.                *)
StopHasCause ==
    /\ stopper # "waiting" => ctx = "cancelled" \/ group = "failed"
    /\ group = "stopped" => ctx = "cancelled"
    /\ stopper = "waiting" /\ group # "nil" => serve = "returned"
    /\ broken => group = "failed"

(* Run's result is that of a group whose goroutines have returned. *)
ResultIsOfGroup ==
    /\ serve = "starting" => calls = {}
    /\ stopper = "returned" => calls = {}
    /\ result # "none" => serve = "returned" /\ stopper = "returned"
    /\ result = "nil" => group # "failed"

ServerInv == TypeOK /\ StopHasCause /\ ResultIsOfGroup

(* Nothing is cancelled, served or stopped yet. *)
LEMMA InitServerInv == Init => ServerInv
  BY DEF Init, ServerInv, TypeOK, StopHasCause, ResultIsOfGroup

(* Every action of ServerApp preserves ServerInv. *)
LEMMA NextServerInv == ServerInv /\ [Next]_vars => ServerInv'
<1> SUFFICES ASSUME ServerInv, [Next]_vars PROVE ServerInv'
  OBVIOUS
<1> USE DEF ServerInv, TypeOK, StopHasCause, ResultIsOfGroup, Joins
<1>1. CASE Cancel
  BY <1>1 DEF Cancel
<1>2. CASE ServeStarts
  BY <1>2 DEF ServeStarts
<1>3. CASE ServeReturns
  BY <1>3 DEF ServeReturns
<1>4. CASE StopBegins
  BY <1>4 DEF StopBegins, GroupDone
<1>5. CASE StopReturns
  BY <1>5 DEF StopReturns
<1>6. CASE WaitReturns
  BY <1>6 DEF WaitReturns
<1>7. CASE ServeFails
  BY <1>7 DEF ServeFails
<1>8. ASSUME NEW c \in Call, Accept(c) PROVE ServerInv'
  BY <1>8 DEF Accept
<1>9. ASSUME NEW c \in Call, End(c) PROVE ServerInv'
  BY <1>9 DEF End
<1>10. CASE UNCHANGED vars
  BY <1>10 DEF vars
<1> HIDE DEF ServerInv
<1> QED
  BY <1>1, <1>2, <1>3, <1>4, <1>5, <1>6, <1>7, <1>8, <1>9, <1>10 DEF Next, RunNext

(* Both App.Run end as they should, on their own: with their goroutines    *)
(* returned, no call open, and the error of a failed listener.             *)
THEOREM ServerEndsWell == Spec => [](TypeOK /\ ResultTells /\ NothingRunsAfterReturn)
<1>1. ServerInv => TypeOK /\ ResultTells /\ NothingRunsAfterReturn
  BY DEF ServerInv, TypeOK, StopHasCause, ResultIsOfGroup, ResultTells, NothingRunsAfterReturn
<1> QED
  BY <1>1, InitServerInv, NextServerInv, PTL DEF Spec

-----------------------------------------------------------------------------
(* An Api does to its server what its App and its calls do: each of its    *)
(* steps is one of the server or leaves the server alone.                  *)
LEMMA ApiStepsServer == [ApiNext]_apiVars => [Next]_vars
<1> SUFFICES ASSUME [ApiNext]_apiVars PROVE [Next]_vars
  OBVIOUS
<1>1. CASE Run
  BY <1>1 DEF Run, Next
<1>2. CASE Environment
  <2>1. ASSUME NEW c \in Call, OtherCall(c) PROVE [Next]_vars
    BY <2>1 DEF OtherCall, Next
  <2>2. ASSUME NEW c \in Stream, NEW op, NEW s, Asks(c, op, s) PROVE [Next]_vars
    BY <2>2, StreamAssumption DEF Asks, Next
  <2> QED
    BY <1>2, <2>1, <2>2 DEF Environment, Next, MonitorService, RegisterService, Mark, Leave
<1>3. ASSUME NEW c \in Stream, HealthRpc(c) PROVE [Next]_vars
  <2>1. Closes(c) => Next
    BY StreamAssumption DEF Closes, Next
  <2> QED
    BY <1>3, <2>1 DEF HealthRpc, GetMonitor, Tick, WatchCancelled, Healthy, CheckReturns, Compare
<1>4. CASE UNCHANGED apiVars
  BY <1>4 DEF apiVars
<1> QED
  BY <1>1, <1>2, <1>3, <1>4 DEF ApiNext

(* The Api runs as the server of ServerApp. *)
THEOREM ApiRunsServer == ApiSpec => Spec
<1>1. ApiInit => Init
  BY DEF ApiInit
<1> QED
  BY <1>1, ApiStepsServer, PTL DEF ApiSpec, Spec

(* Run returns nil only when it was told to stop, and reports a listener   *)
(* that failed.                                                            *)
THEOREM ApiResultTells == ApiSpec => []ResultTells
  BY ApiRunsServer, ServerEndsWell, PTL

(* When Run has returned, nothing of the server goes on. *)
THEOREM ApiNothingRunsAfterReturn == ApiSpec => []NothingRunsAfterReturn
  BY ApiRunsServer, ServerEndsWell, PTL

-----------------------------------------------------------------------------
(* A health rpc is an open call, and so is the watch of a client that left. *)
OpenRpcs ==
    \A c \in Stream : /\ rpc[c] # NoRpc => c \in calls
                      /\ c \in gone => rpc[c] # NoRpc

(* A name has a monitor only while or after it is registered. *)
MonitorsAreRegistered ==
    ~dead => \A s \in Service : services[s] # None => s \in registered \/ registering = s

(* A monitor is replaced only by a registration that ends the process. *)
KeepsMonitor(r) ==
    \/ r.at \in {"none", "lookup"}
    \/ r.monitor = services[r.service]
    \/ registering = r.service /\ registering \in registered
MonitorsAreKept == ~dead => \A c \in Stream : KeepsMonitor(rpc[c])

(* An undisturbed evaluation has passed no part that decides it. *)
Undecided(r) ==
    r.at = "read" /\ r.steady =>
        /\ r.monitor = "And" => \A p \in Part : p < r.part => reading[p] = "up"
        /\ r.monitor = "Or" => \A p \in Part : p < r.part => reading[p] # "up"
        /\ r.monitor = "Or" => (r.errs <=> \E p \in Part : p < r.part /\ reading[p] = "error")
ReadsUndecided == \A c \in Stream : Undecided(rpc[c])

ApiInv ==
    /\ ApiTypeOK
    /\ OpenRpcs
    /\ MonitorsAreRegistered
    /\ MonitorsAreKept
    /\ ReadsUndecided

USE NumPartsAssumption, StreamAssumption, ChangesAssumption, NoneAssumption
    DEF Part, Monitor, Reading, ServingStatus

(* No rpc is open and no name registered. *)
LEMMA InitApiInv == ApiInit => ApiInv
<1> SUFFICES ASSUME ApiInit PROVE ApiInv
  OBVIOUS
<1>1. TypeOK
  BY InitServerInv DEF ApiInit, ServerInv
<1>2. ApiTypeOK
  <2>1. reading \in [Part -> Reading] /\ rpc \in [Stream -> Rpc]
    BY DEF ApiInit, Rpc
  <2>2. /\ services \in [Service -> Monitor \union {None}]
        /\ told \in [Stream -> ServingStatus \union {"nothing"}]
    BY DEF ApiInit
  <2>3. changes \in 0 .. MaxChanges /\ dead \in BOOLEAN
    <3>1. changes = 0 /\ dead = FALSE
      BY DEF ApiInit
    <3>2. 0 \in 0 .. MaxChanges
      BY ChangesAssumption
    <3> QED
      BY <3>1, <3>2
  <2>4. registered \subseteq Service /\ gone \subseteq Stream \intersect calls
    BY DEF ApiInit
  <2>5. registering \in Service \union {None}
    BY DEF ApiInit
  <2> QED
    BY <1>1, <2>1, <2>2, <2>3, <2>4, <2>5 DEF ApiTypeOK
<1>3. OpenRpcs /\ MonitorsAreRegistered /\ MonitorsAreKept /\ ReadsUndecided
  BY DEF ApiInit, OpenRpcs, MonitorsAreRegistered, MonitorsAreKept, ReadsUndecided,
         KeepsMonitor, Undecided, NoRpc
<1> QED
  BY <1>2, <1>3 DEF ApiInv

(* Where an rpc is tells which record it is. *)
LEMMA RpcKinds ==
  ASSUME NEW r \in Rpc
  PROVE  /\ r.at = "none" <=> r = NoRpc
         /\ r.at = "lookup" => r \in LookupRpc
         /\ r.at = "tick" => r \in TickRpc
         /\ r.at = "read" => r \in ReadRpc
         /\ r.at = "answer" => r \in AnswerRpc
  BY DEF Rpc, NoRpc, LookupRpc, TickRpc, ReadRpc, AnswerRpc

(* The steps of one rpc: it becomes another record, and the rest of the    *)
(* health service stays.                                                   *)
LEMMA OneRpcMoves ==
  ASSUME ApiInv, TypeOK', NEW c \in Stream, NEW to \in Rpc,
         Goes(c, to), StatesUnchanged,
         told' \in [Stream -> ServingStatus \union {"nothing"}],
         calls' \ {c} = calls \ {c}, gone' \ {c} = gone \ {c}, gone' \subseteq Stream,
         to # NoRpc => c \in calls',
         c \in gone' => to # NoRpc,
         ~dead => KeepsMonitor(to),
         Undecided(to)
  PROVE  ApiInv'
<1>1. /\ rpc \in [Stream -> Rpc]
      /\ rpc' = [rpc EXCEPT ![c] = to]
      /\ UNCHANGED <<reading, changes, services, registered, registering, dead>>
      /\ rpc'[c] = to /\ \A d \in Stream \ {c} : rpc'[d] = rpc[d]
  BY DEF ApiInv, ApiTypeOK, Goes, StatesUnchanged
<1>2. OpenRpcs'
  BY <1>1 DEF ApiInv, OpenRpcs
<1>3. ApiTypeOK'
  <2>1. gone' \subseteq calls'
    BY <1>2 DEF OpenRpcs
  <2> QED
    BY <1>1, <2>1 DEF ApiInv, ApiTypeOK
<1>4. MonitorsAreRegistered'
  BY <1>1 DEF ApiInv, MonitorsAreRegistered
<1>5. MonitorsAreKept'
  BY <1>1 DEF ApiInv, MonitorsAreKept, KeepsMonitor
<1>6. ReadsUndecided'
  BY <1>1 DEF ApiInv, ReadsUndecided, Undecided
<1> QED
  BY <1>2, <1>3, <1>4, <1>5, <1>6 DEF ApiInv

(* The steps of the server leave the health service as it was. *)
LEMMA ServerMoves ==
  ASSUME ApiInv, TypeOK', UNCHANGED healthVars,
         \A c \in Stream : rpc[c] # NoRpc /\ c \in calls => c \in calls'
  PROVE  ApiInv'
<1> USE DEF healthVars
<1>1. OpenRpcs'
  BY DEF ApiInv, OpenRpcs
<1>2. ApiTypeOK'
  BY <1>1 DEF ApiInv, ApiTypeOK, OpenRpcs
<1> QED
  BY <1>1, <1>2 DEF ApiInv, MonitorsAreRegistered, MonitorsAreKept, KeepsMonitor,
                    ReadsUndecided, Undecided

(* A registration replaces a monitor only of a name it ends the process    *)
(* over.                                                                   *)
LEMMA MonitorServiceApiInv ==
  ASSUME ApiInv, NEW s \in Service, MonitorService(s)
  PROVE  ApiInv'
<1> USE DEF MonitorService, vars
<1>1. PICK impl \in Monitor \union {None} :
        services' = IF impl = None THEN services ELSE [services EXCEPT ![s] = impl]
  OBVIOUS
<1>2. ApiTypeOK'
  BY <1>1 DEF ApiInv, ApiTypeOK, TypeOK
<1>3. OpenRpcs' /\ ReadsUndecided'
  BY DEF ApiInv, OpenRpcs, ReadsUndecided, Undecided
<1>4. MonitorsAreRegistered'
  BY <1>1 DEF ApiInv, ApiTypeOK, MonitorsAreRegistered
<1>5. MonitorsAreKept'
  <2> SUFFICES ASSUME ~dead, NEW c \in Stream PROVE KeepsMonitor(rpc[c])'
    BY DEF MonitorsAreKept
  <2>1. rpc[c] \in Rpc /\ KeepsMonitor(rpc[c])
    BY DEF ApiInv, ApiTypeOK, MonitorsAreKept
  <2>2. CASE rpc[c].at \in {"none", "lookup"}
    BY <2>2 DEF KeepsMonitor
  <2>3. CASE rpc[c].at \notin {"none", "lookup"}
    <3>1. rpc[c].monitor \in Monitor /\ rpc[c].service \in Service
      BY <2>1, <2>3, RpcKinds DEF Rpc, NoRpc, LookupRpc, TickRpc, ReadRpc, AnswerRpc
    <3>2. rpc[c].monitor = services[rpc[c].service]
      BY <2>1, <2>3, <3>1 DEF KeepsMonitor
    <3>3. rpc[c].service \in registered
      BY <3>1, <3>2 DEF ApiInv, MonitorsAreRegistered
    <3>4. rpc[c].service # s => services'[rpc[c].service] = services[rpc[c].service]
      BY <1>1, <3>1 DEF ApiInv, ApiTypeOK
    <3> QED
      BY <3>2, <3>3, <3>4 DEF KeepsMonitor
  <2> QED
    BY <2>2, <2>3
<1> QED
  BY <1>2, <1>3, <1>4, <1>5 DEF ApiInv

(* A change of a part unsettles every evaluation that goes on. *)
LEMMA MarkApiInv ==
  ASSUME ApiInv, NEW p \in Part, NEW value \in Reading, Mark(p, value)
  PROVE  ApiInv'
<1> USE DEF Mark
<1>1. /\ rpc \in [Stream -> Rpc]
      /\ UNCHANGED <<vars, services, registered, registering, dead, told, gone>>
      /\ changes' \in 0 .. MaxChanges
      /\ reading' \in [Part -> Reading]
  BY DEF ApiInv, ApiTypeOK
<1>2. ASSUME NEW c \in Stream
      PROVE  /\ rpc'[c] \in Rpc
             /\ rpc'[c] = NoRpc <=> rpc[c] = NoRpc
             /\ KeepsMonitor(rpc[c]) => KeepsMonitor(rpc[c])'
             /\ Undecided(rpc[c])'
  <2>1. CASE rpc[c].at = "read"
    <3>1. rpc[c] \in ReadRpc
      BY <1>1, <2>1, RpcKinds
    <3>2. rpc'[c] = [rpc[c] EXCEPT !.steady = FALSE]
      BY <1>1, <2>1
    <3>3. rpc'[c] \in ReadRpc /\ ~rpc'[c].steady
      BY <3>1, <3>2 DEF ReadRpc
    <3>4. rpc'[c].at = rpc[c].at /\ rpc'[c].monitor = rpc[c].monitor
          /\ rpc'[c].service = rpc[c].service
      BY <3>1, <3>2 DEF ReadRpc
    <3> QED
      BY <1>1, <3>1, <3>3, <3>4 DEF Rpc, ReadRpc, NoRpc, KeepsMonitor, Undecided
  <2>2. CASE rpc[c].at # "read"
    <3>1. rpc'[c] = rpc[c]
      BY <1>1, <2>2
    <3> QED
      BY <1>1, <2>2, <3>1 DEF KeepsMonitor, Undecided
  <2> QED
    BY <2>1, <2>2
<1>3. rpc' \in [Stream -> Rpc]
  <2>1. rpc' = [c \in Stream |-> rpc'[c]]
    OBVIOUS
  <2> QED
    BY <1>2, <2>1
<1>4. ApiTypeOK'
  BY <1>1, <1>3 DEF ApiInv, ApiTypeOK, TypeOK, vars
<1>5. OpenRpcs' /\ MonitorsAreRegistered'
  BY <1>1, <1>2 DEF ApiInv, OpenRpcs, MonitorsAreRegistered, vars
<1>6. MonitorsAreKept' /\ ReadsUndecided'
  BY <1>1, <1>2 DEF ApiInv, MonitorsAreKept, ReadsUndecided
<1> QED
  BY <1>4, <1>5, <1>6 DEF ApiInv

(* One part is read: an undisturbed evaluation stays undecided, or answers *)
(* with the verdict of its monitor.                                        *)
LEMMA ReadPart ==
  ASSUME ApiInv, NEW c \in Stream, rpc[c].at = "read",
         NEW to, to = IF rpc[c].monitor = "And" THEN ReadAnd(rpc[c]) ELSE ReadOr(rpc[c])
  PROVE  /\ to \in ReadRpc \union AnswerRpc
         /\ to.monitor = rpc[c].monitor /\ to.service = rpc[c].service
         /\ Undecided(to)
         /\ to.at = "answer" /\ to.steady => to.status = Verdict(rpc[c].monitor)
<1> DEFINE r == rpc[c]
<1>1. /\ r \in ReadRpc
      /\ reading \in [Part -> Reading] /\ NumParts \in Nat \ {0}
      /\ Undecided(r)
  BY RpcKinds DEF ApiInv, ApiTypeOK, ReadsUndecided
<1>2. /\ r.part \in Part /\ reading[r.part] \in Reading /\ r.at = "read"
      /\ r.errs \in BOOLEAN /\ r.steady \in BOOLEAN
  BY <1>1 DEF ReadRpc
<1>3. ASSUME NEW status \in ServingStatus
      PROVE  /\ Answering(r, status) \in AnswerRpc
             /\ Answering(r, status).at = "answer" /\ Answering(r, status).steady = r.steady
             /\ Answering(r, status).status = status
             /\ Answering(r, status).monitor = r.monitor
             /\ Answering(r, status).service = r.service
  BY <1>1 DEF Answering, ReadRpc, AnswerRpc
<1>4. ASSUME NEW status \in ServingStatus, to = Answering(r, status),
             r.steady => status = Verdict(r.monitor)
      PROVE  /\ to \in ReadRpc \union AnswerRpc
             /\ to.monitor = r.monitor /\ to.service = r.service
             /\ Undecided(to)
             /\ to.at = "answer" /\ to.steady => to.status = Verdict(r.monitor)
  BY <1>3, <1>4 DEF Undecided
<1>5. CASE r.monitor = "And"
  <2>1. to = ReadAnd(r)
    BY <1>5
  <2>2. CASE reading[r.part] # "up"
    <3> DEFINE decisive == {p \in Part : reading[p] # "up"}
    <3>1. r.steady => \A q \in decisive : r.part <= q
      BY <1>1, <1>2, <1>5 DEF Undecided
    <3>2. r.part \in decisive /\ \A p, q \in decisive : p <= q /\ q <= p => p = q
      BY <1>2, <2>2
    <3>3. r.steady => (CHOOSE p \in decisive : \A q \in decisive : p <= q) = r.part
      BY <3>1, <3>2
    <3>4. r.steady => Verdict(r.monitor)
             = IF reading[r.part] = "down" THEN "NOT_SERVING" ELSE "SERVICE_UNKNOWN"
      BY <1>5, <3>2, <3>3 DEF Verdict
    <3>5. to = Answering(r, IF reading[r.part] = "down" THEN "NOT_SERVING" ELSE "SERVICE_UNKNOWN")
      BY <1>2, <2>1, <2>2 DEF ReadAnd
    <3> QED
      BY <1>4, <3>4, <3>5
  <2>3. CASE reading[r.part] = "up" /\ r.part = NumParts
    <3>1. r.steady => \A p \in Part : reading[p] = "up"
      BY <1>1, <1>2, <1>5, <2>3 DEF Undecided
    <3>2. r.steady => Verdict(r.monitor) = "SERVING"
      BY <1>5, <3>1 DEF Verdict
    <3>3. to = Answering(r, "SERVING")
      BY <2>1, <2>3 DEF ReadAnd
    <3> QED
      BY <1>4, <3>2, <3>3
  <2>4. CASE reading[r.part] = "up" /\ r.part # NumParts
    <3>1. to = [r EXCEPT !.part = @ + 1]
      BY <2>1, <2>4 DEF ReadAnd
    <3>2. /\ to \in ReadRpc /\ to.at = "read" /\ to.part = r.part + 1
          /\ to.monitor = r.monitor /\ to.service = r.service /\ to.steady = r.steady
      BY <1>1, <1>2, <2>4, <3>1 DEF ReadRpc
    <3>3. Undecided(to)
      BY <1>1, <1>2, <1>5, <2>4, <3>2 DEF Undecided
    <3> QED
      BY <3>2, <3>3
  <2> QED
    BY <2>2, <2>3, <2>4
<1>6. CASE r.monitor = "Or"
  <2> DEFINE errs == r.errs \/ reading[r.part] = "error"
  <2>1. to = ReadOr(r) /\ r.monitor # "And"
    BY <1>6
  <2>2. CASE reading[r.part] = "up"
    <3>1. Verdict(r.monitor) = "SERVING"
      BY <1>2, <2>1, <2>2 DEF Verdict
    <3>2. to = Answering(r, "SERVING")
      BY <2>1, <2>2 DEF ReadOr
    <3> QED
      BY <1>4, <3>1, <3>2
  <2>3. CASE reading[r.part] # "up" /\ r.part < NumParts
    <3>1. to = [r EXCEPT !.part = @ + 1, !.errs = errs]
      BY <2>1, <2>3 DEF ReadOr
    <3>2. errs \in BOOLEAN
      BY <1>2
    <3>3. errs <=> r.errs \/ reading[r.part] = "error"
      OBVIOUS
    <3> HIDE DEF errs
    <3>4. r.part + 1 \in Part
      BY <1>1, <1>2, <2>3
    <3>5. /\ to \in ReadRpc /\ to.at = "read" /\ to.part = r.part + 1 /\ to.errs = errs
          /\ to.monitor = r.monitor /\ to.service = r.service /\ to.steady = r.steady
      BY <1>1, <3>1, <3>2, <3>4 DEF ReadRpc
    <3>6. \A p \in Part : p < to.part <=> p < r.part \/ p = r.part
      BY <1>1, <1>2, <3>5
    <3>7. r.steady => \A p \in Part : p < to.part => reading[p] # "up"
      BY <1>1, <1>2, <1>6, <2>3, <3>6 DEF Undecided
    <3>8. r.steady => (errs <=> \E p \in Part : p < to.part /\ reading[p] = "error")
      BY <1>1, <1>2, <1>6, <3>3, <3>6 DEF Undecided
    <3>9. Undecided(to)
      BY <2>1, <3>5, <3>7, <3>8 DEF Undecided
    <3> QED
      BY <3>5, <3>9
  <2>4. CASE reading[r.part] # "up" /\ r.part = NumParts
    <3>1. r.steady => \A p \in Part : reading[p] # "up"
      BY <1>1, <1>2, <1>6, <2>4 DEF Undecided
    <3>2. r.steady => (errs <=> \E p \in Part : reading[p] = "error")
      BY <1>1, <1>2, <1>6, <2>4 DEF Undecided
    <3>3. r.steady => Verdict(r.monitor) = IF errs THEN "SERVICE_UNKNOWN" ELSE "NOT_SERVING"
      BY <1>1, <1>6, <3>1, <3>2 DEF Verdict
    <3>4. to = Answering(r, IF errs THEN "SERVICE_UNKNOWN" ELSE "NOT_SERVING")
      BY <2>1, <2>4 DEF ReadOr
    <3> QED
      BY <1>4, <3>3, <3>4
  <2> QED
    BY <1>2, <2>2, <2>3, <2>4
<1> QED
  BY <1>1, <1>5, <1>6 DEF ReadRpc

-----------------------------------------------------------------------------
(* A call that closes leaves no rpc behind. *)
LEMMA ClosesApiInv ==
  ASSUME ApiInv, TypeOK', NEW c \in Stream, Closes(c), StatesUnchanged
  PROVE  ApiInv'
<1>1. NoRpc \in Rpc /\ KeepsMonitor(NoRpc) /\ Undecided(NoRpc)
  BY DEF Rpc, NoRpc, KeepsMonitor, Undecided
<1>2. Goes(c, NoRpc) /\ calls' = calls \ {c} /\ gone' = gone \ {c}
  BY DEF Closes, End
<1>3. told' \in [Stream -> ServingStatus \union {"nothing"}]
  BY DEF Closes, ApiInv, ApiTypeOK
<1>4. gone' \subseteq Stream
  BY <1>2 DEF ApiInv, ApiTypeOK
<1> QED
  BY <1>1, <1>2, <1>3, <1>4, OneRpcMoves

(* A call that stays open goes from one record to the next. *)
LEMMA OpenRpcMoves ==
  ASSUME ApiInv, TypeOK', NEW c \in Stream, NEW to \in Rpc \ {NoRpc},
         Goes(c, to), StatesUnchanged, rpc[c] # NoRpc,
         UNCHANGED <<calls, gone>>,
         told' \in [Stream -> ServingStatus \union {"nothing"}],
         ~dead => KeepsMonitor(to), Undecided(to)
  PROVE  ApiInv'
<1>1. c \in calls' /\ gone' \subseteq Stream
  BY DEF ApiInv, ApiTypeOK, OpenRpcs
<1> QED
  BY <1>1, OneRpcMoves

(* Every step of a health rpc preserves ApiInv. *)
LEMMA HealthRpcApiInv ==
  ASSUME ApiInv, TypeOK', NEW c \in Stream, HealthRpc(c), ~dead
  PROVE  ApiInv'
<1> DEFINE r == rpc[c]
<1>1. /\ r \in Rpc /\ KeepsMonitor(r) /\ Undecided(r)
      /\ services \in [Service -> Monitor \union {None}]
      /\ told \in [Stream -> ServingStatus \union {"nothing"}]
  BY DEF ApiInv, ApiTypeOK, MonitorsAreKept, ReadsUndecided
<1>2. /\ r.at = "lookup" => r \in LookupRpc /\ r # NoRpc
      /\ r.at = "tick" => r \in TickRpc /\ r # NoRpc
      /\ r.at = "read" => r \in ReadRpc /\ r # NoRpc
      /\ r.at = "answer" => r \in AnswerRpc /\ r # NoRpc
  BY <1>1, RpcKinds DEF NoRpc
<1>3. CASE GetMonitor(c)
  <2> DEFINE s == r.service
             watching == Watching(services[s], s, FirstStatus)
             checking == Evaluating("Check", services[s], s, FirstStatus)
  <2>1. r \in LookupRpc /\ r # NoRpc /\ StatesUnchanged
    BY <1>2, <1>3 DEF GetMonitor
  <2>2. s \in Service /\ r.op \in {"Check", "Watch"}
    BY <2>1 DEF LookupRpc
  <2>3. CASE services[s] = None
    <3>1. Closes(c)
      BY <1>3, <2>3 DEF GetMonitor
    <3> QED
      BY <2>1, <3>1, ClosesApiInv
  <2>4. CASE services[s] # None
    <3>1. services[s] \in Monitor
      BY <1>1, <2>2, <2>4
    <3>2. /\ watching \in TickRpc /\ watching.at = "tick"
          /\ watching.monitor = services[s] /\ watching.service = s
      BY <2>2, <3>1 DEF Watching, TickRpc, FirstStatus
    <3>3. checking \in ReadRpc
      <4>1. 1 \in Part
        OBVIOUS
      <4> QED
        BY <2>2, <3>1, <4>1 DEF Evaluating, ReadRpc, FirstStatus
    <3>4. /\ checking.at = "read" /\ checking.part = 1 /\ checking.errs = FALSE
          /\ checking.monitor = services[s] /\ checking.service = s
      BY DEF Evaluating
    <3>5. Undecided(watching) /\ Undecided(checking)
      BY <3>2, <3>4 DEF Undecided
    <3>6. KeepsMonitor(watching) /\ KeepsMonitor(checking)
      BY <3>2, <3>4 DEF KeepsMonitor
    <3>7. /\ watching \in Rpc \ {NoRpc} /\ checking \in Rpc \ {NoRpc}
      BY <3>2, <3>3, <3>4 DEF Rpc, NoRpc
    <3>8. /\ Goes(c, IF r.op = "Watch" THEN watching ELSE checking)
          /\ UNCHANGED <<vars, told, gone>>
      BY <1>3, <2>4 DEF GetMonitor
    <3>9. UNCHANGED <<calls, gone>> /\ UNCHANGED told
      BY <3>8 DEF vars
    <3> HIDE DEF watching, checking, s
    <3>10. ASSUME NEW to \in {watching, checking}, Goes(c, to) PROVE ApiInv'
      BY <1>1, <2>1, <3>5, <3>6, <3>7, <3>9, <3>10, OpenRpcMoves
    <3> QED
      BY <3>8, <3>10
  <2> QED
    BY <2>3, <2>4
<1>4. CASE Tick(c)
  <2> DEFINE to == Evaluating("Watch", r.monitor, r.service, r.last)
  <2>1. r \in TickRpc /\ r # NoRpc
    BY <1>2, <1>4 DEF Tick
  <2>2. to \in ReadRpc
    <3>1. 1 \in Part
      OBVIOUS
    <3> QED
      BY <2>1, <3>1 DEF Evaluating, ReadRpc, TickRpc
  <2>3. /\ to.at = "read" /\ to.part = 1 /\ to.errs = FALSE
        /\ to.monitor = r.monitor /\ to.service = r.service
    BY DEF Evaluating
  <2>4. Undecided(to) /\ KeepsMonitor(to)
    BY <1>1, <2>1, <2>3 DEF Undecided, KeepsMonitor, TickRpc
  <2>5. to \in Rpc \ {NoRpc}
    BY <2>2, <2>3 DEF Rpc, NoRpc
  <2>6. Goes(c, to) /\ StatesUnchanged /\ UNCHANGED <<calls, gone>> /\ UNCHANGED told
    BY <1>4 DEF Tick, vars
  <2> HIDE DEF to
  <2> QED
    BY <1>1, <2>1, <2>4, <2>5, <2>6, OpenRpcMoves
<1>5. CASE WatchCancelled(c)
  BY <1>5, ClosesApiInv DEF WatchCancelled
<1>6. CASE Healthy(c)
  <2>1. PICK to : to = IF r.monitor = "And" THEN ReadAnd(r) ELSE ReadOr(r)
    OBVIOUS
  <2>2. /\ to \in ReadRpc \union AnswerRpc
        /\ to.monitor = r.monitor /\ to.service = r.service /\ Undecided(to)
    BY <1>6, <2>1, ReadPart DEF Healthy
  <2>3. r \in ReadRpc /\ r # NoRpc
    BY <1>2, <1>6 DEF Healthy
  <2>4. to \in Rpc \ {NoRpc} /\ KeepsMonitor(to)
    BY <1>1, <2>2, <2>3 DEF Rpc, NoRpc, KeepsMonitor, ReadRpc, AnswerRpc
  <2>5. Goes(c, to) /\ StatesUnchanged /\ UNCHANGED <<calls, gone>> /\ UNCHANGED told
    BY <1>6, <2>1 DEF Healthy, vars
  <2> QED
    BY <1>1, <2>2, <2>3, <2>4, <2>5, OpenRpcMoves
<1>7. CASE CheckReturns(c)
  BY <1>7, ClosesApiInv DEF CheckReturns
<1>8. CASE Compare(c)
  <2> DEFINE to == Watching(r.monitor, r.service, r.status)
  <2>1. r \in AnswerRpc /\ r # NoRpc /\ StatesUnchanged
    BY <1>2, <1>8 DEF Compare
  <2>2. /\ to \in TickRpc /\ to.at = "tick"
        /\ to.monitor = r.monitor /\ to.service = r.service
    BY <2>1 DEF Watching, TickRpc, AnswerRpc
  <2>3. to \in Rpc \ {NoRpc} /\ Undecided(to) /\ KeepsMonitor(to)
    BY <1>1, <2>1, <2>2 DEF Rpc, NoRpc, Undecided, KeepsMonitor, AnswerRpc
  <2>4. r.status \in ServingStatus
    BY <2>1 DEF AnswerRpc
  <2>5. CASE Closes(c)
    BY <2>1, <2>5, ClosesApiInv
  <2>6. CASE ~Closes(c)
    <3>1. Goes(c, to) /\ UNCHANGED <<calls, gone>>
      BY <1>8, <2>6 DEF Compare, vars
    <3>2. told' \in [Stream -> ServingStatus \union {"nothing"}]
      BY <1>1, <1>8, <2>4, <2>6 DEF Compare
    <3> HIDE DEF to
    <3> QED
      BY <2>1, <2>3, <3>1, <3>2, OpenRpcMoves
  <2> QED
    BY <2>5, <2>6
<1> QED
  BY <1>3, <1>4, <1>5, <1>6, <1>7, <1>8 DEF HealthRpc

(* Every step of the Api preserves ApiInv. *)
LEMMA NextApiInv == ApiInv /\ TypeOK' /\ [ApiNext]_apiVars => ApiInv'
<1> SUFFICES ASSUME ApiInv, TypeOK', [ApiNext]_apiVars PROVE ApiInv'
  OBVIOUS
<1>1. CASE UNCHANGED apiVars
  <2>1. UNCHANGED healthVars /\ UNCHANGED calls
    BY <1>1 DEF apiVars, vars
  <2> QED
    BY <2>1, ServerMoves
<1>2. CASE Run
  <2>1. UNCHANGED healthVars /\ UNCHANGED calls
    BY <1>2 DEF Run, RunNext, ServeStarts, ServeReturns, StopBegins, StopReturns, WaitReturns
  <2> QED
    BY <2>1, ServerMoves
<1>3. CASE (Cancel \/ ServeFails) /\ UNCHANGED healthVars
  <2>1. UNCHANGED calls
    BY <1>3 DEF Cancel, ServeFails
  <2> QED
    BY <1>3, <2>1, ServerMoves
<1>4. CASE ~dead /\ RegisterService
  <2> USE <1>4 DEF RegisterService
  <2>1. ApiTypeOK'
    BY DEF ApiInv, ApiTypeOK, TypeOK, vars
  <2>2. OpenRpcs' /\ MonitorsAreRegistered' /\ ReadsUndecided'
    BY DEF ApiInv, OpenRpcs, MonitorsAreRegistered, ReadsUndecided, Undecided, vars
  <2>3. MonitorsAreKept'
    BY DEF ApiInv, MonitorsAreKept, KeepsMonitor
  <2> QED
    BY <2>1, <2>2, <2>3 DEF ApiInv
<1>5. ASSUME NEW c \in Call, OtherCall(c) PROVE ApiInv'
  <2>1. UNCHANGED healthVars
    BY <1>5 DEF OtherCall, StatesUnchanged, healthVars
  <2>2. \A d \in Stream : rpc[d] # NoRpc /\ d \in calls => d \in calls'
    BY <1>5 DEF OtherCall, Accept, End
  <2> QED
    BY <2>1, <2>2, ServerMoves
<1>6. ASSUME NEW c \in Stream, Leave(c) PROVE ApiInv'
  <2> USE <1>6 DEF Leave, vars
  <2>1. rpc[c] \in Rpc /\ rpc[c] # NoRpc
    BY RpcKinds DEF ApiInv, ApiTypeOK, IsWatch
  <2>2. OpenRpcs'
    BY <2>1 DEF ApiInv, OpenRpcs
  <2>3. ApiTypeOK'
    BY <2>2 DEF ApiInv, ApiTypeOK, OpenRpcs
  <2> QED
    BY <2>2, <2>3 DEF ApiInv, MonitorsAreRegistered, MonitorsAreKept, KeepsMonitor,
                      ReadsUndecided, Undecided
<1>7. ASSUME NEW c \in Stream, NEW s \in Service, NEW op \in {"Check", "Watch"}, Asks(c, op, s)
      PROVE  ApiInv'
  <2> DEFINE to == [at |-> "lookup", op |-> op, service |-> s]
  <2>1. to \in LookupRpc /\ to.at = "lookup"
    BY DEF LookupRpc
  <2>2. to \in Rpc /\ to # NoRpc /\ KeepsMonitor(to) /\ Undecided(to)
    BY <2>1 DEF Rpc, NoRpc, KeepsMonitor, Undecided
  <2>3. Goes(c, to) /\ StatesUnchanged /\ calls' = calls \union {c} /\ UNCHANGED <<told, gone>>
    BY <1>7 DEF Asks, Accept
  <2>4. told' \in [Stream -> ServingStatus \union {"nothing"}] /\ gone' \subseteq Stream
    BY <2>3 DEF ApiInv, ApiTypeOK
  <2> HIDE DEF to
  <2> QED
    BY <2>2, <2>3, <2>4, OneRpcMoves
<1> QED
  BY <1>1, <1>2, <1>3, <1>4, <1>5, <1>6, <1>7, MonitorServiceApiInv, MarkApiInv,
     HealthRpcApiInv DEF ApiNext, Environment

(* Every behaviour of the Api keeps ApiInv. *)
LEMMA ApiInvariant == ApiSpec => []ApiInv
<1>1. TypeOK /\ ResultTells /\ NothingRunsAfterReturn => TypeOK
  OBVIOUS
<1> QED
  BY <1>1, ApiRunsServer, ServerEndsWell, InitApiInv, NextApiInv, PTL DEF ApiSpec

(* The Api, its health service and its rpcs keep their types. *)
THEOREM ApiTypeCorrect == ApiSpec => []ApiTypeOK
<1>1. ApiInv => ApiTypeOK
  BY DEF ApiInv
<1> QED
  BY <1>1, ApiInvariant, PTL

(* Whatever is registered under whichever name, no health rpc goes on with *)
(* a monitor that was replaced.                                            *)
THEOREM MonitorsStayCurrent == ApiSpec => []MonitorIsCurrent
<1>1. ApiInv => MonitorIsCurrent
  <2> SUFFICES ASSUME ApiInv, ~dead, registering = None, NEW c \in Stream, HasMonitor(c)
               PROVE  rpc[c].monitor = services[rpc[c].service]
    BY DEF MonitorIsCurrent
  <2>1. rpc[c] \in Rpc /\ KeepsMonitor(rpc[c]) /\ rpc[c].at \notin {"none", "lookup"}
    BY DEF ApiInv, ApiTypeOK, MonitorsAreKept, HasMonitor
  <2>2. rpc[c].service \in Service
    BY <2>1 DEF Rpc, NoRpc, LookupRpc, TickRpc, ReadRpc, AnswerRpc
  <2> QED
    BY <2>1, <2>2 DEF KeepsMonitor
<1> QED
  BY <1>1, ApiInvariant, PTL

(* What Check and Watch find of a monitor that stays as it is while they   *)
(* ask it is the verdict on its parts at one instant, for any number of    *)
(* parts.                                                                  *)
THEOREM AnswersAreSteady == ApiSpec => SteadyAnswers
<1> DEFINE Steady(c) == rpc[c].at = "read" /\ rpc'[c].at = "answer" /\ rpc'[c].steady
                          => rpc'[c].status = Verdict(rpc[c].monitor)
<1>1. ApiInv /\ [ApiNext]_apiVars => [\A c \in Stream : Steady(c)]_apiVars
  <2> SUFFICES ASSUME ApiInv, ApiNext, NEW c \in Stream, rpc[c].at = "read",
                      rpc'[c].at = "answer", rpc'[c].steady
               PROVE  rpc'[c].status = Verdict(rpc[c].monitor)
    OBVIOUS
  <2>1. rpc'[c] # rpc[c]
    OBVIOUS
  <2>2. rpc \in [Stream -> Rpc]
    BY DEF ApiInv, ApiTypeOK
  <2>3. \A d \in Stream : \A to : Goes(d, to) => IF d = c THEN rpc'[c] = to ELSE rpc'[c] = rpc[c]
    BY <2>2 DEF Goes
  <2>4. ~ \E p \in Part, value \in Reading : Mark(p, value)
    <3> SUFFICES ASSUME NEW p \in Part, NEW value \in Reading, Mark(p, value) PROVE FALSE
      OBVIOUS
    <3>1. rpc[c] \in ReadRpc
      BY <2>2, RpcKinds
    <3>2. rpc'[c] = [rpc[c] EXCEPT !.steady = FALSE]
      BY DEF Mark
    <3> QED
      BY <3>1, <3>2 DEF ReadRpc
  <2>5. PICK d \in Stream : HealthRpc(d) \/ \E s \in Service, op \in {"Check", "Watch"} : Asks(d, op, s)
    <3>1. ~Run /\ ~RegisterService
      BY <2>1 DEF Run, RegisterService, healthVars
    <3>2. ~((Cancel \/ ServeFails) /\ UNCHANGED healthVars) /\ ~UNCHANGED apiVars
      BY <2>1 DEF healthVars, apiVars
    <3>3. /\ \A s \in Service : ~MonitorService(s)
          /\ \A e \in Call : ~OtherCall(e)
          /\ \A e \in Stream : ~Leave(e)
      BY <2>1 DEF MonitorService, OtherCall, Leave
    <3> QED
      BY <2>4, <3>1, <3>2, <3>3 DEF ApiNext, Environment
  <2>6. ~ \E s \in Service, op \in {"Check", "Watch"} : Asks(d, op, s)
    <3> SUFFICES ASSUME NEW s, NEW op, Asks(d, op, s) PROVE FALSE
      OBVIOUS
    <3> DEFINE to == [at |-> "lookup", op |-> op, service |-> s]
    <3>1. to.at = "lookup" /\ Goes(d, to)
      BY DEF Asks
    <3> HIDE DEF to
    <3> QED
      BY <2>1, <2>3, <3>1
  <2>7. /\ ~GetMonitor(d) /\ ~Tick(d) /\ ~WatchCancelled(d)
        /\ ~CheckReturns(d) /\ ~Compare(d)
    BY <2>1, <2>3 DEF GetMonitor, Tick, WatchCancelled, CheckReturns, Compare, Closes
  <2>8. Healthy(d) /\ d = c
    BY <2>1, <2>3, <2>5, <2>6, <2>7 DEF HealthRpc, Healthy
  <2>9. rpc'[c] = IF rpc[c].monitor = "And" THEN ReadAnd(rpc[c]) ELSE ReadOr(rpc[c])
    BY <2>3, <2>8 DEF Healthy
  <2> QED
    BY <2>9, ReadPart
<1> QED
  BY <1>1, ApiInvariant, PTL DEF ApiSpec, SteadyAnswers
=============================================================================
