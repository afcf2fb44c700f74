------------------------------- MODULE GrpcApi -------------------------------
(***************************************************************************)
(* The Api of package grpc inside a running server: RegisterService, the   *)
(* health service of internal/grpchealth it registers, and the monitors of *)
(* package health that service reads.  A monitor combines parts that       *)
(* change while it reads them one after the other.  Calls with no rpc are  *)
(* those of other services, or of the net/http server.                     *)
(***************************************************************************)
EXTENDS ServerApp, Integers

CONSTANTS
    Stream,         \* the calls that may be health rpcs
    Service,
    NumParts,       \* the parts of each monitor
    MaxChanges,     \* bound on the changes of the parts
    None            \* no monitor

ASSUME NumPartsAssumption == NumParts \in Nat \ {0}
ASSUME StreamAssumption == Stream \subseteq Call
ASSUME ChangesAssumption == MaxChanges \in Nat

(* An implementation is named for the way it combines the parts. *)
Monitor == {"And", "Or"}
ASSUME NoneAssumption == None \notin Monitor \union Service

Part == 1 .. NumParts
Reading == {"up", "down", "error"}
ServingStatus == {"UNKNOWN", "SERVING", "NOT_SERVING", "SERVICE_UNKNOWN"}

VARIABLES
    reading,        \* what each part answers
    changes,
    services,       \* the monitor of each service name
    registered,     \* the services of the grpc server
    registering,    \* the RegisterService between its two steps
    dead,           \* the grpc server ended the process
    rpc,            \* the health rpc of each call
    told,           \* the status each open watch has sent last
    gone            \* the open watches whose client has left

healthVars == <<reading, changes, services, registered, registering, dead, rpc, told, gone>>
apiVars == <<vars, healthVars>>

NoRpc == [at |-> "none"]
Watching(m, s, last) ==
    [at |-> "tick", op |-> "Watch", monitor |-> m, service |-> s, last |-> last]

(* An evaluation of a monitor: the next part, whether an earlier one had   *)
(* an error and, for the property, whether no part changed since it began. *)
Evaluating(op, m, s, last) ==
    [at |-> "read", op |-> op, monitor |-> m, service |-> s, last |-> last,
     part |-> 1, errs |-> FALSE, steady |-> TRUE]
Answering(r, status) ==
    [at |-> "answer", op |-> r.op, monitor |-> r.monitor, service |-> r.service,
     last |-> r.last, status |-> status, steady |-> r.steady]

LookupRpc == [at : {"lookup"}, op : {"Check", "Watch"}, service : Service]
TickRpc == [at : {"tick"}, op : {"Watch"}, monitor : Monitor, service : Service,
            last : ServingStatus]
ReadRpc == [at : {"read"}, op : {"Check", "Watch"}, monitor : Monitor, service : Service,
            last : ServingStatus, part : Part, errs : BOOLEAN, steady : BOOLEAN]
AnswerRpc == [at : {"answer"}, op : {"Check", "Watch"}, monitor : Monitor, service : Service,
              last : ServingStatus, status : ServingStatus, steady : BOOLEAN]
Rpc == {NoRpc} \union LookupRpc \union TickRpc \union ReadRpc \union AnswerRpc

ApiTypeOK ==
    /\ TypeOK
    /\ reading \in [Part -> Reading]
    /\ changes \in 0 .. MaxChanges
    /\ services \in [Service -> Monitor \union {None}]
    /\ registered \subseteq Service
    /\ registering \in Service \union {None}
    /\ dead \in BOOLEAN
    /\ rpc \in [Stream -> Rpc]
    /\ told \in [Stream -> ServingStatus \union {"nothing"}]
    /\ gone \subseteq Stream \intersect calls

ApiInit ==
    /\ Init
    /\ reading = [p \in Part |-> "down"]
    /\ changes = 0
    /\ services = [s \in Service |-> None]
    /\ registered = {}
    /\ registering = None
    /\ dead = FALSE
    /\ rpc = [c \in Stream |-> NoRpc]
    /\ told = [c \in Stream |-> "nothing"]
    /\ gone = {}

-----------------------------------------------------------------------------
(* RegisterService: the monitor, if the implementation is one, and then    *)
(* the grpc server, which ends the process over a name it has, or once it  *)
(* has served.                                                             *)
MonitorService(s) ==
    /\ kind = "grpc" /\ registering = None
    /\ registering' = s
    /\ \E impl \in Monitor \union {None} :
          services' = IF impl = None THEN services ELSE [services EXCEPT ![s] = impl]
    /\ UNCHANGED <<vars, reading, changes, registered, dead, rpc, told, gone>>

(* Mutant of RegisterService: a second implementation takes the name. *)
Reregisters ==
    /\ registering # None
    /\ registering' = None
    /\ registered' = registered \union {registering}
    /\ UNCHANGED <<vars, reading, changes, services, dead, rpc, told, gone>>

RegisterService ==
    /\ registering # None
    /\ registering' = None
    /\ registered' = registered \union {registering}
    /\ dead' = (registering \in registered \/ serve # "starting")
    /\ UNCHANGED <<vars, reading, changes, services, rpc, told, gone>>

(* MarkHealthy and MarkUnhealthy of a Binary, and errors of other monitors. *)
Mark(p, value) ==
    /\ kind = "grpc" /\ changes < MaxChanges
    /\ reading[p] # value
    /\ reading' = [reading EXCEPT ![p] = value]
    /\ changes' = changes + 1
    /\ rpc' = [c \in Stream |-> IF rpc[c].at = "read" THEN [rpc[c] EXCEPT !.steady = FALSE]
                              ELSE rpc[c]]
    /\ UNCHANGED <<vars, services, registered, registering, dead, told, gone>>

-----------------------------------------------------------------------------
Goes(c, to) == rpc' = [rpc EXCEPT ![c] = to]
StatesUnchanged == UNCHANGED <<reading, changes, services, registered, registering, dead>>

(* The call is over, and its client no longer listens. *)
Closes(c) ==
    /\ End(c)
    /\ Goes(c, NoRpc)
    /\ told' = [told EXCEPT ![c] = "nothing"]
    /\ gone' = gone \ {c}

(* Mutant of FirstStatus: a watch takes its service for unhealthy. *)
AssumesDown == "NOT_SERVING"

(* The zero value, which no monitor's status equals. *)
FirstStatus == "UNKNOWN"

Asks(c, op, s) ==
    /\ kind = "grpc" /\ Accept(c)
    /\ Goes(c, [at |-> "lookup", op |-> op, service |-> s])
    /\ UNCHANGED <<told, gone>> /\ StatesUnchanged

GetMonitor(c) ==
    /\ rpc[c].at = "lookup"
    /\ LET s == rpc[c].service IN
       \/ services[s] = None /\ Closes(c)
       \/ /\ services[s] # None
          /\ Goes(c, IF rpc[c].op = "Watch" THEN Watching(services[s], s, FirstStatus)
                     ELSE Evaluating("Check", services[s], s, FirstStatus))
          /\ UNCHANGED <<vars, told, gone>>
    /\ StatesUnchanged

Tick(c) ==
    /\ rpc[c].at = "tick"
    /\ Goes(c, Evaluating("Watch", rpc[c].monitor, rpc[c].service, rpc[c].last))
    /\ UNCHANGED <<vars, told, gone>> /\ StatesUnchanged

(* Mutant of WatchCancelled: the select does not wait for the context. *)
NeverCancelled(c) == FALSE

(* A watch whose context is done ends at the next select. *)
WatchCancelled(c) ==
    /\ rpc[c].at = "tick"
    /\ c \in gone
    /\ Closes(c)
    /\ StatesUnchanged

(* Mutant of ReadAnd: the last answer stands for all. *)
ReadLast(r) ==
    IF r.part < NumParts THEN [r EXCEPT !.part = @ + 1]
    ELSE Answering(r, CASE reading[r.part] = "up" -> "SERVING"
                        [] reading[r.part] = "down" -> "NOT_SERVING"
                        [] OTHER -> "SERVICE_UNKNOWN")

ReadAnd(r) ==
    CASE reading[r.part] = "error" -> Answering(r, "SERVICE_UNKNOWN")
      [] reading[r.part] = "down" -> Answering(r, "NOT_SERVING")
      [] OTHER -> IF r.part = NumParts THEN Answering(r, "SERVING")
                  ELSE [r EXCEPT !.part = @ + 1]

ReadOr(r) ==
    LET errs == r.errs \/ reading[r.part] = "error" IN
    IF reading[r.part] = "up" THEN Answering(r, "SERVING")
    ELSE IF r.part < NumParts THEN [r EXCEPT !.part = @ + 1, !.errs = errs]
    ELSE Answering(r, IF errs THEN "SERVICE_UNKNOWN" ELSE "NOT_SERVING")

Healthy(c) ==
    /\ rpc[c].at = "read"
    /\ Goes(c, IF rpc[c].monitor = "And" THEN ReadAnd(rpc[c]) ELSE ReadOr(rpc[c]))
    /\ UNCHANGED <<vars, told, gone>> /\ StatesUnchanged

CheckReturns(c) ==
    /\ rpc[c].at = "answer" /\ rpc[c].op = "Check"
    /\ Closes(c)
    /\ StatesUnchanged

(* Send is left out when nothing changed; it fails when the client left. *)
Compare(c) ==
    /\ rpc[c].at = "answer" /\ rpc[c].op = "Watch"
    /\ LET r == rpc[c]
           again == Goes(c, Watching(r.monitor, r.service, r.status))
       IN  \/ r.status = r.last /\ again /\ UNCHANGED <<vars, told, gone>>
           \/ /\ r.status # r.last
              /\ told' = [told EXCEPT ![c] = r.status]
              /\ again /\ UNCHANGED <<vars, gone>>
           \/ r.status # r.last /\ c \in gone /\ Closes(c)
    /\ StatesUnchanged

(* A client leaves: the context of its call is done.  Check does not look. *)
HasMonitor(c) == rpc[c].at \notin {"none", "lookup"}
IsWatch(c) == rpc[c].at # "none" /\ rpc[c].op = "Watch"

Leave(c) ==
    /\ c \notin gone
    /\ IsWatch(c)
    /\ gone' = gone \union {c}
    /\ UNCHANGED <<vars, reading, changes, services, registered, registering, dead, rpc, told>>

(* The calls of other services. *)
OtherCall(c) ==
    /\ Accept(c) \/ (End(c) /\ (c \in Stream => rpc[c] = NoRpc))
    /\ UNCHANGED <<rpc, told, gone>> /\ StatesUnchanged

-----------------------------------------------------------------------------
HealthRpc(c) ==
    GetMonitor(c) \/ Tick(c) \/ WatchCancelled(c) \/ Healthy(c) \/ CheckReturns(c) \/ Compare(c)

Run == RunNext /\ UNCHANGED healthVars

Environment ==
    \/ (Cancel \/ ServeFails) /\ UNCHANGED healthVars
    \/ \E s \in Service : MonitorService(s)
    \/ RegisterService
    \/ \E p \in Part, value \in Reading : Mark(p, value)
    \/ \E c \in Call : OtherCall(c)
    \/ \E c \in Stream : Leave(c)
    \/ \E c \in Stream, s \in Service, op \in {"Check", "Watch"} : Asks(c, op, s)

ApiNext ==
    \/ ~dead /\ result = "none" /\ (Run \/ Environment \/ \E c \in Stream : HealthRpc(c))
    \/ (dead \/ result # "none") /\ UNCHANGED apiVars

(* The goroutines of Run and of the health rpcs are scheduled, a watch's   *)
(* timer fires, and a select does not pass over a context that is done for *)
(* ever; clients, other handlers and failures need do nothing.             *)
Fairness ==
    /\ WF_apiVars(~dead /\ Run)
    /\ \A c \in Stream : /\ WF_apiVars(~dead /\ HealthRpc(c))
                         /\ SF_apiVars(~dead /\ WatchCancelled(c))

ApiSpec == ApiInit /\ [][ApiNext]_apiVars /\ Fairness

-----------------------------------------------------------------------------
(* What the code of And and Or answers for the parts of one instant.  And: *)
(* the first part that is not up decides.  Or: a part that is up decides,  *)
(* also beside parts that err; the comment of OrMonitor says of the errors *)
(* that they are collected and returned, which the code does only if no    *)
(* part is up.                                                             *)
Verdict(m) ==
    LET decisive == {p \in Part : reading[p] # IF m = "And" THEN "up" ELSE "down"} IN
    CASE m = "And" /\ decisive = {} -> "SERVING"
      [] m = "And" /\ decisive # {} ->
            LET p == CHOOSE p \in decisive : \A q \in decisive : p <= q
            IN  IF reading[p] = "down" THEN "NOT_SERVING" ELSE "SERVICE_UNKNOWN"
      [] OTHER ->
            IF \E p \in Part : reading[p] = "up" THEN "SERVING"
            ELSE IF decisive = {} THEN "NOT_SERVING" ELSE "SERVICE_UNKNOWN"

(* What the health service finds by asking the parts of a monitor one      *)
(* after the other, with the early returns of And and Or, is the verdict   *)
(* on the parts as they are together, unless one changed while it asked:   *)
(* only then may the answer hold of no single instant.                     *)
SteadyAnswers ==
    [][\A c \in Stream :
          rpc[c].at = "read" /\ rpc'[c].at = "answer" /\ rpc'[c].steady
             => rpc'[c].status = Verdict(rpc[c].monitor)]_apiVars

(* A watch keeps the monitor it found when it began, and no watch is left  *)
(* with one that was replaced: a name is registered twice only by a        *)
(* process that ends over it.                                              *)
MonitorIsCurrent ==
    ~dead /\ registering = None =>
        \A c \in Stream : HasMonitor(c) => rpc[c].monitor = services[rpc[c].service]

(* When its monitor's parts stop changing, a watch comes to tell its       *)
(* client what they say, also if nothing ever changed since it began.      *)
WatchConverges ==
    \A c \in Stream :
        <>[](IsWatch(c) /\ c \notin gone /\ ~dead)
            => <>[](HasMonitor(c) /\ told[c] = Verdict(rpc[c].monitor))

(* The rpc of a client that has left comes to its end. *)
ClientGoneEnds == \A c \in Stream : (c \in gone) ~> (c \notin gone \/ dead)

(* A server that is told to stop, or whose listener fails, comes to an end *)
(* unless a call stays open for ever: nothing else keeps Run from          *)
(* returning, and no timeout takes its place.                              *)
HangsOnlyOnOpenCalls ==
    /\ <>(ctx = "cancelled" \/ broken)
    /\ \A c \in Call : []<>(c \notin calls)
    => <>(result # "none" \/ dead)
=============================================================================
