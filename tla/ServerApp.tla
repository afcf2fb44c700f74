------------------------------ MODULE ServerApp ------------------------------
(***************************************************************************)
(* App.Run of internal/grpcserver and internal/httpserver: one goroutine   *)
(* serves the listener, one waits for the end of the context, the          *)
(* application's or the group's, and stops the server, and Run waits for   *)
(* both.  The two packages differ in the server they call.                 *)
(***************************************************************************)
CONSTANT Call     \* the calls that may be open at a time

VARIABLES
    kind,      \* the server: that of grpc or of net/http
    ctx,       \* the application's context
    serve,     \* the goroutine of Serve
    stopper,   \* the goroutine of GracefulStop or Shutdown
    group,     \* the first error of the errgroup
    result,    \* what Run returned
    calls,     \* the calls, or connections, that are open
    broken     \* history: the listener failed under Serve

vars == <<kind, ctx, serve, stopper, group, result, calls, broken>>

TypeOK ==
    /\ kind \in {"grpc", "http"}
    /\ ctx \in {"running", "cancelled"}
    /\ serve \in {"starting", "serving", "returned"}
    /\ stopper \in {"waiting", "stopping", "returned"}
    /\ group \in {"nil", "stopped", "failed"}
    /\ result \in {"none", "nil", "error"}
    /\ calls \subseteq Call
    /\ broken \in BOOLEAN

Init ==
    /\ kind \in {"grpc", "http"}
    /\ ctx = "running"
    /\ serve = "starting"
    /\ stopper = "waiting"
    /\ group = "nil"
    /\ result = "none"
    /\ calls = {}
    /\ broken = FALSE

-----------------------------------------------------------------------------
(* Mutant of GroupDone: the stopper waits for the application only. *)
OnlyCancelled == ctx = "cancelled"

GroupDone == ctx = "cancelled" \/ group # "nil"
Joins(err) == group' = IF group = "nil" THEN err ELSE group

Cancel ==
    /\ ctx = "running"
    /\ ctx' = "cancelled"
    /\ UNCHANGED <<kind, serve, stopper, group, result, calls, broken>>

(* Serve on a server that was stopped before returns at once. *)
ServeStarts ==
    /\ serve = "starting"
    /\ \/ stopper = "waiting" /\ serve' = "serving" /\ UNCHANGED group
       \/ stopper # "waiting" /\ serve' = "returned" /\ Joins("stopped")
    /\ UNCHANGED <<kind, ctx, stopper, result, calls, broken>>

Accept(c) ==
    /\ serve = "serving" /\ stopper = "waiting"
    /\ c \notin calls
    /\ calls' = calls \union {c}
    /\ UNCHANGED <<kind, ctx, serve, stopper, group, result, broken>>

End(c) ==
    /\ c \in calls
    /\ calls' = calls \ {c}
    /\ UNCHANGED <<kind, ctx, serve, stopper, group, result, broken>>

ServeFails ==
    /\ serve = "serving" /\ stopper = "waiting"
    /\ serve' = "returned"
    /\ broken' = TRUE
    /\ Joins("failed")
    /\ UNCHANGED <<kind, ctx, stopper, result, calls>>

(* Serve of grpc returns nil when GracefulStop is done, that of net/http   *)
(* returns ErrServerClosed when Shutdown begins.                           *)
ServeReturns ==
    /\ serve = "serving"
    /\ serve' = "returned"
    /\ \/ kind = "grpc" /\ stopper = "returned" /\ UNCHANGED group
       \/ kind = "http" /\ stopper # "waiting" /\ Joins("stopped")
    /\ UNCHANGED <<kind, ctx, stopper, result, calls, broken>>

StopBegins ==
    /\ stopper = "waiting"
    /\ GroupDone
    /\ stopper' = "stopping"
    /\ UNCHANGED <<kind, ctx, serve, group, result, calls, broken>>

(* Mutant of StopReturns: the server is closed under its calls. *)
ClosesAtOnce ==
    /\ stopper = "stopping"
    /\ stopper' = "returned"
    /\ UNCHANGED <<kind, ctx, serve, group, result, calls, broken>>

(* Both wait for the calls without a limit; Shutdown also reports a        *)
(* listener it cannot close, if it had one.                                *)
StopReturns ==
    /\ stopper = "stopping"
    /\ calls = {}
    /\ stopper' = "returned"
    /\ \/ UNCHANGED group
       \/ kind = "http" /\ serve # "starting" /\ Joins("failed")
    /\ UNCHANGED <<kind, ctx, serve, result, calls, broken>>

(* Mutant of WaitReturns: every error of the group counts as a stop. *)
ForgetsError ==
    /\ serve = "returned" /\ stopper = "returned" /\ result = "none"
    /\ result' = "nil"
    /\ UNCHANGED <<kind, ctx, serve, stopper, group, calls, broken>>

WaitReturns ==
    /\ serve = "returned" /\ stopper = "returned" /\ result = "none"
    /\ result' = IF group = "failed" THEN "error" ELSE "nil"
    /\ UNCHANGED <<kind, ctx, serve, stopper, group, calls, broken>>

(* The steps of Run, and those of its environment. *)
RunNext == ServeStarts \/ ServeReturns \/ StopBegins \/ StopReturns \/ WaitReturns
Next == RunNext \/ Cancel \/ ServeFails \/ \E c \in Call : Accept(c) \/ End(c)

Spec == Init /\ [][Next]_vars

-----------------------------------------------------------------------------
(* Run returns nil only when the application was told to stop, and reports *)
(* a listener that failed, whatever the order in which its goroutines fail *)
(* and stop.                                                               *)
ResultTells ==
    /\ result = "nil" => ctx = "cancelled"
    /\ result # "none" /\ broken => result = "error"

(* When Run has returned nothing of it goes on: neither goroutine, nor any *)
(* call, which could use what the application closes next.                 *)
NothingRunsAfterReturn ==
    result # "none" => serve = "returned" /\ stopper = "returned" /\ calls = {}
=============================================================================
