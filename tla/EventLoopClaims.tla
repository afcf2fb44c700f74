--------------------------- MODULE EventLoopClaims ---------------------------
(***************************************************************************)
(* What the documentation says of partitions and rebalances and the event  *)
(* loop does not do.  Each is checked alone, and refuted.                  *)
(***************************************************************************)
EXTENDS EventLoop

(* "Wait for goroutine to finish current message" and "Complete gracefully *)
(* before rebalance proceeds"                                              *)
(* (docs/content/features/queue/kafka/concurrency.md:83).                  *)
(* handleRevokedPartition closes the channel and returns; a runtime with   *)
(* records in hand goes on, next to the one that may replace it.           *)
RevocationWaits ==
    ctx = "live" /\ callback = Idle =>
        \A r \in DOMAIN runtimes :
            runtimes[r].tp \notin owned => ~Running(r) \/ runtimes[r].todo = << >>

(* "Each message processed at least once"                                  *)
(* (docs/content/features/queue/queue-framework.md:205).                   *)
(* A fetch that waits at the loop while its partition is revoked and       *)
(* assigned again is given to the new runtime, which commits past a record *)
(* that is not handled: the runtime of the earlier assignment still holds  *)
(* it, and should its process die nobody is given it again.                *)
CommittedImpliesHandled ==
    \A tp \in Partition : 0 .. committed[tp] - 1 \subseteq handled[tp]

(* "Partition isolation (one slow partition doesn't block others)"         *)
(* (docs/content/features/queue/kafka/_index.md:184).                      *)
(* handleFetch waits for the runtime of the slow partition to receive, and *)
(* nothing else reaches any other runtime meanwhile.                       *)
Polled(tp) == \E i \in DOMAIN topics : \E j \in DOMAIN topics[i] : topics[i][j].tp = tp
PartitionIsolation ==
    \A tp \in Partition \ Slow : Polled(tp) ~> (~Polled(tp) \/ ctx = "cancelled")
=============================================================================
