-------------------------- MODULE AtMostOnceClaims ---------------------------
(* What the package's documentation says of at-most-once delivery and the  *)
(* code does not do; it is checked alone, and refuted.                     *)
EXTENDS AtMostOnce

(* "The processor will receive messages even if commit fails"              *)
(* (kafka/at_most_once.go:39).  acknowledgeFetchs drops the fetch.         *)
ReceivesDespiteFailedCommit ==
    AllDone /\ ctx = "live" => start .. polled - 1 \subseteq finished
=============================================================================
