-------------------------- MODULE AtLeastOnceClaims --------------------------
(* What the package's documentation says of at-least-once delivery and the *)
(* code does not do; it is checked alone, and refuted.                     *)
EXTENDS AtLeastOnce

(* "acknowledging (committing offsets) only after successful processing. If *)
(* processing fails, the message is not committed" (kafka/doc.go:74-75).    *)
(* processFetches sends a record on whatever process() made of it.          *)
CommittedImpliesSucceeded == 0 .. committed - 1 \subseteq succeeded
=============================================================================
