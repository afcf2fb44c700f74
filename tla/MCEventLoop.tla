----------------------------- MODULE MCEventLoop -----------------------------
(* EventLoop with two partitions, which are interchangeable.               *)
EXTENDS EventLoop, TLC

Symmetry == Permutations(Partition)
=============================================================================
