---------------------------- MODULE MCAtMostOnce -----------------------------
(* AtMostOnce on small logs.  The bounds are in the .cfg files.            *)
EXTENDS AtMostOnce
=============================================================================
