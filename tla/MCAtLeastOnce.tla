---------------------------- MODULE MCAtLeastOnce ----------------------------
(* AtLeastOnce on small logs.  The bounds are in the .cfg files.           *)
EXTENDS AtLeastOnce
=============================================================================
