----------------------------- MODULE MCRunLoops ------------------------------
(* Instances of RunLoops for TLC.                                          *)
EXTENDS MCRunStore, RunLoops
=============================================================================
