---------------------------- MODULE MCQueryPool ----------------------------
(* Instances of QueryPool for TLC; the constants are in the .cfg file.     *)
EXTENDS QueryPool
CONSTANTS t1, t2, t3
=============================================================================
