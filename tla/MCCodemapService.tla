-------------------------- MODULE MCCodemapService --------------------------
(* Instances of CodemapService for TLC; the constants are in the .cfg files. *)
EXTENDS CodemapService, TLC

AnyThread == Permutations(Threads)
=============================================================================
