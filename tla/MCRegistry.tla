----------------------------- MODULE MCRegistry -----------------------------
(* Two servers and two calls; two work trees of one operator, of which one   *)
(* has a directory that is not called as the product in it.                  *)
EXTENDS Registry, TLC

CONSTANTS P1, P2, c1, c2, main, pr, op, dir

MCDirName == main :> dir @@ pr :> op
MCMetaName == main :> op @@ pr :> op
Symmetry == Permutations({P1, P2}) \cup Permutations({c1, c2})
=============================================================================
