---------------------------- MODULE MCSourceText ----------------------------
(***************************************************************************)
(* SourceText with two files and as many addresses as a run needs to give  *)
(* one of them away while others are held.                                 *)
(***************************************************************************)
EXTENDS SourceText, TLC

CONSTANTS b1, b2, f1, f2, a1, a2, a3

Files2 == {f1, f2}
Addrs3 == {a1, a2, a3}
OneBuilder == {b1}
TwoBuilders == {b1, b2}
Nothing == {}
FirstFile == {f1}

Symmetric == Permutations(Addrs3)
=============================================================================
