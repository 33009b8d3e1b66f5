---------------------------- MODULE MCSourceFacts ----------------------------
(***************************************************************************)
(* SourceFacts with two files of two contents.  Apart, they never have the *)
(* same bytes; copied, one may be a copy of the other; with the same name  *)
(* they are in different directories.                                      *)
(***************************************************************************)
EXTENDS SourceFacts, TLC

CONSTANTS f1, f2, c1, c2, c3, c4, absent, nothing

TwoFiles == {f1, f2}
FourContents == {c1, c2, c3, c4}

ApartContents == f1 :> {c1, c2} @@ f2 :> {c3, c4}
ApartNames == f1 :> "a" @@ f2 :> "b"

CopiedContents == f1 :> {c1, c2} @@ f2 :> {c1, c2}
SameNames == f1 :> "a" @@ f2 :> "a"
=============================================================================
