-------------------------- MODULE MCBuildPipeline --------------------------
(* Two or three contents and revisions; the cfg names the hazards.         *)
EXTENDS BuildPipeline, TLC

\* No action tells one content from another.
Symmetry == Permutations(Contents)
=============================================================================
