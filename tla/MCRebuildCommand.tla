--------------------------- MODULE MCRebuildCommand ---------------------------
(* Instances of RebuildCommand for TLC.                                    *)
EXTENDS RebuildCommand, TLC

\* No script or run of the app is singled out.
SomeSymmetry ==
    Permutations(Scripts) \cup Permutations(Apps)
=============================================================================
