--------------------------- MODULE MCTemplateCache ---------------------------
(* Instances of TemplateCache for TLC.                                     *)
EXTENDS TemplateCache, TLC

\* No game is singled out.
SomeSymmetry == Permutations(Games)
=============================================================================
