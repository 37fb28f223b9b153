------------------------------- MODULE MCDKG --------------------------------
(***************************************************************************)
(* DKG with small constants, for TLC.                                      *)
(***************************************************************************)
EXTENDS DKG, TLC

\* The participants who join, and are consistent, are interchangeable.
JoinerSymmetry == Permutations(Consistent \ {Creator})

=============================================================================
