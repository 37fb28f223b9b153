----------------------------- MODULE MCSigning ------------------------------
(***************************************************************************)
(* Signing with small constants, for TLC.                                  *)
(***************************************************************************)
EXTENDS Signing, TLC

\* Signers are interchangeable.
SignerSymmetry == Permutations(Signers)

=============================================================================
