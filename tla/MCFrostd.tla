------------------------------ MODULE MCFrostd ------------------------------
(***************************************************************************)
(* Frostd with small constants, for TLC.                                   *)
(***************************************************************************)
EXTENDS Frostd, TLC

\* Keys, challenges, tokens and request slots are interchangeable.
ServerSymmetry == Permutations(PublicKeys) \cup Permutations(Challenges)
                  \cup Permutations(Tokens) \cup Permutations(Requests)

=============================================================================
