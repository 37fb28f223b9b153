------------------------- MODULE MCSessionCommands --------------------------
(***************************************************************************)
(* The session commands with small constants, for TLC.                     *)
(***************************************************************************)
EXTENDS SessionCommands, TLC

\* Keys are interchangeable, and so are session ids.
CommandSymmetry == Permutations(PublicKeys) \cup Permutations(SessionIds)

=============================================================================
