--------------------------- MODULE MCConfigStore ----------------------------
(***************************************************************************)
(* ConfigStore with small constants, for TLC.                              *)
(***************************************************************************)
EXTENDS ConfigStore, TLC, FiniteSets

CONSTANTS
    User,       \* the file on which every command runs; of the others only
                \* `init' and the dealer, who reads and writes them all
    MaxHistory  \* key shares produced, shares gone, shares and keys lost

\* Bounds the states whose successors are explored.
Bound ==
    /\ Cardinality(produced) + Cardinality(gone) + Cardinality(lost) <= MaxHistory
    /\ \A i \in Processes : Started(i) =>
          /\ proc[i].pc = "dkg" => proc[i].path = User
          /\ InWindow(i) =>
                \/ proc[i].path = User
                \/ proc[i].cmd.type \in {"init", "trusted_dealer"}

\* Keys, slots and groups are interchangeable.
ConfigSymmetry == Permutations(PublicKeys) \cup Permutations(Processes)
                  \cup Permutations(Groups)

=============================================================================
