---------------------------- MODULE FrostSigning ----------------------------
(***************************************************************************)
(* What a FROST signing promises, whatever carries its messages: nonces    *)
(* are used once and for a signing package that commits to them, and a     *)
(* signature is made only of shares of all the signers of its package,     *)
(* each of which was made for this very package.                           *)
(*                                                                         *)
(* Signing (over the server) and HandSigning (by copy and paste) both      *)
(* implement this specification.                                           *)
(***************************************************************************)
EXTENDS Naturals, FiniteSets

CONSTANTS
    Signers,     \* who holds a share of the key
    Nonces,      \* what a signer commits to in a run
    Messages,    \* what is signed
    MinSigners   \* the threshold

VARIABLES
    signed,      \* every share ever made: [signer, nonces, package]
    signatures   \* the packages whose signature was made

Packages == [message     : Messages,
             commitments : UNION {[S -> Nonces] : S \in SUBSET Signers}]

Init == signed = {} /\ signatures = {}

\* Signer s, whose user has confirmed package p, makes its share.
Share(s, n, p) ==
    /\ s \in DOMAIN p.commitments
    /\ p.commitments[s] = n
    /\ Cardinality(DOMAIN p.commitments) >= MinSigners
    /\ \A u \in signed : ~(u.signer = s /\ u.nonces = n)
    /\ signed' = signed \cup {[signer |-> s, nonces |-> n, package |-> p]}
    /\ UNCHANGED signatures

\* The packages of which all shares have been made.
Complete ==
    {p \in {u.package : u \in signed} :
        \A s \in DOMAIN p.commitments :
            [signer |-> s, nonces |-> p.commitments[s], package |-> p] \in signed}

\* The coordinator ends with the signatures of some of them.
Aggregate ==
    /\ \E P \in SUBSET Complete : signatures' = signatures \cup P
    /\ UNCHANGED signed

Next ==
    \/ \E s \in Signers, n \in Nonces, p \in Packages : Share(s, n, p)
    \/ Aggregate

Spec == Init /\ [][Next]_<<signed, signatures>>

=============================================================================
