------------------------- MODULE CoordinatorSession -------------------------
(***************************************************************************)
(* CoordinatorSessionState, with which the coordinator of a signing        *)
(* handles the messages of the signers (frost-client/src/session.rs), as   *)
(* operators on its state.  A signer stands for its public key and for the *)
(* identifier the map `pubkeys' gives it.                                  *)
(*                                                                         *)
(* A signer's commitments are a vector with one entry per message to be    *)
(* signed, all made by one process of the signer: [nonces, len].  Its      *)
(* signature shares are the vector made with those nonces for a signing    *)
(* package: [nonces, len, package].                                        *)
(***************************************************************************)
EXTENDS Naturals, FiniteSets

CONSTANTS
    Signers,      \* the keys of the map pubkeys; num_signers is their number
    num_messages

NoMap == [s \in {} |-> s]

\* CoordinatorSessionState::new.
NewState == [tag         |-> "WaitingForCommitments",
             commitments |-> NoMap, signature_shares |-> NoMap]

\* HashMap::insert: adds the key or overwrites its value.
Inserted(map, key, value) ==
    [k \in DOMAIN map \cup {key} |-> IF k = key THEN value ELSE map[k]]

\* What a message meets in a state: "Ok", or the error that recv returns.
CommitmentsResult(st, sender, commitments) ==
    IF commitments.len # num_messages THEN "wrong number of commitments"
    ELSE IF sender \notin Signers THEN "unknown participant" ELSE "Ok"

SignatureShareResult(st, sender, shares) ==
    IF shares.len # num_messages THEN "wrong number of signature shares"
    ELSE IF sender \notin Signers THEN "unknown participant"
    ELSE IF sender \notin DOMAIN st.commitments THEN "invalid identifier"
    ELSE "Ok"

RecvResult(st, msg) ==
    CASE st.tag = "WaitingForCommitments" ->
            IF msg.type # "commitments" THEN "parse error"
            ELSE CommitmentsResult(st, msg.sender, msg.value)
      [] st.tag = "WaitingForSignatureShares" ->
            IF msg.type # "shares" THEN "parse error"
            ELSE SignatureShareResult(st, msg.sender, msg.value)
      [] OTHER -> "wrong state"

HandleCommitments(st, sender, commitments) ==
    LET map == Inserted(st.commitments, sender, commitments) IN
    [tag              |-> IF Cardinality(DOMAIN map) = Cardinality(Signers)
                          THEN "WaitingForSignatureShares"
                          ELSE "WaitingForCommitments",
     commitments      |-> map,
     signature_shares |-> NoMap]

\* Mutant: the first share completes the map.
HandleFirstSignatureShare(st, sender, shares) ==
    [tag              |-> "SignatureSharesReady",
     commitments      |-> NoMap,
     signature_shares |-> Inserted(st.signature_shares, sender, shares)]

\* The last share drops the commitments with the old state.
HandleSignatureShare(st, sender, shares) ==
    LET map  == Inserted(st.signature_shares, sender, shares)
        done == DOMAIN map = DOMAIN st.commitments
    IN  [tag              |-> IF done THEN "SignatureSharesReady"
                              ELSE "WaitingForSignatureShares",
         commitments      |-> IF done THEN NoMap ELSE st.commitments,
         signature_shares |-> map]

Recv(st, msg) ==
    IF st.tag = "WaitingForCommitments"
    THEN HandleCommitments(st, msg.sender, msg.value)
    ELSE HandleSignatureShare(st, msg.sender, msg.value)

HasCommitments(st) == st.tag = "WaitingForSignatureShares"

HasSignatureShares(st) == st.tag = "SignatureSharesReady"

=============================================================================
