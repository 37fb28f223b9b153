------------------------------ MODULE Signing -------------------------------
(***************************************************************************)
(* A FROST signing over the frostd server: one coordinator, who runs       *)
(* `frost-client coordinator', and the signers, who run `frost-client      *)
(* participant' (coordinator/cli.rs, coordinator/comms/http.rs,            *)
(* participant/cli.rs, participant/comms/http.rs), in one session.         *)
(*                                                                         *)
(* The calls with which a process enters (login, create or list and get    *)
(* the session) are one step; from there on every HTTP call is a step, and *)
(* so is the handling of one message of a receive.  The session is what    *)
(* FrostdSessions shows of it: a FIFO queue per participant and one for    *)
(* the coordinator, emptied by each receive and dropped when the           *)
(* coordinator closes the session.                                         *)
(*                                                                         *)
(* A signer whose run has failed may start `frost-client participant'      *)
(* again, in the same session: a new process with a new Cipher and new     *)
(* nonces.  Processes of a signer are numbered; the number stands for the  *)
(* nonces too.  The messages to be signed and their randomizers, whose     *)
(* number the coordinator checks before it logs in, are part of the        *)
(* signing package and do not vary.                                        *)
(***************************************************************************)
EXTENDS CoordinatorSession, Cipher, Sequences

CONSTANTS
    Coordinator,     \* the coordinator's process, and its queue
    ExpiringTokens,  \* those whose access token may expire in the run
    MaxProcesses,    \* bound on the processes of one signer
    MaxFaults        \* bound on crashes and lost connections

ASSUME SignersAssumption ==
    /\ IsFiniteSet(Signers) /\ Signers # {} /\ Coordinator \notin Signers
    /\ num_messages \in Nat \ {0}
ASSUME SigningBoundsAssumption ==
    /\ ExpiringTokens \subseteq Signers \cup {Coordinator}
    /\ MaxProcesses \in Nat /\ MaxFaults \in Nat

VARIABLES
    session,         \* the server's session: "none", "open" or "closed"
    queue,           \* the server's queues
    token,           \* who has a valid access token
    pc,              \* where everyone is in its run
    why,             \* why a run failed
    \* the coordinator
    inbox,           \* messages of the last receive not yet handled
    state,           \* its CoordinatorSessionState
    recv_noise,      \* the receiving ends of its Cipher
    todo,            \* to whom the signing package is still to be sent
    signing_package, \* the commitments of all signers, once it has them
    \* the signers
    process,         \* the number of the signer's last process
    send_noise,      \* the sending end of that process's Cipher
    received,        \* the signing package it received
    \* history
    signed,          \* every use of nonces: [signer, nonces, package]
    faults,          \* crashes and lost connections so far
    disturbed        \* something outside the protocol happened

serverVars == <<session, queue>>
coordinatorVars == <<inbox, state, recv_noise, todo, signing_package>>
signerVars == <<process, send_noise, received, signed>>
vars == <<serverVars, token, pc, why, coordinatorVars, signerVars,
          faults, disturbed>>

Users == Signers \cup {Coordinator}
Ended == {"done", "failed"}
Commitments == [nonces : 1..MaxProcesses, len : Nat]
IsPackage(p) == DOMAIN p \subseteq Signers /\ p \in [DOMAIN p -> Commitments]

TypeOK ==
    /\ session \in {"none", "open", "closed"}
    /\ token \in [Users -> BOOLEAN]
    /\ pc[Coordinator] \in {"start", "commitments", "send", "shares", "close",
                            "logout", "cleanup"} \cup Ended
    /\ \A s \in Signers :
          /\ pc[s] \in {"start", "commit", "package", "confirm", "share",
                        "logout"} \cup Ended
          /\ IsReceiver(recv_noise[s])
          /\ IsPackage(received[s])
    /\ IsPackage(state.commitments) /\ IsPackage(signing_package)
    /\ DOMAIN state.signature_shares \subseteq Signers
    /\ \A s \in DOMAIN state.signature_shares :
          /\ state.signature_shares[s].nonces \in 1..MaxProcesses
          /\ IsPackage(state.signature_shares[s].package)
    /\ todo \subseteq Signers
    /\ process \in [Signers -> 0..MaxProcesses]
    /\ send_noise \in [Signers -> 0..2]
    /\ faults \in 0..MaxFaults

Init ==
    /\ session = "none"
    /\ queue = [u \in Users |-> <<>>]
    /\ token = [u \in Users |-> FALSE]
    /\ pc = [u \in Users |-> "start"]
    /\ why = [u \in Users |-> ""]
    /\ inbox = <<>>
    /\ state = NewState
    /\ recv_noise = [s \in Signers |-> NewReceiver]
    /\ todo = {}
    /\ signing_package = NoMap
    /\ process = [s \in Signers |-> 0]
    /\ send_noise = [s \in Signers |-> NewSender]
    /\ received = [s \in Signers |-> NoMap]
    /\ signed = {}
    /\ faults = 0
    /\ disturbed = FALSE

-----------------------------------------------------------------------------
(* Calls to the server.                                                    *)

\* Mutant: an expired token is not noticed.
CallResultAnyToken(u) == IF session # "open" THEN "SessionNotFound" ELSE "Ok"

CallResult(u) ==
    IF ~token[u] THEN "Unauthorized"
    ELSE IF session # "open" THEN "SessionNotFound" ELSE "Ok"

Enqueue(u, msg) == queue' = [queue EXCEPT ![u] = Append(@, msg)]

Goto(u, stage) == pc' = [pc EXCEPT ![u] = stage]

\* An error ends a signer at once; the coordinator goes through
\* cleanup_on_error first.
Fail(u, reason) ==
    /\ Goto(u, IF u = Coordinator THEN "cleanup" ELSE "failed")
    /\ why' = [why EXCEPT ![u] = reason]

\* The next call of u returns an error.
CallFails(u) ==
    /\ \/ pc[u] \in {"commit", "package", "share", "send", "close"}
       \/ pc[u] \in {"commitments", "shares"} /\ inbox = <<>>
    /\ CallResult(u) # "Ok"
    /\ Fail(u, CallResult(u))
    /\ UNCHANGED <<serverVars, token, coordinatorVars, signerVars, faults, disturbed>>

\* logout needs a token and no session.
LogoutResult(u) == IF token[u] THEN "Ok" ELSE "Unauthorized"

-----------------------------------------------------------------------------
(* The coordinator.                                                        *)

\* Login and create_new_session; the count of the messages must fit a u8.
CreateSession ==
    /\ pc[Coordinator] = "start"
    /\ token' = [token EXCEPT ![Coordinator] = TRUE]
    /\ IF num_messages <= 255
       THEN session' = "open" /\ Goto(Coordinator, "commitments") /\ UNCHANGED why
       ELSE /\ UNCHANGED session
            /\ Goto(Coordinator, "failed")
            /\ why' = [why EXCEPT ![Coordinator] = "too many messages"]
    /\ UNCHANGED <<queue, coordinatorVars, signerVars, faults, disturbed>>

\* One receive of the two loops; without messages the loop goes round again.
CoordinatorReceive ==
    /\ pc[Coordinator] \in {"commitments", "shares"}
    /\ inbox = <<>>
    /\ CallResult(Coordinator) = "Ok"
    /\ inbox' = queue[Coordinator]
    /\ queue' = [queue EXCEPT ![Coordinator] = <<>>]
    /\ UNCHANGED <<session, token, pc, why, state, recv_noise, todo,
                   signing_package, signerVars, faults, disturbed>>

\* What handling a message returns: it is decrypted, then given to the state.
HandleResult(msg) ==
    IF ~CanDecrypt(recv_noise[msg.sender], msg.sealed) THEN "decryption failed"
    ELSE RecvResult(state, msg)

\* After the last message the loop condition is evaluated.
CoordinatorHandle ==
    LET msg  == Head(inbox)
        st   == Recv(state, msg)
        last == Len(inbox) = 1
    IN
    /\ pc[Coordinator] \in {"commitments", "shares"}
    /\ inbox # <<>>
    /\ HandleResult(msg) = "Ok"
    /\ inbox' = Tail(inbox)
    /\ state' = st
    /\ recv_noise' = [recv_noise EXCEPT ![msg.sender] = Decrypted(@, msg.sealed)]
    /\ IF last /\ pc[Coordinator] = "commitments" /\ HasCommitments(st)
       THEN /\ Goto(Coordinator, "send")
            /\ todo' = Signers
            /\ signing_package' = st.commitments
       ELSE /\ UNCHANGED <<todo, signing_package>>
            /\ IF last /\ pc[Coordinator] = "shares" /\ HasSignatureShares(st)
               THEN Goto(Coordinator, "close") ELSE UNCHANGED pc
    /\ UNCHANGED <<serverVars, token, why, signerVars, faults, disturbed>>

CoordinatorHandleFails ==
    /\ pc[Coordinator] \in {"commitments", "shares"}
    /\ inbox # <<>>
    /\ HandleResult(Head(inbox)) # "Ok"
    /\ Fail(Coordinator, HandleResult(Head(inbox)))
    /\ inbox' = <<>>
    /\ UNCHANGED <<serverVars, token, state, recv_noise, todo, signing_package,
                   signerVars, faults, disturbed>>

\* The signing package is encrypted for, and sent to, one signer after the
\* other, in no particular order.
SendPackage(s) ==
    /\ pc[Coordinator] = "send"
    /\ s \in todo
    /\ CallResult(Coordinator) = "Ok"
    /\ Enqueue(s, [type   |-> "package", sender |-> Coordinator,
                   sealed |-> Encrypt(NewSender, 1), value |-> signing_package])
    /\ todo' = todo \ {s}
    /\ IF todo = {s} THEN Goto(Coordinator, "shares") ELSE UNCHANGED pc
    /\ UNCHANGED <<session, token, why, inbox, state, recv_noise,
                   signing_package, signerVars, faults, disturbed>>

CloseSession ==
    /\ pc[Coordinator] = "close"
    /\ CallResult(Coordinator) = "Ok"
    /\ session' = "closed"
    /\ queue' = [u \in Users |-> <<>>]
    /\ Goto(Coordinator, "logout")
    /\ UNCHANGED <<token, why, coordinatorVars, signerVars, faults, disturbed>>

\* frost_core's aggregate: every share must fit the signing package.
AggregateOk ==
    \A s \in DOMAIN signing_package :
        /\ state.signature_shares[s].nonces = signing_package[s].nonces
        /\ state.signature_shares[s].package = signing_package

\* logout, then aggregate and the result.  After the logout cleanup_on_error
\* has no token to close the session with, which is closed already.
LogoutAndAggregate ==
    LET result == IF LogoutResult(Coordinator) # "Ok" THEN "Unauthorized"
                  ELSE IF ~AggregateOk THEN "aggregate" ELSE "Ok"
    IN
    /\ pc[Coordinator] = "logout"
    /\ token' = [token EXCEPT ![Coordinator] = FALSE]
    /\ Goto(Coordinator, IF result = "Ok" THEN "done" ELSE "failed")
    /\ why' = [why EXCEPT ![Coordinator] = IF result = "Ok" THEN @ ELSE result]
    /\ UNCHANGED <<serverVars, coordinatorVars, signerVars, faults, disturbed>>

\* cleanup_on_error: the answer to its close_session is ignored.
Cleanup ==
    /\ pc[Coordinator] = "cleanup"
    /\ session' = IF CallResult(Coordinator) = "Ok" THEN "closed" ELSE session
    /\ queue' = IF session' = "closed" THEN [u \in Users |-> <<>>] ELSE queue
    /\ Goto(Coordinator, "failed")
    /\ UNCHANGED <<token, why, coordinatorVars, signerVars, faults, disturbed>>

-----------------------------------------------------------------------------
(* The signers.                                                            *)

\* A process of a signer: login, the session's info, new Cipher, new nonces.
StartProcess(s) ==
    /\ pc[s] \in {"start", "failed"}
    /\ process[s] < MaxProcesses
    /\ session = "open"
    /\ token' = [token EXCEPT ![s] = TRUE]
    /\ process' = [process EXCEPT ![s] = @ + 1]
    /\ send_noise' = [send_noise EXCEPT ![s] = NewSender]
    /\ received' = [received EXCEPT ![s] = NoMap]
    /\ why' = [why EXCEPT ![s] = ""]
    /\ Goto(s, "commit")
    /\ UNCHANGED <<serverVars, coordinatorVars, signed, faults, disturbed>>

\* A signer who finds no session stops with an error.
JoinFails(s) ==
    /\ pc[s] = "start"
    /\ session # "open"
    /\ UNCHANGED vars

\* What a signer sends goes to the coordinator, sealed in turn.
SendToCoordinator(s, type, value) ==
    /\ CallResult(s) = "Ok"
    /\ Enqueue(Coordinator, [type   |-> type, sender |-> s,
                             sealed |-> Encrypt(send_noise[s], process[s]),
                             value  |-> value])
    /\ send_noise' = [send_noise EXCEPT ![s] = Written(@)]

SendCommitments(s) ==
    /\ pc[s] = "commit"
    /\ SendToCoordinator(s, "commitments",
                         [nonces |-> process[s], len |-> num_messages])
    /\ Goto(s, "package")
    /\ UNCHANGED <<session, token, why, coordinatorVars, process, received,
                   signed, faults, disturbed>>

\* A receive that returns nothing: the loop goes round again.
ReceiveNothing(s) ==
    /\ pc[s] = "package"
    /\ CallResult(s) = "Ok"
    /\ queue[s] = <<>>
    /\ UNCHANGED vars

\* The first message there is is taken for the signing package; whatever came
\* with it is lost.
ReceivePackage(s) ==
    /\ pc[s] = "package"
    /\ CallResult(s) = "Ok"
    /\ queue[s] # <<>>
    /\ queue' = [queue EXCEPT ![s] = <<>>]
    /\ IF CanDecrypt(NewReceiver, Head(queue[s]).sealed)
       THEN /\ received' = [received EXCEPT ![s] = Head(queue[s]).value]
            /\ Goto(s, "confirm")
            /\ UNCHANGED why
       ELSE Fail(s, "decryption failed") /\ UNCHANGED received
    /\ UNCHANGED <<session, token, coordinatorVars, process, send_noise,
                   signed, faults, disturbed>>

\* Mutant: the package is signed whatever it commits to.
SignAnyPackage(s) == "Ok"

\* frost_core's round2::sign: the package must hold the commitments to the
\* nonces it is signed with.
SignResult(s) ==
    IF s \notin DOMAIN received[s] THEN "missing commitment"
    ELSE IF received[s][s].nonces # process[s] THEN "incorrect commitment"
    ELSE "Ok"

\* The user confirms, and generate_signature makes the shares.
ConfirmAndSign(s) ==
    /\ pc[s] = "confirm"
    /\ IF SignResult(s) = "Ok"
       THEN /\ signed' = signed \cup
                 {[signer |-> s, nonces |-> process[s], package |-> received[s]]}
            /\ Goto(s, "share")
            /\ UNCHANGED why
       ELSE Fail(s, SignResult(s)) /\ UNCHANGED signed
    /\ UNCHANGED <<serverVars, token, coordinatorVars, process, send_noise,
                   received, faults, disturbed>>

\* The user does not confirm.
Cancel(s) ==
    /\ pc[s] = "confirm"
    /\ Fail(s, "signing cancelled")
    /\ disturbed' = TRUE
    /\ UNCHANGED <<serverVars, token, coordinatorVars, signerVars, faults>>

SendShares(s) ==
    /\ pc[s] = "share"
    /\ SendToCoordinator(s, "shares", [nonces  |-> process[s],
                                       len     |-> num_messages,
                                       package |-> received[s]])
    /\ Goto(s, "logout")
    /\ UNCHANGED <<session, token, why, coordinatorVars, process, received,
                   signed, faults, disturbed>>

LogoutSigner(s) ==
    /\ pc[s] = "logout"
    /\ token' = [token EXCEPT ![s] = FALSE]
    /\ IF LogoutResult(s) = "Ok" THEN Goto(s, "done") /\ UNCHANGED why
       ELSE Fail(s, LogoutResult(s))
    /\ UNCHANGED <<serverVars, coordinatorVars, signerVars, faults, disturbed>>

-----------------------------------------------------------------------------
(* What happens outside the protocol.                                      *)

Active(u) == pc[u] \notin {"start"} \cup Ended

TokenExpires(u) ==
    /\ u \in ExpiringTokens
    /\ Active(u)
    /\ token[u]
    /\ token' = [token EXCEPT ![u] = FALSE]
    /\ disturbed' = TRUE
    /\ UNCHANGED <<serverVars, pc, why, coordinatorVars, signerVars, faults>>

\* A call of the coordinator fails for a reason of its own.
Fault ==
    /\ Active(Coordinator) /\ pc[Coordinator] # "cleanup"
    /\ faults < MaxFaults
    /\ Fail(Coordinator, "fault")
    /\ inbox' = <<>>
    /\ faults' = faults + 1
    /\ disturbed' = TRUE
    /\ UNCHANGED <<serverVars, token, state, recv_noise, todo, signing_package,
                   signerVars>>

\* A process dies; for a signer a call that fails is the same.
Crash(u) ==
    /\ Active(u)
    /\ faults < MaxFaults
    /\ Goto(u, "failed")
    /\ why' = [why EXCEPT ![u] = "crash"]
    /\ inbox' = IF u = Coordinator THEN <<>> ELSE inbox
    /\ faults' = faults + 1
    /\ disturbed' = TRUE
    /\ UNCHANGED <<serverVars, token, state, recv_noise, todo, signing_package,
                   signerVars>>

-----------------------------------------------------------------------------

CoordinatorStep ==
    \/ CreateSession
    \/ CoordinatorReceive \/ CoordinatorHandle \/ CoordinatorHandleFails
    \/ \E s \in Signers : SendPackage(s)
    \/ CloseSession \/ LogoutAndAggregate \/ Cleanup
    \/ CallFails(Coordinator)

SignerStep(s) ==
    \/ SendCommitments(s) \/ ReceiveNothing(s) \/ ReceivePackage(s)
    \/ ConfirmAndSign(s) \/ SendShares(s) \/ LogoutSigner(s)
    \/ CallFails(s)

Finished ==
    /\ \A u \in Users : pc[u] \in Ended
    /\ UNCHANGED vars

Next ==
    \/ CoordinatorStep
    \/ \E s \in Signers :
          StartProcess(s) \/ JoinFails(s) \/ SignerStep(s) \/ Cancel(s)
    \/ \E u \in Users : TokenExpires(u) \/ Crash(u)
    \/ Fault
    \/ Finished

Spec == Init /\ [][Next]_vars

\* A running process goes on, the users start theirs the first time, and
\* answer when asked.
Fairness ==
    /\ WF_vars(CoordinatorStep)
    /\ \A s \in Signers :
          /\ WF_vars(SignerStep(s))
          /\ WF_vars(pc[s] = "start" /\ StartProcess(s))

FairSpec == Spec /\ Fairness

-----------------------------------------------------------------------------
(* Properties.                                                             *)

\* Nonces sign one signing package at most, and one that commits to them,
\* even though a restarted signer finds in its queue the package that was
\* made for its predecessor.
NoncesUsedAsCommitted ==
    \A u \in signed :
        /\ u.package[u.signer].nonces = u.nonces
        /\ \A v \in signed :
              u.signer = v.signer /\ u.nonces = v.nonces => u.package = v.package

\* When the coordinator has the shares it waited for, there is one of every
\* signer, made after that signer's user confirmed this very signing package,
\* so aggregating them cannot fail, whoever crashed and started again.
SharesFit ==
    HasSignatureShares(state) =>
        /\ DOMAIN state.signature_shares = Signers
        /\ AggregateOk
        /\ \A s \in Signers :
              [signer |-> s, nonces |-> state.signature_shares[s].nonces,
               package |-> signing_package] \in signed

\* In whatever order calls and messages fall, a signing that nothing outside
\* the protocol disturbs produces its signature: no message is early, late or
\* lost with the session.
UndisturbedSigningSucceeds ==
    <>(disturbed \/ pc[Coordinator] = "done")

\* Nobody runs longer than its access token.
RunsEndWithToken ==
    \A u \in Users : (pc[u] # "start" /\ ~token[u]) ~> (pc[u] \in Ended)

\* What the signers and the coordinator hold, as an abstract signing sees it:
\* the messages do not vary, and a commitment is to its nonces.
AbstractPackage(p) ==
    [message |-> 1, commitments |-> [s \in DOMAIN p |-> p[s].nonces]]

FS == INSTANCE FrostSigning WITH
        Signers    <- Signers,
        Nonces     <- 1..MaxProcesses,
        Messages   <- {1},
        MinSigners <- Cardinality(Signers),
        signed     <- {[signer |-> u.signer, nonces |-> u.nonces,
                        package |-> AbstractPackage(u.package)] : u \in signed},
        signatures <- IF pc[Coordinator] = "done"
                      THEN {AbstractPackage(signing_package)} ELSE {}

\* Over the server, with signers and messages that come twice, late or never,
\* each nonces are used once, and a signature appears only if every signer in
\* its package has confirmed this very package.
ImplementsFrostSigning == FS!Spec

-----------------------------------------------------------------------------

\* "Currently ignores the possibility of overwriting previous values (it seems
\* better to ignore overwrites, which could be caused by poor networking
\* connectivity leading to retries)" (session.rs, handle_commitments): a signer
\* who tries again while commitments are collected does not end the signing.
RetriesAreTolerated ==
    state.tag = "WaitingForCommitments" => why[Coordinator] # "decryption failed"

=============================================================================
