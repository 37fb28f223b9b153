---------------------------- MODULE SigningProofs ----------------------------
(***************************************************************************)
(* Proofs about a signing over the server, for any number of signers, of   *)
(* processes of each and of faults.                                        *)
(*                                                                         *)
(* The argument: the coordinator makes one signing package, and nothing is *)
(* sent to the signers, received by them or signed before it is there; so  *)
(* all that is ever signed is that package.  A share on its way, or in the *)
(* coordinator's state, repeats a use of nonces that the signer's user has *)
(* confirmed; and nonces belong to a process that signs once.              *)
(***************************************************************************)
EXTENDS Signing, FiniteSetTheorems, SequenceTheorems, TLAPS

Sealed == [process : Nat, n : Nat]

SigningPackage == UNION {[S -> Commitments] : S \in SUBSET Signers}

\* What a signer may have sent: its commitments, or shares it has made.
SignerMsg ==
    [type : {"commitments"}, sender : Signers, sealed : Sealed,
     value : [nonces : 1..MaxProcesses, len : {num_messages}]]
    \cup
    {m \in [type : {"shares"}, sender : Signers, sealed : Sealed,
            value : [nonces : 1..MaxProcesses, len : {num_messages},
                     package : SigningPackage]] :
        [signer |-> m.sender, nonces |-> m.value.nonces,
         package |-> m.value.package] \in signed}

\* What the coordinator may have sent: its signing package, once it has it.
PackageMsg ==
    {m \in [type : {"package"}, sender : {Coordinator},
            sealed : {Encrypt(NewSender, 1)}, value : {signing_package}] :
        DOMAIN signing_package = Signers}

Shape ==
    /\ DOMAIN pc = Users /\ DOMAIN why = Users /\ DOMAIN queue = Users
    /\ DOMAIN recv_noise = Signers /\ DOMAIN received = Signers
    /\ queue[Coordinator] \in Seq(SignerMsg) /\ inbox \in Seq(SignerMsg)
    /\ \A s \in Signers : queue[s] \in Seq(PackageMsg)

\* There is one signing package, and it has the commitments of all signers.
PackageOK ==
    /\ signing_package = NoMap \/ DOMAIN signing_package = Signers
    /\ \A s \in Signers : received[s] \in {NoMap, signing_package}
    /\ pc[Coordinator] \in {"start", "commitments"} => signing_package = NoMap
    /\ pc[Coordinator] \in {"send", "shares", "close", "logout", "done"} =>
          DOMAIN signing_package = Signers

\* Everything signed is that package, with the nonces it commits to.
SignedOK ==
    \A u \in signed :
        /\ u = [signer |-> u.signer, nonces |-> u.nonces, package |-> signing_package]
        /\ u.signer \in Signers
        /\ DOMAIN signing_package = Signers
        /\ u.nonces = signing_package[u.signer].nonces
        /\ u.nonces <= process[u.signer]

\* The state of the coordinator's run and of its CoordinatorSessionState.
StateOK ==
    /\ state.tag \in {"WaitingForCommitments", "WaitingForSignatureShares",
                      "SignatureSharesReady"}
    /\ state.tag = "WaitingForCommitments" =>
          signing_package = NoMap /\ state.signature_shares = NoMap
    /\ state.tag = "WaitingForSignatureShares" =>
          /\ DOMAIN state.commitments = Signers
          /\ signing_package \in {NoMap, state.commitments}
    /\ state.tag = "SignatureSharesReady" => DOMAIN state.signature_shares = Signers
    /\ pc[Coordinator] = "send" => state.tag = "WaitingForSignatureShares"
    /\ pc[Coordinator] \in {"close", "logout", "done"} =>
          state.tag = "SignatureSharesReady"
    /\ \A s \in DOMAIN state.signature_shares :
          [signer |-> s, nonces |-> state.signature_shares[s].nonces,
           package |-> state.signature_shares[s].package] \in signed

\* The process of signer s has made its shares or will, not both.
SignerOK(s) ==
    /\ pc[s] # "start" => process[s] \in 1..MaxProcesses
    /\ pc[s] = "commit" => send_noise[s] = 0
    /\ pc[s] \in {"package", "confirm", "share"} => send_noise[s] = 1
    /\ pc[s] \in {"commit", "package", "confirm"} =>
          \A u \in signed : u.signer = s => u.nonces # process[s]
    /\ pc[s] = "share" =>
          [signer |-> s, nonces |-> process[s], package |-> received[s]] \in signed

Inv ==
    /\ TypeOK /\ Shape /\ PackageOK /\ SignedOK /\ StateOK
    /\ \A s \in Signers : SignerOK(s)

-----------------------------------------------------------------------------
(* Lemmas about the data.                                                  *)

\* A map of signers to commitments is a package, and the other way round.
LEMMA PackageType == \A p : IsPackage(p) <=> p \in SigningPackage
  BY DEF IsPackage, SigningPackage

\* A queue of messages from a set is one of messages from a larger set.
LEMMA SeqMonotone ==
    ASSUME NEW S, NEW T, S \subseteq T, NEW q \in Seq(S)
    PROVE  q \in Seq(T)
<1>1. Len(q) \in Nat /\ q = [i \in 1..Len(q) |-> q[i]]
  BY LenProperties
<1>2. \A i \in 1..Len(q) : q[i] \in T
  BY LenProperties
<1> QED
  BY <1>1, <1>2, IsASeq

\* The empty map is a package, and not that of any signer.
LEMMA NoMapFacts == DOMAIN NoMap = {} /\ IsPackage(NoMap) /\ DOMAIN NoMap # Signers
  BY SignersAssumption DEF NoMap, IsPackage

\* A new receiving end is one.
LEMMA NewReceiverType == IsReceiver(NewReceiver)
  BY DEF IsReceiver, NewReceiver

\* The coordinator is not one of the signers.
LEMMA UsersFacts == Coordinator \in Users /\ Signers \subseteq Users /\ Coordinator \notin Signers
  BY SignersAssumption DEF Users

-----------------------------------------------------------------------------
(* The invariant.                                                          *)

\* Nobody has started and nothing was sent.
LEMMA InitInv == Init => Inv
<1> SUFFICES ASSUME Init PROVE Inv
  OBVIOUS
<1> USE NoMapFacts, UsersFacts
<1>0. /\ session = "none" /\ inbox = <<>> /\ state = NewState
      /\ queue = [u \in Users |-> <<>>] /\ token = [u \in Users |-> FALSE]
      /\ pc = [u \in Users |-> "start"] /\ DOMAIN why = Users
      /\ recv_noise = [s \in Signers |-> NewReceiver]
      /\ todo = {} /\ signing_package = NoMap /\ signed = {} /\ faults = 0
      /\ process = [s \in Signers |-> 0] /\ send_noise = [s \in Signers |-> 0]
      /\ received = [s \in Signers |-> NoMap]
  BY DEF Init, NewSender
<1>1. TypeOK
  <2>1. state.commitments = NoMap /\ state.signature_shares = NoMap
    BY <1>0 DEF NewState
  <2>2. IsReceiver(NewReceiver)
    BY NewReceiverType
  <2>3. faults \in 0..MaxFaults /\ process \in [Signers -> 0..MaxProcesses]
    BY <1>0, SigningBoundsAssumption
  <2> QED
    BY <1>0, <2>1, <2>2, <2>3 DEF TypeOK
<1>2. Shape
  BY <1>0, EmptySeq DEF Shape
<1>3. PackageOK /\ SignedOK /\ StateOK
  BY <1>0 DEF PackageOK, SignedOK, StateOK, NewState
<1>4. \A s \in Signers : SignerOK(s)
  BY <1>0 DEF SignerOK
<1> QED
  BY <1>1, <1>2, <1>3, <1>4 DEF Inv

\* A step that drops messages or ends runs, signs nothing and changes neither
\* a package nor the coordinator's state.
LEMMA QuietStep ==
    ASSUME Inv,
           session' \in {"none", "open", "closed"},
           token' \in [Users -> BOOLEAN],
           faults' \in 0..MaxFaults,
           DOMAIN why' = Users, DOMAIN pc' = Users, DOMAIN queue' = Users,
           \A u \in Users : queue'[u] \in {queue[u], <<>>},
           inbox' \in {inbox, <<>>, queue[Coordinator]},
           \/ pc'[Coordinator] \in {pc[Coordinator], "cleanup", "failed"}
           \/ pc[Coordinator] = "start" /\ pc'[Coordinator] = "commitments"
           \/ pc[Coordinator] = "close" /\ pc'[Coordinator] = "logout"
           \/ pc[Coordinator] = "logout" /\ pc'[Coordinator] = "done",
           \A s \in Signers : \/ pc'[s] = pc[s]
                              \/ pc[s] # "start" /\ pc'[s] \in Ended,
           UNCHANGED <<state, recv_noise, todo, signing_package, process,
                       send_noise, received, signed>>
    PROVE  Inv'
<1> USE UsersFacts DEF Inv
<1>1. TypeOK'
  BY DEF TypeOK, Ended
<1>2. Shape'
  <2>1. SignerMsg' = SignerMsg /\ PackageMsg' = PackageMsg
    BY DEF SignerMsg, PackageMsg
  <2>2. <<>> \in Seq(SignerMsg) /\ <<>> \in Seq(PackageMsg)
    BY EmptySeq
  <2> QED
    BY <2>1, <2>2 DEF Shape
<1>3. PackageOK'
  BY DEF PackageOK
<1>4. SignedOK'
  BY DEF SignedOK
<1>5. StateOK'
  BY DEF StateOK, PackageOK
<1>6. ASSUME NEW s \in Signers PROVE SignerOK(s)'
  BY DEF SignerOK, Ended
<1> QED
  BY <1>1, <1>2, <1>3, <1>4, <1>5, <1>6

\* The steps that are quiet.
LEMMA QuietSteps ==
    ASSUME Inv,
           \/ CreateSession \/ CoordinatorReceive \/ CoordinatorHandleFails
           \/ CloseSession \/ LogoutAndAggregate \/ Cleanup
           \/ Fault \/ Finished \/ UNCHANGED vars
           \/ \E s \in Signers : \/ JoinFails(s) \/ ReceiveNothing(s)
                                 \/ Cancel(s) \/ LogoutSigner(s)
           \/ \E u \in Users : CallFails(u) \/ TokenExpires(u) \/ Crash(u)
    PROVE  Inv'
<1> USE UsersFacts
<1> USE DEF Goto, Fail, Ended, serverVars, coordinatorVars, signerVars
<1>1. /\ DOMAIN pc = Users /\ DOMAIN why = Users /\ DOMAIN queue = Users
      /\ token \in [Users -> BOOLEAN] /\ faults \in 0..MaxFaults
      /\ session \in {"none", "open", "closed"}
  BY DEF Inv, TypeOK, Shape
<1>2. CASE CreateSession
  BY <1>1, <1>2, QuietStep DEF CreateSession
<1>3. CASE CoordinatorReceive
  BY <1>1, <1>3, QuietStep DEF CoordinatorReceive
<1>4. CASE CoordinatorHandleFails
  BY <1>1, <1>4, QuietStep DEF CoordinatorHandleFails
<1>5. CASE CloseSession
  BY <1>1, <1>5, QuietStep DEF CloseSession
<1>6. CASE LogoutAndAggregate
  BY <1>1, <1>6, QuietStep DEF LogoutAndAggregate
<1>7. CASE Cleanup
  BY <1>1, <1>7, QuietStep DEF Cleanup
<1>8. CASE Fault
  <2>1. faults' \in 0..MaxFaults
    BY <1>1, <1>8, SigningBoundsAssumption DEF Fault
  <2> QED
    BY <1>1, <1>8, <2>1, QuietStep DEF Fault
<1>9. CASE Finished \/ UNCHANGED vars
  BY <1>1, <1>9, QuietStep DEF Finished, vars
<1>10. ASSUME NEW s \in Signers, JoinFails(s) \/ ReceiveNothing(s) PROVE Inv'
  BY <1>1, <1>10, QuietStep DEF JoinFails, ReceiveNothing, vars
<1>11. ASSUME NEW s \in Signers, Cancel(s) PROVE Inv'
  BY <1>1, <1>11, QuietStep DEF Cancel
<1>12. ASSUME NEW s \in Signers, LogoutSigner(s) PROVE Inv'
  BY <1>1, <1>12, QuietStep DEF LogoutSigner
<1>13. ASSUME NEW u \in Users, CallFails(u) PROVE Inv'
  BY <1>1, <1>13, QuietStep DEF CallFails
<1>14. ASSUME NEW u \in Users, TokenExpires(u) PROVE Inv'
  BY <1>1, <1>14, QuietStep DEF TokenExpires
<1>15. ASSUME NEW u \in Users, Crash(u) PROVE Inv'
  <2>1. faults' \in 0..MaxFaults
    BY <1>1, <1>15, SigningBoundsAssumption DEF Crash
  <2> QED
    BY <1>1, <1>15, <2>1, QuietStep DEF Crash, Active
<1> QED
  BY <1>2, <1>3, <1>4, <1>5, <1>6, <1>7, <1>8, <1>9, <1>10, <1>11, <1>12,
     <1>13, <1>14, <1>15

\* The signing package goes to one signer.
LEMMA SendPackageInv == ASSUME Inv, NEW s \in Signers, SendPackage(s) PROVE Inv'
<1> DEFINE msg == [type   |-> "package", sender |-> Coordinator,
                   sealed |-> Encrypt(NewSender, 1), value |-> signing_package]
<1> USE UsersFacts DEF Inv
<1>1. /\ pc[Coordinator] = "send"
      /\ queue' = [queue EXCEPT ![s] = Append(@, msg)]
      /\ todo' \subseteq todo
      /\ pc' = pc \/ pc' = [pc EXCEPT ![Coordinator] = "shares"]
      /\ UNCHANGED <<session, token, why, inbox, state, recv_noise,
                     signing_package, process, send_noise, received, signed,
                     faults>>
  BY DEF SendPackage, Enqueue, Goto, signerVars
<1>2. /\ DOMAIN pc' = Users
      /\ \A x \in Signers : pc'[x] = pc[x]
      /\ pc'[Coordinator] \in {"send", "shares"}
  BY <1>1 DEF Shape
<1>3. TypeOK'
  BY <1>1, <1>2 DEF TypeOK
<1>4. Shape'
  <2>1. SignerMsg' = SignerMsg /\ PackageMsg' = PackageMsg
    BY <1>1 DEF SignerMsg, PackageMsg
  <2>2. msg \in PackageMsg
    BY <1>1 DEF PackageMsg, PackageOK
  <2>3. queue'[s] \in Seq(PackageMsg)
    BY <1>1, <2>2, AppendProperties DEF Shape
  <2>4. \A u \in Users \ {s} : queue'[u] = queue[u]
    BY <1>1 DEF Shape
  <2> QED
    BY <1>1, <1>2, <2>1, <2>3, <2>4 DEF Shape
<1>5. PackageOK'
  BY <1>1, <1>2 DEF PackageOK
<1>6. SignedOK'
  BY <1>1 DEF SignedOK
<1>7. StateOK'
  BY <1>1, <1>2 DEF StateOK
<1>8. ASSUME NEW x \in Signers PROVE SignerOK(x)'
  BY <1>1, <1>2 DEF SignerOK
<1> QED
  BY <1>3, <1>4, <1>5, <1>6, <1>7, <1>8

\* A signer starts, or starts again: its nonces are new.
LEMMA StartProcessInv == ASSUME Inv, NEW s \in Signers, StartProcess(s) PROVE Inv'
<1> USE UsersFacts DEF Inv
<1>1. /\ process[s] < MaxProcesses
      /\ token' \in [Users -> BOOLEAN] /\ DOMAIN why' = Users
      /\ process' = [process EXCEPT ![s] = @ + 1]
      /\ send_noise' = [send_noise EXCEPT ![s] = 0]
      /\ received' = [received EXCEPT ![s] = NoMap]
      /\ pc' = [pc EXCEPT ![s] = "commit"]
      /\ UNCHANGED <<session, queue, inbox, state, recv_noise, todo,
                     signing_package, signed, faults>>
  BY DEF StartProcess, Goto, serverVars, coordinatorVars, NewSender, TypeOK, Shape
<1>2. /\ process \in [Signers -> 0..MaxProcesses] /\ MaxProcesses \in Nat
      /\ process' \in [Signers -> 0..MaxProcesses]
      /\ process'[s] = process[s] + 1 /\ process'[s] \in 1..MaxProcesses
      /\ \A x \in Signers \ {s} : process'[x] = process[x]
  BY <1>1, SigningBoundsAssumption DEF TypeOK
<1>3. \A u \in signed : u.nonces \in Nat /\ u.nonces <= process[u.signer]
  BY SigningBoundsAssumption DEF SignedOK, TypeOK, IsPackage, Commitments
<1>4. TypeOK'
  BY <1>1, <1>2, NoMapFacts, SMTT(30) DEF TypeOK, Shape
<1>5. Shape'
  <2>1. SignerMsg' = SignerMsg /\ PackageMsg' = PackageMsg
    BY <1>1 DEF SignerMsg, PackageMsg
  <2> QED
    BY <1>1, <2>1 DEF Shape
<1>6. PackageOK'
  BY <1>1 DEF PackageOK, Shape
<1>7. SignedOK'
  BY <1>1, <1>2, <1>3 DEF SignedOK
<1>8. StateOK'
  BY <1>1 DEF StateOK, Shape
<1>9. ASSUME NEW x \in Signers PROVE SignerOK(x)'
  <2>1. CASE x = s
    <3>1. \A u \in signed : u.signer = s => u.nonces # process'[s]
      BY <1>2, <1>3
    <3> QED
      BY <1>1, <1>2, <2>1, <3>1 DEF SignerOK, Shape, TypeOK
  <2>2. CASE x # s
    BY <1>1, <1>2, <2>2 DEF SignerOK, Shape, TypeOK
  <2> QED
    BY <2>1, <2>2
<1> QED
  BY <1>4, <1>5, <1>6, <1>7, <1>8, <1>9

\* A signer sends its commitments or its shares: the coordinator's queue gets
\* a message that is either, from a process that goes on to its next step.
LEMMA SignerSends ==
    ASSUME Inv, NEW s \in Signers, NEW msg \in SignerMsg, NEW stage,
           queue' = [queue EXCEPT ![Coordinator] = Append(@, msg)],
           send_noise' = [send_noise EXCEPT ![s] = Written(@)],
           pc' = [pc EXCEPT ![s] = stage],
           \/ pc[s] = "commit" /\ stage = "package"
           \/ pc[s] = "share" /\ stage = "logout",
           UNCHANGED <<session, token, why, coordinatorVars, process, received,
                       signed, faults>>
    PROVE  Inv'
<1> USE UsersFacts DEF Inv
<1>1. /\ pc'[Coordinator] = pc[Coordinator] /\ DOMAIN pc' = Users
      /\ \A x \in Signers \ {s} : pc'[x] = pc[x] /\ send_noise'[x] = send_noise[x]
      /\ pc'[s] = stage /\ send_noise'[s] = send_noise[s] + 1
      /\ send_noise[s] = IF pc[s] = "commit" THEN 0 ELSE 1
      /\ UNCHANGED <<inbox, state, recv_noise, todo, signing_package>>
  BY DEF Shape, TypeOK, Written, SignerOK, coordinatorVars
<1>2. send_noise' \in [Signers -> 0..2]
  BY <1>1 DEF TypeOK
<1>3. TypeOK'
  BY <1>1, <1>2 DEF TypeOK
<1>4. Shape'
  <2>1. SignerMsg' = SignerMsg /\ PackageMsg' = PackageMsg
    BY <1>1 DEF SignerMsg, PackageMsg
  <2>2. queue'[Coordinator] \in Seq(SignerMsg)
    BY AppendProperties DEF Shape
  <2>3. \A u \in Users \ {Coordinator} : queue'[u] = queue[u]
    BY DEF Shape
  <2> QED
    BY <1>1, <2>1, <2>2, <2>3 DEF Shape
<1>5. PackageOK'
  BY <1>1 DEF PackageOK
<1>6. SignedOK'
  BY <1>1 DEF SignedOK
<1>7. StateOK'
  BY <1>1 DEF StateOK
<1>8. ASSUME NEW x \in Signers PROVE SignerOK(x)'
  BY <1>1 DEF SignerOK
<1> QED
  BY <1>3, <1>4, <1>5, <1>6, <1>7, <1>8

\* A sealed message of a process.
LEMMA SealedType ==
    ASSUME Inv, NEW s \in Signers
    PROVE  Encrypt(send_noise[s], process[s]) \in Sealed
  BY SigningBoundsAssumption DEF Inv, TypeOK, Encrypt, Sealed

\* The commitments of a process are to its own nonces.
LEMMA SendCommitmentsInv ==
    ASSUME Inv, NEW s \in Signers, SendCommitments(s) PROVE Inv'
<1> DEFINE msg == [type   |-> "commitments", sender |-> s,
                   sealed |-> Encrypt(send_noise[s], process[s]),
                   value  |-> [nonces |-> process[s], len |-> num_messages]]
<1>1. pc[s] = "commit"
  BY DEF SendCommitments
<1>2. process[s] \in 1..MaxProcesses
  BY <1>1 DEF Inv, SignerOK
<1>3. msg \in SignerMsg
  BY <1>2, SealedType DEF SignerMsg
<1> QED
  BY <1>1, <1>3, SignerSends
  DEF SendCommitments, SendToCoordinator, Enqueue, Goto

\* The shares that are sent were made for the package that was received.
LEMMA SendSharesInv ==
    ASSUME Inv, NEW s \in Signers, SendShares(s) PROVE Inv'
<1> DEFINE msg == [type   |-> "shares", sender |-> s,
                   sealed |-> Encrypt(send_noise[s], process[s]),
                   value  |-> [nonces  |-> process[s], len |-> num_messages,
                               package |-> received[s]]]
<1>1. pc[s] = "share"
  BY DEF SendShares
<1>2. /\ process[s] \in 1..MaxProcesses
      /\ [signer |-> s, nonces |-> process[s], package |-> received[s]] \in signed
  BY <1>1 DEF Inv, SignerOK
<1>3. received[s] \in SigningPackage
  BY PackageType DEF Inv, TypeOK
<1>4. msg \in SignerMsg
  BY <1>2, <1>3, SealedType DEF SignerMsg
<1> QED
  BY <1>1, <1>4, SignerSends
  DEF SendShares, SendToCoordinator, Enqueue, Goto

\* What a signer receives is the coordinator's signing package.
LEMMA ReceivePackageInv ==
    ASSUME Inv, NEW s \in Signers, ReceivePackage(s) PROVE Inv'
<1> USE UsersFacts DEF Inv
<1>1. /\ pc[s] = "package" /\ queue[s] # <<>>
      /\ queue' = [queue EXCEPT ![s] = <<>>]
      /\ \/ /\ received' = [received EXCEPT ![s] = Head(queue[s]).value]
            /\ pc' = [pc EXCEPT ![s] = "confirm"]
            /\ UNCHANGED why
         \/ /\ received' = received
            /\ pc' = [pc EXCEPT ![s] = "failed"]
            /\ DOMAIN why' = DOMAIN why
      /\ UNCHANGED <<session, token, inbox, state, recv_noise, todo,
                     signing_package, process, send_noise, signed, faults>>
  BY DEF ReceivePackage, Fail, Goto, coordinatorVars
<1>2. Head(queue[s]).value = signing_package
  BY <1>1, HeadTailProperties DEF Shape, PackageMsg
<1>3. /\ pc'[Coordinator] = pc[Coordinator] /\ DOMAIN pc' = Users
      /\ DOMAIN received' = Signers
      /\ pc'[s] \in {"confirm", "failed"}
      /\ \A x \in Signers \ {s} : pc'[x] = pc[x] /\ received'[x] = received[x]
      /\ received'[s] \in {NoMap, signing_package}
  BY <1>1, <1>2 DEF Shape, PackageOK
<1>4. TypeOK'
  BY <1>1, <1>3, NoMapFacts DEF TypeOK, Ended
<1>5. Shape'
  <2>1. SignerMsg' = SignerMsg /\ PackageMsg' = PackageMsg
    BY <1>1 DEF SignerMsg, PackageMsg
  <2>2. <<>> \in Seq(PackageMsg)
    BY EmptySeq
  <2> QED
    BY <1>1, <1>3, <2>1, <2>2 DEF Shape
<1>6. PackageOK'
  BY <1>1, <1>3 DEF PackageOK
<1>7. SignedOK'
  BY <1>1 DEF SignedOK
<1>8. StateOK'
  BY <1>1, <1>3 DEF StateOK
<1>9. ASSUME NEW x \in Signers PROVE SignerOK(x)'
  BY <1>1, <1>3, ZenonT(60) DEF SignerOK
<1> QED
  BY <1>4, <1>5, <1>6, <1>7, <1>8, <1>9

\* Signing succeeds only for the package, with the nonces it commits to, and
\* uses up the nonces of the process.
LEMMA SignFacts ==
    ASSUME Inv, NEW s \in Signers, pc[s] = "confirm", SignResult(s) = "Ok"
    PROVE  /\ received[s] = signing_package /\ DOMAIN signing_package = Signers
           /\ process[s] = signing_package[s].nonces
           /\ process[s] \in 1..MaxProcesses
           /\ \A u \in signed : u.signer = s => u.nonces # process[s]
<1>1. s \in DOMAIN received[s] /\ received[s][s].nonces = process[s]
  BY DEF SignResult
<1>2. received[s] = signing_package /\ DOMAIN signing_package = Signers
  BY <1>1, NoMapFacts DEF Inv, PackageOK
<1> QED
  BY <1>1, <1>2 DEF Inv, SignerOK

\* The user's confirmation.
LEMMA ConfirmAndSignInv ==
    ASSUME Inv, NEW s \in Signers, ConfirmAndSign(s) PROVE Inv'
<1> USE UsersFacts DEF Inv
<1> DEFINE new == [signer |-> s, nonces |-> process[s], package |-> received[s]]
<1>1. CASE SignResult(s) # "Ok"
  <2>1. /\ pc[s] = "confirm" /\ pc' = [pc EXCEPT ![s] = "failed"]
        /\ why' = [why EXCEPT ![s] = SignResult(s)]
        /\ UNCHANGED <<session, queue, token, inbox, state, recv_noise, todo,
                       signing_package, process, send_noise, received, signed,
                       faults>>
    BY <1>1 DEF ConfirmAndSign, Fail, Goto, serverVars, coordinatorVars
  <2> QED
    BY <2>1, QuietStep DEF Shape, TypeOK, Ended
<1>2. CASE SignResult(s) = "Ok"
  <2>1. /\ pc[s] = "confirm" /\ pc' = [pc EXCEPT ![s] = "share"]
        /\ signed' = signed \cup {new}
        /\ UNCHANGED <<session, queue, token, why, inbox, state, recv_noise,
                       todo, signing_package, process, send_noise, received,
                       faults>>
    BY <1>2 DEF ConfirmAndSign, Goto, serverVars, coordinatorVars
  <2>2. /\ pc'[Coordinator] = pc[Coordinator] /\ DOMAIN pc' = Users
        /\ pc'[s] = "share" /\ \A x \in Signers \ {s} : pc'[x] = pc[x]
    BY <2>1 DEF Shape
  <2>3. TypeOK'
    BY <2>1, <2>2 DEF TypeOK
  <2>4. Shape'
    <3>1. SignerMsg \subseteq SignerMsg'
      BY <2>1 DEF SignerMsg
    <3>2. PackageMsg' = PackageMsg
      BY <2>1 DEF PackageMsg
    <3>3. queue[Coordinator] \in Seq(SignerMsg') /\ inbox \in Seq(SignerMsg')
      BY <3>1, SeqMonotone DEF Shape
    <3> QED
      BY <2>1, <2>2, <3>2, <3>3 DEF Shape
  <2>5. PackageOK'
    BY <2>1, <2>2 DEF PackageOK
  <2>6. SignedOK'
    <3>1. /\ new = [signer |-> s, nonces |-> process[s], package |-> signing_package]
          /\ DOMAIN signing_package = Signers
          /\ process[s] = signing_package[s].nonces
          /\ process[s] <= process[s]
      BY <1>2, <2>1, SignFacts
    <3> HIDE DEF new
    <3>2. new.signer = s /\ new.nonces = process[s]
      BY <3>1
    <3> QED
      BY <2>1, <3>1, <3>2 DEF SignedOK
  <2>7. StateOK'
    BY <2>1, <2>2 DEF StateOK
  <2>8. ASSUME NEW x \in Signers PROVE SignerOK(x)'
    BY <2>1, <2>2 DEF SignerOK
  <2> QED
    BY <2>3, <2>4, <2>5, <2>6, <2>7, <2>8
<1> QED
  BY <1>1, <1>2

-----------------------------------------------------------------------------
(* The coordinator handles a message.                                      *)

\* As many signers as there are, are all of them.
LEMMA AllSigners ==
    ASSUME NEW S, S \subseteq Signers, Cardinality(S) = Cardinality(Signers)
    PROVE  S = Signers
  BY SignersAssumption, FS_Subset

\* Commitments are collected before there is a signing package; the step that
\* leaves this state has those of all signers.
LEMMA HandlesCommitments ==
    ASSUME Inv, NEW msg \in SignerMsg, RecvResult(state, msg) = "Ok",
           state.tag = "WaitingForCommitments"
    PROVE  LET st == Recv(state, msg) IN
           /\ st.tag \in {"WaitingForCommitments", "WaitingForSignatureShares"}
           /\ st.tag = "WaitingForSignatureShares" => DOMAIN st.commitments = Signers
           /\ st.signature_shares = NoMap
           /\ IsPackage(st.commitments)
<1> DEFINE map == Inserted(state.commitments, msg.sender, msg.value)
<1>1. /\ msg.type = "commitments" /\ msg.sender \in Signers
      /\ msg.value \in [nonces : 1..MaxProcesses, len : {num_messages}]
  BY DEF RecvResult, SignerMsg
<1>2. IsPackage(state.commitments)
  BY DEF Inv, TypeOK
<1>3. IsPackage(map)
  <2>1. num_messages \in Nat
    BY SignersAssumption
  <2>2. msg.value \in Commitments
    BY <1>1, <2>1 DEF Commitments
  <2>3. map \in [DOMAIN state.commitments \cup {msg.sender} -> Commitments]
    BY <1>2, <2>2 DEF Inserted, IsPackage
  <2> QED
    BY <1>1, <1>2, <2>3 DEF Inserted, IsPackage
<1>4. Recv(state, msg)
        = [tag              |-> IF Cardinality(DOMAIN map) = Cardinality(Signers)
                                THEN "WaitingForSignatureShares"
                                ELSE "WaitingForCommitments",
           commitments      |-> map,
           signature_shares |-> NoMap]
  BY DEF Recv, HandleCommitments
<1>5. Cardinality(DOMAIN map) = Cardinality(Signers) => DOMAIN map = Signers
  BY <1>3, AllSigners DEF IsPackage
<1> QED
  BY <1>3, <1>4, <1>5

\* Shares are collected when there is a signing package, which then is that of
\* the state; the step that leaves this state has those of all signers.
LEMMA HandlesShares ==
    ASSUME Inv, NEW msg \in SignerMsg, RecvResult(state, msg) = "Ok",
           state.tag = "WaitingForSignatureShares"
    PROVE  LET st == Recv(state, msg) IN
           /\ DOMAIN signing_package = Signers
           /\ st.tag \in {"WaitingForSignatureShares", "SignatureSharesReady"}
           /\ st.tag = "WaitingForSignatureShares" =>
                 st.commitments = state.commitments
           /\ st.tag = "SignatureSharesReady" => DOMAIN st.signature_shares = Signers
           /\ IsPackage(st.commitments)
           /\ DOMAIN st.signature_shares \subseteq Signers
           /\ \A s \in DOMAIN st.signature_shares :
                 /\ st.signature_shares[s].nonces \in 1..MaxProcesses
                 /\ IsPackage(st.signature_shares[s].package)
                 /\ [signer |-> s, nonces |-> st.signature_shares[s].nonces,
                     package |-> st.signature_shares[s].package] \in signed
<1> DEFINE map == Inserted(state.signature_shares, msg.sender, msg.value)
<1>1. msg.type = "shares"
  BY DEF RecvResult
<1>2. /\ msg.sender \in Signers
      /\ msg.value.nonces \in 1..MaxProcesses
      /\ msg.value.package \in SigningPackage
      /\ [signer |-> msg.sender, nonces |-> msg.value.nonces,
          package |-> msg.value.package] \in signed
  BY <1>1 DEF SignerMsg
<1>3. DOMAIN signing_package = Signers
  BY <1>2 DEF Inv, SignedOK
<1>4. Recv(state, msg)
        = [tag              |-> IF DOMAIN map = DOMAIN state.commitments
                                THEN "SignatureSharesReady"
                                ELSE "WaitingForSignatureShares",
           commitments      |-> IF DOMAIN map = DOMAIN state.commitments
                                THEN NoMap ELSE state.commitments,
           signature_shares |-> map]
  BY DEF Recv, HandleSignatureShare
<1>5. DOMAIN state.commitments = Signers /\ IsPackage(state.commitments)
  BY DEF Inv, StateOK, TypeOK
<1>6. /\ DOMAIN map = DOMAIN state.signature_shares \cup {msg.sender}
      /\ map[msg.sender] = msg.value
      /\ \A s \in DOMAIN map \ {msg.sender} : map[s] = state.signature_shares[s]
  BY DEF Inserted
<1> HIDE DEF map
<1>7. DOMAIN map \subseteq Signers
  BY <1>2, <1>6 DEF Inv, TypeOK
<1>8. ASSUME NEW s \in DOMAIN map
      PROVE  /\ map[s].nonces \in 1..MaxProcesses
             /\ IsPackage(map[s].package)
             /\ [signer |-> s, nonces |-> map[s].nonces,
                 package |-> map[s].package] \in signed
  <2>1. CASE s = msg.sender
    BY <1>2, <1>6, <2>1, PackageType
  <2>2. CASE s # msg.sender
    <3>1. s \in DOMAIN state.signature_shares /\ map[s] = state.signature_shares[s]
      BY <1>6, <2>2
    <3> QED
      BY <3>1 DEF Inv, TypeOK, StateOK
  <2> QED
    BY <2>1, <2>2
<1> QED
  BY <1>3, <1>4, <1>5, <1>7, <1>8, NoMapFacts

\* The signing package is made once, when nothing was sent or signed yet.
LEMMA CoordinatorHandleInv == ASSUME Inv, CoordinatorHandle PROVE Inv'
<1> DEFINE msg == Head(inbox)
           st  == Recv(state, msg)
<1> USE UsersFacts DEF Inv
<1>1. /\ pc[Coordinator] \in {"commitments", "shares"}
      /\ inbox # <<>> /\ inbox' = Tail(inbox)
      /\ RecvResult(state, msg) = "Ok" /\ state' = st
      /\ recv_noise' = [recv_noise EXCEPT ![msg.sender] = Decrypted(@, msg.sealed)]
      /\ \/ /\ pc[Coordinator] = "commitments" /\ HasCommitments(st)
            /\ pc' = [pc EXCEPT ![Coordinator] = "send"]
            /\ todo' = Signers /\ signing_package' = st.commitments
         \/ /\ UNCHANGED <<todo, signing_package>>
            /\ \/ /\ pc[Coordinator] = "shares" /\ HasSignatureShares(st)
                  /\ pc' = [pc EXCEPT ![Coordinator] = "close"]
               \/ UNCHANGED pc
      /\ UNCHANGED <<session, queue, token, why, process, send_noise, received,
                     signed, faults>>
  <2>1. HandleResult(msg) = "Ok" => RecvResult(state, msg) = "Ok"
    BY DEF HandleResult
  <2> QED
    BY <2>1 DEF CoordinatorHandle, Goto, serverVars, signerVars
<1>2. msg \in SignerMsg /\ inbox' \in Seq(SignerMsg)
  BY <1>1, HeadTailProperties DEF Shape
<1> HIDE DEF msg, st
<1>3. /\ DOMAIN recv_noise' = Signers
      /\ \A s \in Signers : IsReceiver(recv_noise'[s])
  <2>1. msg.sealed.process \in Nat /\ msg.sealed.n \in Nat
    BY <1>2 DEF SignerMsg, Sealed
  <2>2. \A r : IsReceiver(Decrypted(r, msg.sealed))
    BY <2>1 DEF IsReceiver, Decrypted
  <2> QED
    BY <1>1, <2>2 DEF Shape, TypeOK
<1>4. DOMAIN pc' = Users /\ \A s \in Signers : pc'[s] = pc[s]
  BY <1>1 DEF Shape
<1>5. state.tag \in {"WaitingForCommitments", "WaitingForSignatureShares"}
  BY <1>1 DEF RecvResult, StateOK
<1>6. CASE state.tag = "WaitingForCommitments"
  <2>1. /\ st.tag \in {"WaitingForCommitments", "WaitingForSignatureShares"}
        /\ st.tag = "WaitingForSignatureShares" => DOMAIN st.commitments = Signers
        /\ st.signature_shares = NoMap
        /\ IsPackage(st.commitments)
    BY <1>1, <1>2, <1>6, HandlesCommitments DEF st
  <2>2. /\ signing_package = NoMap /\ signed = {}
        /\ \A s \in Signers : received[s] = NoMap
        /\ pc[Coordinator] = "commitments"
    BY <1>1, <1>6, NoMapFacts DEF StateOK, SignedOK, PackageOK
  <2>3. \/ /\ pc'[Coordinator] = "send" /\ signing_package' = st.commitments
           /\ st.tag = "WaitingForSignatureShares" /\ todo' = Signers
        \/ /\ pc'[Coordinator] = "commitments" /\ signing_package' = NoMap
           /\ todo' = todo
    BY <1>1, <2>2 DEF HasCommitments, Shape
  <2>4. TypeOK'
    BY <1>1, <1>3, <1>4, <2>1, <2>3, NoMapFacts DEF TypeOK
  <2>5. Shape'
    <3>1. SignerMsg' = SignerMsg
      BY <1>1 DEF SignerMsg
    <3>2. PackageMsg \subseteq PackageMsg'
      BY <2>2, NoMapFacts DEF PackageMsg
    <3>3. \A s \in Signers : queue[s] \in Seq(PackageMsg')
      BY <3>2, SeqMonotone DEF Shape
    <3> QED
      BY <1>1, <1>2, <1>3, <1>4, <3>1, <3>3 DEF Shape
  <2>6. PackageOK'
    BY <1>1, <2>1, <2>2, <2>3 DEF PackageOK
  <2>7. SignedOK' /\ \A s \in Signers : SignerOK(s)'
    BY <1>1, <1>4, <2>2 DEF SignedOK, SignerOK
  <2>8. StateOK'
    BY <1>1, <2>1, <2>2, <2>3, NoMapFacts DEF StateOK
  <2> QED
    BY <2>4, <2>5, <2>6, <2>7, <2>8
<1>7. CASE state.tag = "WaitingForSignatureShares"
  <2>1. /\ DOMAIN signing_package = Signers
        /\ st.tag \in {"WaitingForSignatureShares", "SignatureSharesReady"}
        /\ st.tag = "WaitingForSignatureShares" =>
              st.commitments = state.commitments
        /\ st.tag = "SignatureSharesReady" => DOMAIN st.signature_shares = Signers
        /\ IsPackage(st.commitments)
        /\ DOMAIN st.signature_shares \subseteq Signers
        /\ \A s \in DOMAIN st.signature_shares :
              /\ st.signature_shares[s].nonces \in 1..MaxProcesses
              /\ IsPackage(st.signature_shares[s].package)
              /\ [signer |-> s, nonces |-> st.signature_shares[s].nonces,
                  package |-> st.signature_shares[s].package] \in signed
    BY <1>1, <1>2, <1>7, HandlesShares DEF st
  <2>2. /\ pc[Coordinator] = "shares"
        /\ UNCHANGED <<todo, signing_package>>
        /\ \/ pc'[Coordinator] = "close" /\ st.tag = "SignatureSharesReady"
           \/ pc'[Coordinator] = "shares"
    BY <1>1, <2>1, NoMapFacts DEF PackageOK, HasSignatureShares, Shape
  <2>3. TypeOK'
    BY <1>1, <1>3, <1>4, <2>1, <2>2 DEF TypeOK
  <2>4. Shape'
    <3>1. SignerMsg' = SignerMsg /\ PackageMsg' = PackageMsg
      BY <1>1, <2>2 DEF SignerMsg, PackageMsg
    <3> QED
      BY <1>1, <1>2, <1>3, <1>4, <3>1 DEF Shape
  <2>5. PackageOK'
    BY <1>1, <2>1, <2>2 DEF PackageOK
  <2>6. SignedOK' /\ \A s \in Signers : SignerOK(s)'
    BY <1>1, <1>4, <2>2 DEF SignedOK, SignerOK
  <2>7. StateOK'
    BY <1>1, <1>7, <2>1, <2>2 DEF StateOK
  <2> QED
    BY <2>3, <2>4, <2>5, <2>6, <2>7
<1> QED
  BY <1>5, <1>6, <1>7

\* Every step keeps the invariant.
LEMMA NextInv == Inv /\ [Next]_vars => Inv'
  BY QuietSteps, SendPackageInv, StartProcessInv, SendCommitmentsInv,
     SendSharesInv, ReceivePackageInv, ConfirmAndSignInv, CoordinatorHandleInv,
     UsersFacts
  DEF Next, CoordinatorStep, SignerStep

\* The inductive invariant of a signing.
LEMMA SigningInvariant == Spec => []Inv
  BY InitInv, NextInv, PTL DEF Spec

\* Type correctness of a signing.
THEOREM SigningTypesAreCorrect == Spec => []TypeOK
<1>1. Inv => TypeOK
  BY DEF Inv
<1> QED
  BY <1>1, SigningInvariant, PTL

\* Nonces sign one signing package, which commits to them: there is only one
\* package, whoever starts again and finds it in its queue.
THEOREM NoncesSignOnePackage == Spec => []NoncesUsedAsCommitted
<1>1. Inv => NoncesUsedAsCommitted
  BY DEF Inv, SignedOK, NoncesUsedAsCommitted
<1> QED
  BY <1>1, SigningInvariant, PTL

\* When the coordinator has the shares it waited for, they are those of all
\* signers for its signing package, with the nonces the package commits to.
LEMMA ReadySharesFit ==
    ASSUME Inv, state.tag = "SignatureSharesReady"
    PROVE  /\ DOMAIN state.signature_shares = Signers
           /\ AggregateOk
           /\ \A s \in Signers :
                 [signer |-> s, nonces |-> state.signature_shares[s].nonces,
                  package |-> signing_package] \in signed
<1>1. DOMAIN state.signature_shares = Signers
  BY DEF Inv, StateOK
<1>2. ASSUME NEW s \in Signers
      PROVE  /\ state.signature_shares[s].nonces = signing_package[s].nonces
             /\ state.signature_shares[s].package = signing_package
             /\ [signer |-> s, nonces |-> state.signature_shares[s].nonces,
                 package |-> signing_package] \in signed
  <2> DEFINE u == [signer |-> s, nonces |-> state.signature_shares[s].nonces,
                   package |-> state.signature_shares[s].package]
  <2>1. u \in signed
    BY <1>1 DEF Inv, StateOK
  <2>2. u.signer = s /\ u.nonces = state.signature_shares[s].nonces
        /\ u.package = state.signature_shares[s].package
    OBVIOUS
  <2> HIDE DEF u
  <2>3. /\ u = [signer |-> u.signer, nonces |-> u.nonces, package |-> signing_package]
        /\ u.nonces = signing_package[u.signer].nonces
    BY <2>1 DEF Inv, SignedOK
  <2>4. u.package = signing_package
    BY <2>3
  <2> QED
    BY <2>1, <2>2, <2>3, <2>4
<1>3. DOMAIN signing_package \subseteq Signers
  BY DEF Inv, TypeOK, IsPackage
<1> QED
  BY <1>1, <1>2, <1>3 DEF AggregateOk

\* So aggregating them cannot fail, whoever crashed and started again.
THEOREM CollectedSharesFit == Spec => []SharesFit
<1>1. Inv => SharesFit
  BY ReadySharesFit DEF SharesFit, HasSignatureShares
<1> QED
  BY <1>1, SigningInvariant, PTL

-----------------------------------------------------------------------------
(* A signing implements FrostSigning.                                      *)

\* The library's Cardinality under its name in FS.
LEMMA SameCardinality == ASSUME NEW S PROVE FS!Cardinality(S) = Cardinality(S)
  BY DEF FS!Cardinality, Cardinality

\* What was signed, as FrostSigning sees it.
AbstractSigned == {[signer |-> u.signer, nonces |-> u.nonces,
                    package |-> AbstractPackage(u.package)] : u \in signed}

\* The abstract form of the signing package is a package of all signers.
LEMMA AbstractPackageType ==
    ASSUME Inv, DOMAIN signing_package = Signers
    PROVE  LET p == AbstractPackage(signing_package) IN
           /\ p \in FS!Packages
           /\ DOMAIN p.commitments = Signers
           /\ \A s \in Signers : p.commitments[s] = signing_package[s].nonces
<1>1. signing_package \in [Signers -> Commitments]
  BY DEF Inv, TypeOK, IsPackage
<1>2. [s \in Signers |-> signing_package[s].nonces] \in [Signers -> 1..MaxProcesses]
  BY <1>1 DEF Commitments
<1>3. AbstractPackage(signing_package)
        = [message |-> 1, commitments |-> [s \in Signers |-> signing_package[s].nonces]]
  BY DEF AbstractPackage
<1> QED
  BY <1>2, <1>3 DEF FS!Packages

\* Confirming and signing is an abstract share: its nonces are those that the
\* package commits to, and were never used.
LEMMA SharesAreAbstract ==
    ASSUME Inv, NEW s \in Signers, ConfirmAndSign(s), SignResult(s) = "Ok"
    PROVE  FS!Share(s, process[s], AbstractPackage(signing_package))
<1> DEFINE p == AbstractPackage(signing_package)
           new == [signer |-> s, nonces |-> process[s], package |-> signing_package]
<1>1. /\ pc[s] = "confirm" /\ pc' = [pc EXCEPT ![s] = "share"]
      /\ signed' = signed \cup
           {[signer |-> s, nonces |-> process[s], package |-> received[s]]}
      /\ signing_package' = signing_package
  BY DEF ConfirmAndSign, Goto, coordinatorVars
<1>2. /\ received[s] = signing_package /\ DOMAIN signing_package = Signers
      /\ process[s] = signing_package[s].nonces
      /\ \A u \in signed : u.signer = s => u.nonces # process[s]
  BY <1>1, SignFacts
<1>3. DOMAIN p.commitments = Signers /\ p.commitments[s] = process[s]
  BY <1>2, AbstractPackageType
<1>4. FS!Cardinality(DOMAIN p.commitments) >= Cardinality(Signers)
  BY <1>3, SignersAssumption, FS_CardinalityType, SameCardinality
<1>5. \A u \in AbstractSigned : ~(u.signer = s /\ u.nonces = process[s])
  BY <1>2 DEF AbstractSigned
<1>6. AbstractSigned'
        = AbstractSigned \cup {[signer |-> s, nonces |-> process[s], package |-> p]}
  <2>1. signed' = signed \cup {new}
    BY <1>1, <1>2
  <2>2. /\ new.signer = s /\ new.nonces = process[s] /\ new.package = signing_package
    OBVIOUS
  <2> HIDE DEF new
  <2> QED
    BY <2>1, <2>2 DEF AbstractSigned, AbstractPackage
<1>7. UNCHANGED (IF pc[Coordinator] = "done"
                 THEN {AbstractPackage(signing_package)} ELSE {})
  BY <1>1, UsersFacts DEF Inv, Shape, AbstractPackage
<1> HIDE DEF p
<1>8. FS!Share(s, process[s], p)
  BY <1>3, <1>4, <1>5, <1>6, <1>7 DEF FS!Share, AbstractSigned
<1> QED
  BY <1>8 DEF p

\* Its signature, as FrostSigning sees it.
AbstractSignatures ==
    IF pc[Coordinator] = "done" THEN {AbstractPackage(signing_package)} ELSE {}

\* A signature is made when the coordinator is done, of the package of which
\* every signer made its share.
LEMMA SignatureIsAbstract ==
    ASSUME Inv, LogoutAndAggregate
    PROVE  FS!Aggregate \/ UNCHANGED <<AbstractSigned, AbstractSignatures>>
<1> DEFINE p == AbstractPackage(signing_package)
<1>1. /\ pc[Coordinator] = "logout" /\ pc'[Coordinator] \in {"done", "failed"}
      /\ UNCHANGED <<signed, signing_package>>
  BY UsersFacts DEF LogoutAndAggregate, Goto, coordinatorVars, signerVars, Inv, Shape
<1>2. AbstractSigned' = AbstractSigned /\ p' = p
  BY <1>1 DEF AbstractSigned, AbstractPackage
<1>3. state.tag = "SignatureSharesReady" /\ DOMAIN signing_package = Signers
  BY <1>1 DEF Inv, StateOK, PackageOK
<1>4. ASSUME NEW s \in Signers
      PROVE  [signer |-> s, nonces |-> p.commitments[s], package |-> p]
                \in AbstractSigned
  <2> DEFINE u == [signer |-> s, nonces |-> state.signature_shares[s].nonces,
                   package |-> signing_package]
  <2>1. /\ u \in signed
        /\ state.signature_shares[s].nonces = signing_package[s].nonces
    BY <1>3, ReadySharesFit DEF AggregateOk
  <2>2. p.commitments[s] = signing_package[s].nonces
    BY <1>3, AbstractPackageType
  <2>3. /\ u.signer = s /\ u.nonces = p.commitments[s]
        /\ AbstractPackage(u.package) = p
    BY <2>1, <2>2
  <2> HIDE DEF u, p
  <2> QED
    BY <2>1, <2>3 DEF AbstractSigned
<1>5. DOMAIN p.commitments = Signers
  BY <1>3, AbstractPackageType
<1> HIDE DEF p
<1>6. p \in FS!Complete
  <2>1. PICK s \in Signers : TRUE
    BY SignersAssumption
  <2>2. \A w \in AbstractSigned :
           w.package \in {u.package : u \in AbstractSigned}
    OBVIOUS
  <2>3. p \in {u.package : u \in AbstractSigned}
    BY <1>4, <2>1, <2>2
  <2> QED
    BY <1>4, <1>5, <2>3 DEF FS!Complete, AbstractSigned
<1>7. AbstractSignatures' = IF pc'[Coordinator] = "done" THEN {p} ELSE {}
  BY <1>2 DEF AbstractSignatures, p
<1>8. AbstractSignatures = {}
  BY <1>1 DEF AbstractSignatures
<1>9. CASE pc'[Coordinator] = "done"
  <2>1. {p} \in SUBSET FS!Complete /\ AbstractSignatures' = AbstractSignatures \cup {p}
    BY <1>6, <1>7, <1>8, <1>9
  <2>2. FS!Aggregate
    BY <1>2, <2>1 DEF FS!Aggregate, AbstractSigned, AbstractSignatures
  <2> QED
    BY <2>2
<1>10. CASE pc'[Coordinator] = "failed"
  BY <1>2, <1>7, <1>8, <1>10
<1> QED
  BY <1>1, <1>9, <1>10

\* No other step makes shares or a signature.
LEMMA OtherStepsStutter ==
    ASSUME Inv,
           \/ CreateSession \/ CoordinatorReceive \/ CoordinatorHandleFails
           \/ CoordinatorHandle \/ CloseSession \/ Cleanup
           \/ Fault \/ Finished \/ UNCHANGED vars
           \/ \E s \in Signers :
                 \/ JoinFails(s) \/ ReceiveNothing(s) \/ Cancel(s)
                 \/ LogoutSigner(s) \/ SendPackage(s) \/ StartProcess(s)
                 \/ SendCommitments(s) \/ SendShares(s) \/ ReceivePackage(s)
                 \/ ConfirmAndSign(s) /\ SignResult(s) # "Ok"
           \/ \E u \in Users : CallFails(u) \/ TokenExpires(u) \/ Crash(u)
    PROVE  UNCHANGED <<AbstractSigned, AbstractSignatures>>
<1> USE UsersFacts
<1> USE DEF Goto, Fail, Ended, serverVars, coordinatorVars, signerVars
<1>1. DOMAIN pc = Users
  BY DEF Inv, Shape
<1>2. /\ signed' = signed
      /\ \/ signing_package' = signing_package
            /\ (pc'[Coordinator] = "done" <=> pc[Coordinator] = "done")
         \/ pc[Coordinator] # "done" /\ pc'[Coordinator] # "done"
  <2>1. CASE \/ CreateSession \/ CoordinatorReceive \/ CoordinatorHandleFails
             \/ CloseSession \/ Cleanup \/ Fault
    BY <1>1, <2>1 DEF CreateSession, CoordinatorReceive, CoordinatorHandleFails,
       CloseSession, Cleanup, Fault, Active
  <2>2. CASE CoordinatorHandle
    BY <1>1, <2>2 DEF CoordinatorHandle
  <2>3. CASE Finished \/ UNCHANGED vars
    BY <1>1, <2>3 DEF Finished, vars
  <2>4. ASSUME NEW s \in Signers, JoinFails(s) \/ ReceiveNothing(s)
        PROVE  signed' = signed /\ signing_package' = signing_package /\ pc' = pc
    BY <2>4 DEF JoinFails, ReceiveNothing, vars
  <2>5. ASSUME NEW s \in Signers,
               \/ Cancel(s) \/ LogoutSigner(s) \/ StartProcess(s)
               \/ ReceivePackage(s) \/ SendCommitments(s) \/ SendShares(s)
               \/ ConfirmAndSign(s) /\ SignResult(s) # "Ok"
        PROVE  /\ signed' = signed /\ signing_package' = signing_package
               /\ pc'[Coordinator] = pc[Coordinator]
    BY <1>1, <2>5 DEF Cancel, LogoutSigner, StartProcess, ReceivePackage,
       SendCommitments, SendShares, SendToCoordinator, ConfirmAndSign
  <2>6. ASSUME NEW s \in Signers, SendPackage(s)
        PROVE  /\ signed' = signed /\ signing_package' = signing_package
               /\ pc[Coordinator] # "done" /\ pc'[Coordinator] # "done"
    BY <1>1, <2>6 DEF SendPackage
  <2>7. ASSUME NEW u \in Users, CallFails(u) \/ TokenExpires(u) \/ Crash(u)
        PROVE  /\ signed' = signed /\ signing_package' = signing_package
               /\ pc'[Coordinator] = "done" <=> pc[Coordinator] = "done"
    BY <1>1, <2>7 DEF CallFails, TokenExpires, Crash, Active
  <2> QED
    BY <2>1, <2>2, <2>3, <2>4, <2>5, <2>6, <2>7
<1>3. AbstractSigned' = AbstractSigned
  BY <1>2 DEF AbstractSigned, AbstractPackage
<1>4. AbstractSignatures' = AbstractSignatures
  BY <1>2 DEF AbstractSignatures, AbstractPackage
<1> QED
  BY <1>3, <1>4

\* Every step is one of FrostSigning or none.
LEMMA StepsAreAbstract ==
    ASSUME Inv, [Next]_vars
    PROVE  FS!Next \/ UNCHANGED <<AbstractSigned, AbstractSignatures>>
<1>1. CASE LogoutAndAggregate
  BY <1>1, SignatureIsAbstract DEF FS!Next
<1>2. ASSUME NEW s \in Signers, ConfirmAndSign(s), SignResult(s) = "Ok"
      PROVE  FS!Next
  <2> DEFINE p == AbstractPackage(signing_package)
  <2>1. FS!Share(s, process[s], p)
    BY <1>2, SharesAreAbstract
  <2>2. p \in FS!Packages
    BY <1>2, SignFacts, AbstractPackageType DEF ConfirmAndSign
  <2>3. process[s] \in 1..MaxProcesses
    BY <1>2 DEF Inv, SignerOK, ConfirmAndSign
  <2> HIDE DEF p
  <2> QED
    BY <2>1, <2>2, <2>3 DEF FS!Next, FS!Share
<1>3. CASE \/ CreateSession \/ CoordinatorReceive \/ CoordinatorHandleFails
           \/ CoordinatorHandle \/ CloseSession \/ Cleanup
           \/ Fault \/ Finished \/ UNCHANGED vars
           \/ \E s \in Signers :
                 \/ JoinFails(s) \/ ReceiveNothing(s) \/ Cancel(s)
                 \/ LogoutSigner(s) \/ SendPackage(s) \/ StartProcess(s)
                 \/ SendCommitments(s) \/ SendShares(s) \/ ReceivePackage(s)
                 \/ ConfirmAndSign(s) /\ SignResult(s) # "Ok"
           \/ \E u \in Users : CallFails(u) \/ TokenExpires(u) \/ Crash(u)
  BY <1>3, OtherStepsStutter
<1> QED
  BY <1>1, <1>2, <1>3, UsersFacts DEF Next, CoordinatorStep, SignerStep

\* Over the server, with signers and messages that come twice, late or never,
\* each nonces are used once, and a signature appears only if every signer in
\* its package has confirmed this very package.
THEOREM SigningImplementsFrostSigning == Spec => ImplementsFrostSigning
<1>1. Init => FS!Init
  <2>1. Init => signed = {} /\ pc[Coordinator] = "start"
    BY UsersFacts DEF Init
  <2> QED
    BY <2>1 DEF FS!Init
<1>2. Inv /\ [Next]_vars => [FS!Next]_<<AbstractSigned, AbstractSignatures>>
  BY StepsAreAbstract
<1>3. Inv /\ [Next]_vars =>
        [FS!Next]_<<{[signer |-> u.signer, nonces |-> u.nonces,
                      package |-> AbstractPackage(u.package)] : u \in signed},
                    IF pc[Coordinator] = "done"
                    THEN {AbstractPackage(signing_package)} ELSE {}>>
  BY <1>2 DEF AbstractSigned, AbstractSignatures
<1> QED
  BY <1>1, <1>3, SigningInvariant, PTL DEF Spec, ImplementsFrostSigning, FS!Spec

=============================================================================
