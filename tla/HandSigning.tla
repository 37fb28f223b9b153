---------------------------- MODULE HandSigning -----------------------------
(***************************************************************************)
(* A FROST signing by copy and paste: the programs `coordinator' and       *)
(* `participant' (frost-client/src/coordinator/main.rs, cli.rs, args.rs,   *)
(* comms/cli.rs, participant/main.rs, cli.rs, comms/cli.rs) print what     *)
(* they have for the others and prompt for what they need.  People carry   *)
(* it between them, and may err; programs are only told what is typed in.  *)
(*                                                                         *)
(* A participant's program signs one message with fresh nonces and ends;   *)
(* the coordinator's may sign several messages, first collecting the       *)
(* commitments for all of them, so a signer runs one program per message.  *)
(* A run of a signer's program is <<identifier, number>>, which also names *)
(* its nonces and the commitments to them.                                 *)
(*                                                                         *)
(* With redpallas the participant prompts for a randomizer, but this       *)
(* coordinator knows none: only a randomizer of zero gives a share that    *)
(* fits.                                                                   *)
(***************************************************************************)
EXTENDS Naturals, FiniteSets, Sequences

CONSTANTS
    Identifiers,     \* those of the public key package
    Typed,           \* what may be typed for an identifier
    MinSigners,      \* the threshold of the key
    num_signers,     \* the number of participants of this signing
    num_messages,    \* the number of messages to sign
    Nothing,         \* no package, or input that does not parse
    MaxRuns,         \* bound on the runs of one signer's program
    MaxFaults        \* bound on errors in copying, refusals and crashes

ASSUME IdentifiersAssumption ==
    Identifiers \subseteq Typed /\ Typed \subseteq Nat /\ IsFiniteSet(Typed)
ASSUME HandCountsAssumption ==
    /\ MinSigners \in Nat \ {0} /\ num_signers \in MinSigners..Cardinality(Identifiers)
    /\ num_messages \in Nat \ {0}
    /\ MaxRuns \in Nat /\ MaxFaults \in Nat

VARIABLES
    rerandomized,    \* the ciphersuite is redpallas
    randomizers,     \* how many were passed to the coordinator with -r
    coord,           \* the coordinator's program
    run,             \* the runs of the participants' programs
    faults           \* errors, refusals and crashes so far

vars == <<rerandomized, randomizers, coord, run, faults>>

Runs == Identifiers \X (1..MaxRuns)
NoMap == [i \in {} |-> {}]
PartialMap(f, D, R) == DOMAIN f \subseteq D /\ \A i \in DOMAIN f : f[i] \in R

\* A signing package: the number of its message, and commitments by signer.
IsPackage(p) ==
    /\ DOMAIN p = {"message", "commitments"}
    /\ p.message \in 1..num_messages
    /\ PartialMap(p.commitments, Identifiers, Runs)

TypeOK ==
    /\ randomizers \in 0..num_messages + 1
    /\ coord.pc \in {"start", "commitments", "shares", "done", "failed"}
    /\ coord.entered \in 0..num_signers
    /\ Len(coord.commitments) <= num_messages
    /\ \A i \in DOMAIN coord.commitments :
          PartialMap(coord.commitments[i], Identifiers, Runs)
    /\ Len(coord.shares) <= num_messages
    /\ \A i \in DOMAIN coord.shares :
          PartialMap(coord.shares[i], Identifiers, Runs)
    /\ \A r \in Runs :
          /\ run[r].pc \in {"none", "package", "confirm", "done", "failed"}
          /\ run[r].pc \in {"confirm", "done"} => IsPackage(run[r].package)
    /\ faults \in 0..MaxFaults

Init ==
    /\ rerandomized \in BOOLEAN
    /\ randomizers \in 0..num_messages + 1
    /\ coord = [pc |-> "start", entered |-> 0, commitments |-> <<>>, shares |-> <<>>]
    /\ run = [r \in Runs |->
                [pc |-> "none", package |-> Nothing, randomizer |-> "none"]]
    /\ faults = 0

-----------------------------------------------------------------------------
(* The coordinator.                                                        *)

Package(i) == [message |-> i, commitments |-> coord.commitments[i]]

\* The packages on the screen: they are printed one at a time.
Printed == {Package(i) : i \in DOMAIN coord.shares}

\* The number of randomizers is checked first.
StartCoordinator ==
    /\ coord.pc = "start"
    /\ coord' = IF randomizers \in {0, num_messages}
                THEN [coord EXCEPT !.pc = "commitments", !.commitments = <<NoMap>>]
                ELSE [coord EXCEPT !.pc = "failed"]
    /\ UNCHANGED <<rerandomized, randomizers, run, faults>>

\* Mutant: the identifier need not be one of the public key package.
ValidateDuplicates(id, participants_list) == id \notin participants_list

\* Mutant: the list is kept from one message to the next.
ValidateAll(id, participants_list) ==
    /\ id \in Identifiers
    /\ \A i \in DOMAIN coord.commitments : id \notin DOMAIN coord.commitments[i]

Validate(id, participants_list) ==
    /\ id \in Identifiers
    /\ id \notin participants_list

\* After the commitments for the last message, randomizers are refused, and
\* the first package is printed.
AfterCommitments(c) ==
    IF c.entered < num_signers THEN c
    ELSE IF Len(c.commitments) < num_messages
    THEN [c EXCEPT !.entered = 0, !.commitments = Append(@, NoMap)]
    ELSE IF randomizers # 0 THEN [c EXCEPT !.pc = "failed"]
    ELSE [c EXCEPT !.pc = "shares", !.shares = <<NoMap>>]

\* The next participant's identifier and commitments are typed in.
EnterCommitments(id, commitments) ==
    LET k    == Len(coord.commitments)
        list == DOMAIN coord.commitments[k]
        new  == [i \in list \cup {id} |->
                    IF i = id THEN commitments ELSE coord.commitments[k][i]]
    IN
    /\ coord.pc = "commitments"
    /\ coord' = IF Validate(id, list) /\ commitments # Nothing
                THEN AfterCommitments([coord EXCEPT !.entered = @ + 1,
                                                    !.commitments[k] = new])
                ELSE [coord EXCEPT !.pc = "failed"]
    /\ UNCHANGED <<rerandomized, randomizers, run>>

\* Whose share is prompted for: the signers of the package in order.
Prompted ==
    LET k    == Len(coord.shares)
        left == DOMAIN coord.commitments[k] \ DOMAIN coord.shares[k]
    IN  CHOOSE i \in left : \A j \in left : i <= j

\* A share fits the package it was made for, under the commitments of the run
\* that made it, and without a randomizer but zero.
Fits(id, r, i) ==
    /\ coord.commitments[i][id] = r
    /\ r[1] = id
    /\ run[r].package = Package(i)
    /\ run[r].randomizer # "other"

\* Mutant: the errors of aggregate are dropped.
AggregateAnything(shares) == TRUE

\* frost_core's aggregate succeeds for every message.
AggregateOk(shares) ==
    \A i \in DOMAIN shares : \A id \in DOMAIN shares[i] : Fits(id, shares[i][id], i)

\* After the last share of a package the next package is printed; after those
\* of the last, the signatures are.
AfterShares(c) ==
    LET k == Len(c.shares) IN
    IF DOMAIN c.shares[k] # DOMAIN c.commitments[k] THEN c
    ELSE IF k < num_messages THEN [c EXCEPT !.shares = Append(@, NoMap)]
    ELSE [c EXCEPT !.pc = IF AggregateOk(c.shares) THEN "done" ELSE "failed"]

\* The share that run r has printed is typed in.
EnterShare(r) ==
    LET k   == Len(coord.shares)
        new == [i \in DOMAIN coord.shares[k] \cup {Prompted} |->
                   IF i = Prompted THEN r ELSE coord.shares[k][i]]
    IN
    /\ coord.pc = "shares"
    /\ coord' = IF r = Nothing THEN [coord EXCEPT !.pc = "failed"]
                ELSE AfterShares([coord EXCEPT !.shares[k] = new])
    /\ UNCHANGED <<rerandomized, randomizers, run>>

-----------------------------------------------------------------------------
(* The participants.                                                       *)

\* A run: the nonces are made, and the commitments printed.
StartRun(r) ==
    /\ run[r].pc = "none"
    /\ r[2] > 1 => run[<<r[1], r[2] - 1>>].pc # "none"
    /\ run' = [run EXCEPT ![r].pc = "package"]
    /\ UNCHANGED <<rerandomized, randomizers, coord, faults>>

\* A signing package is typed in, and with redpallas a randomizer.
EnterPackage(r, p, randomizer) ==
    /\ run[r].pc = "package"
    /\ (randomizer = "none") = ~rerandomized
    /\ run' = [run EXCEPT ![r] =
         [pc |-> IF p = Nothing THEN "failed" ELSE "confirm",
          package |-> p, randomizer |-> randomizer]]
    /\ UNCHANGED <<rerandomized, randomizers, coord>>

\* frost_core's round2::sign: enough commitments, and the signer's own.
SignOk(r) ==
    LET commitments == run[r].package.commitments IN
    /\ Cardinality(DOMAIN commitments) >= MinSigners
    /\ r[1] \in DOMAIN commitments
    /\ commitments[r[1]] = r

\* The user confirms; the share is printed and the program ends.
ConfirmAndSign(r) ==
    /\ run[r].pc = "confirm"
    /\ run' = [run EXCEPT ![r].pc = IF SignOk(r) THEN "done" ELSE "failed"]
    /\ UNCHANGED <<rerandomized, randomizers, coord, faults>>

-----------------------------------------------------------------------------
(* Who carries what, and what goes wrong.                                  *)

\* The commitments that were printed, and the shares.
Committed == {r \in Runs : run[r].pc # "none"}
Shared == {r \in Runs : run[r].pc = "done"}

\* Whose commitments are in some package.
Used == UNION {{coord.commitments[i][id] : id \in DOMAIN coord.commitments[i]} :
                  i \in DOMAIN coord.commitments}

\* A signer not yet entered for this message, with a run not yet used.
CarefulCommitments(id) ==
    /\ coord.pc = "commitments"
    /\ id \notin DOMAIN coord.commitments[Len(coord.commitments)]
    /\ \E r \in Committed \ Used : r[1] = id /\ EnterCommitments(id, r)
    /\ UNCHANGED faults

\* The package that commits to this run; any randomizer, as none is known.
CarefulPackage(r) ==
    /\ \E p \in Printed, randomizer \in {"none", "zero", "other"} :
          /\ r[1] \in DOMAIN p.commitments
          /\ p.commitments[r[1]] = r
          /\ EnterPackage(r, p, randomizer)
    /\ UNCHANGED faults

\* The share of the run that the package commits to.
CarefulShare ==
    /\ coord.pc = "shares"
    /\ LET r == coord.commitments[Len(coord.shares)][Prompted] IN
          r \in Shared /\ EnterShare(r)
    /\ UNCHANGED faults

Fault ==
    /\ faults < MaxFaults
    /\ faults' = faults + 1

CarelessCommitments ==
    /\ Fault
    /\ \E id \in Typed, r \in Committed \cup {Nothing} : EnterCommitments(id, r)

CarelessPackage(r) ==
    /\ Fault
    /\ \E p \in Printed \cup {Nothing}, randomizer \in {"none", "zero", "other"} :
          EnterPackage(r, p, randomizer)

CarelessShare ==
    /\ Fault
    /\ \E r \in Shared \cup {Nothing} : EnterShare(r)

\* The user does not confirm, or the program crashes.
RunFails(r) ==
    /\ Fault
    /\ run[r].pc \in {"package", "confirm"}
    /\ run' = [run EXCEPT ![r].pc = "failed"]
    /\ UNCHANGED <<rerandomized, randomizers, coord>>

CoordinatorFails ==
    /\ Fault
    /\ coord.pc \in {"commitments", "shares"}
    /\ coord' = [coord EXCEPT !.pc = "failed"]
    /\ UNCHANGED <<rerandomized, randomizers, run>>

\* The coordinator has ended, or people have erred and given up.
Finished ==
    /\ coord.pc \in {"done", "failed"} \/ faults > 0
    /\ UNCHANGED vars

\* What happens when nobody errs.
Proceed ==
    \/ StartCoordinator
    \/ \E id \in Identifiers : CarefulCommitments(id)
    \/ CarefulShare
    \/ \E r \in Runs : StartRun(r) \/ CarefulPackage(r) \/ ConfirmAndSign(r)

Next ==
    \/ Proceed
    \/ CarelessCommitments \/ CarelessShare \/ CoordinatorFails
    \/ \E r \in Runs : CarelessPackage(r) \/ RunFails(r)
    \/ Finished

Spec == Init /\ [][Next]_vars

\* The programs run, and people carry on.
FairSpec == Spec /\ WF_vars(Proceed)

-----------------------------------------------------------------------------
(* Properties.                                                             *)

FS == INSTANCE FrostSigning WITH
        Signers    <- Identifiers,
        Nonces     <- Runs,
        Messages   <- 1..num_messages,
        signed     <- {[signer |-> r[1], nonces |-> r,
                        package |-> run[r].package] : r \in Shared},
        signatures <- IF coord.pc = "done"
                      THEN {Package(i) : i \in 1..num_messages} ELSE {}

\* Whatever people type in, and under whose name, nonces are used once, and
\* signatures appear only if the users of all the signers in each package have
\* confirmed this very package.
ImplementsFrostSigning == FS!Spec

\* Nobody who copies what is printed to where it is prompted for meets an
\* error: with several messages too, commitments and shares find each other.
\* The exceptions are the randomizers: those passed to the coordinator, which
\* it refuses in the end, and those typed in for redpallas, which only fit if
\* they are zero.
UndisturbedSigningSucceeds ==
    randomizers = 0 =>
        <>(\/ coord.pc = "done"
           \/ faults > 0
           \/ \E r \in Runs : run[r].randomizer = "other")

=============================================================================
