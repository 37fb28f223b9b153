------------------------- MODULE HandSigningProofs --------------------------
(***************************************************************************)
(* Proofs about a signing by copy and paste, for any number of             *)
(* participants, messages, runs and errors of the people who carry things. *)
(*                                                                         *)
(* The argument: what has been printed stays as it is, and a program goes  *)
(* only forward; so a run that has made its share never makes another.     *)
(* The coordinator asks for the shares of a package exactly those who      *)
(* are in it, and frost_core compares each with the commitments the        *)
(* package has of its signer: the signatures are printed only if all of    *)
(* these have made their shares for it.                                    *)
(***************************************************************************)
EXTENDS HandSigning, FiniteSetTheorems, SequenceTheorems,
        NaturalsInduction, WellFoundedInduction, TLAPS

\* Commitments, and shares, by signer.
Maps == UNION {[S -> Runs] : S \in SUBSET Identifiers}

Packs == [message : 1..num_messages, commitments : Maps]

\* What the coordinator has asked for, and what not: at stage p, of the
\* message it is at it has commitments of e signers.
FieldsOK(p, e, commitments, shares) ==
    /\ Len(commitments) <= num_messages
    /\ Len(shares) <= Len(commitments)
    /\ p = "start" => e = 0 /\ Len(commitments) = 0
    /\ p = "commitments" =>
          /\ e < num_signers
          /\ Len(commitments) # 0 /\ Len(shares) = 0
          /\ \A i \in 1..Len(commitments) - 1 : DOMAIN commitments[i] # {}
    /\ p = "shares" =>
          /\ Len(commitments) = num_messages /\ Len(shares) # 0
          /\ \A i \in 1..num_messages : DOMAIN commitments[i] # {}
          /\ \A i \in 1..Len(shares) - 1 : DOMAIN shares[i] = DOMAIN commitments[i]
          /\ DOMAIN shares[Len(shares)] \subseteq DOMAIN commitments[Len(shares)]
          /\ DOMAIN shares[Len(shares)] # DOMAIN commitments[Len(shares)]

CoordOK ==
    /\ coord \in [pc : {"start", "commitments", "shares", "done", "failed"},
                  entered : 0..num_signers, commitments : Seq(Maps), shares : Seq(Maps)]
    /\ FieldsOK(coord.pc, coord.entered, coord.commitments, coord.shares)
    /\ \A i \in 1..Len(coord.shares) : \A id \in DOMAIN coord.shares[i] :
          coord.shares[i][id] \in Shared

\* A run shows a package to its user before it signs it.
RunsOK ==
    /\ run \in [Runs -> [pc : {"none", "package", "confirm", "done", "failed"},
                         package : Packs \cup {Nothing},
                         randomizer : {"none", "zero", "other"}]]
    /\ \A r \in Runs : run[r].pc \in {"confirm", "done"} => run[r].package \in Packs

Inv ==
    /\ randomizers \in 0..num_messages + 1 /\ faults \in 0..MaxFaults
    /\ CoordOK /\ RunsOK

-----------------------------------------------------------------------------
(* Lemmas about the data.                                                  *)

\* The counts are natural numbers, and there is something to sign by someone.
LEMMA CountsFacts ==
    /\ num_signers \in Nat \ {0} /\ num_messages \in Nat \ {0}
    /\ MinSigners \in Nat \ {0} /\ MaxFaults \in Nat
<1>1. Cardinality(Identifiers) \in Nat
  BY IdentifiersAssumption, FS_Subset, FS_CardinalityType
<1> QED
  BY <1>1, HandCountsAssumption

\* The partial maps of identifiers to runs.
LEMMA MapsFacts ==
    /\ \A f \in Maps : PartialMap(f, Identifiers, Runs)
    /\ \A f \in Maps, id \in Identifiers, r \in Runs :
          [i \in DOMAIN f \cup {id} |-> IF i = id THEN r ELSE f[i]] \in Maps
    /\ NoMap \in Maps /\ DOMAIN NoMap = {}
<1>1. ASSUME NEW f \in Maps
      PROVE  DOMAIN f \subseteq Identifiers /\ \A i \in DOMAIN f : f[i] \in Runs
  BY DEF Maps
<1>2. ASSUME NEW f \in Maps, NEW id \in Identifiers, NEW r \in Runs
      PROVE  [i \in DOMAIN f \cup {id} |-> IF i = id THEN r ELSE f[i]] \in Maps
  <2> DEFINE D == DOMAIN f \cup {id}
             g == [i \in D |-> IF i = id THEN r ELSE f[i]]
  <2>1. g \in [D -> Runs] /\ D \in SUBSET Identifiers
    BY <1>1
  <2> QED
    BY <2>1 DEF Maps
<1>3. NoMap \in [{} -> Runs] /\ DOMAIN NoMap = {}
  BY DEF NoMap
<1> QED
  BY <1>1, <1>2, <1>3 DEF PartialMap, Maps

\* Identifiers have a least one among any of them: who is prompted for next.
LEMMA LeastIdentifier ==
    ASSUME NEW S, S \subseteq Identifiers, S # {}
    PROVE  \E i \in S : \A j \in S : i <= j
<1>1. S \subseteq Nat
  BY IdentifiersAssumption
<1>2. PICK i \in S : \A j \in S : ~(<<j, i>> \in OpToRel(<, Nat))
  BY <1>1, NatLessThanWellFounded, WFMin
<1>3. \A j \in S : ~(j < i)
  BY <1>1, <1>2 DEF OpToRel
<1> QED
  BY <1>1, <1>3

-----------------------------------------------------------------------------
(* The invariant.                                                          *)

RunRecords == [pc : {"none", "package", "confirm", "done", "failed"},
               package : Packs \cup {Nothing},
               randomizer : {"none", "zero", "other"}]

\* Nothing has been typed in.
LEMMA InitInv == Init => Inv
<1> SUFFICES ASSUME Init PROVE Inv
  OBVIOUS
<1>1. /\ coord = [pc |-> "start", entered |-> 0, commitments |-> <<>>, shares |-> <<>>]
      /\ run = [r \in Runs |->
                  [pc |-> "none", package |-> Nothing, randomizer |-> "none"]]
      /\ randomizers \in 0..num_messages + 1 /\ faults = 0
  BY DEF Init
<1>2. <<>> \in Seq(Maps) /\ Len(<<>>) = 0
  BY EmptySeq
<1>3. 0 \in 0..num_signers /\ 0 \in 0..MaxFaults
  BY CountsFacts
<1>4. CoordOK
  BY <1>1, <1>2, <1>3, CountsFacts DEF CoordOK, FieldsOK
<1>5. RunsOK
  BY <1>1 DEF RunsOK
<1> QED
  BY <1>1, <1>3, <1>4, <1>5 DEF Inv

\* A step of a run that has not ended with its share: the others stay as they
\* are, and with them all shares there are.
LEMMA RunStep ==
    ASSUME Inv, NEW r \in Runs, NEW x \in RunRecords,
           run[r].pc # "done", x.pc \in {"confirm", "done"} => x.package \in Packs,
           run' = [run EXCEPT ![r] = x],
           UNCHANGED <<randomizers, coord>>, faults' \in 0..MaxFaults
    PROVE  /\ Inv'
           /\ Shared' = IF x.pc = "done" THEN Shared \cup {r} ELSE Shared
           /\ \A q \in Shared : run'[q] = run[q]
<1>1. /\ run \in [Runs -> RunRecords]
      /\ \A q \in Runs : run[q].pc \in {"confirm", "done"} => run[q].package \in Packs
  BY DEF Inv, RunsOK, RunRecords
<1>2. /\ run' \in [Runs -> RunRecords] /\ run'[r] = x
      /\ \A q \in Runs \ {r} : run'[q] = run[q]
  BY <1>1
<1>3. Shared' = IF x.pc = "done" THEN Shared \cup {r} ELSE Shared
  BY <1>2 DEF Shared
<1>4. \A q \in Shared : run'[q] = run[q]
  BY <1>2 DEF Shared
<1>5. RunsOK'
  BY <1>1, <1>2 DEF RunsOK, RunRecords
<1>6. CoordOK'
  BY <1>3 DEF Inv, CoordOK
<1> QED
  BY <1>3, <1>4, <1>5, <1>6 DEF Inv

\* A run as a record.
LEMMA RunFields ==
    ASSUME Inv, NEW r \in Runs
    PROVE  /\ run[r] \in RunRecords
           /\ \A stage : [run EXCEPT ![r].pc = stage]
                = [run EXCEPT ![r] = [pc |-> stage, package |-> run[r].package,
                                      randomizer |-> run[r].randomizer]]
<1>1. run \in [Runs -> RunRecords]
  BY DEF Inv, RunsOK, RunRecords
<1> QED
  BY <1>1 DEF RunRecords

\* Only its own run's share is new when a user confirms.
LEMMA ConfirmAndSignInv ==
    ASSUME Inv, NEW r \in Runs, ConfirmAndSign(r)
    PROVE  /\ Inv'
           /\ Shared' = IF SignOk(r) THEN Shared \cup {r} ELSE Shared
           /\ \A q \in Shared \cup {r} : run'[q].package = run[q].package
<1> DEFINE x == [pc |-> IF SignOk(r) THEN "done" ELSE "failed",
                 package |-> run[r].package, randomizer |-> run[r].randomizer]
<1>1. /\ run[r].pc = "confirm" /\ UNCHANGED <<randomizers, coord, faults>>
      /\ run' = [run EXCEPT ![r] = x]
  BY RunFields DEF ConfirmAndSign
<1>2. run[r] \in RunRecords /\ run[r].package \in Packs /\ r \in DOMAIN run
  BY <1>1 DEF Inv, RunsOK, RunRecords
<1>3. x \in RunRecords /\ x.package = run[r].package
      /\ x.pc = IF SignOk(r) THEN "done" ELSE "failed"
  BY <1>2 DEF RunRecords
<1>4. run'[r] = x
  BY <1>1, <1>2
<1> HIDE DEF x
<1>5. faults' \in 0..MaxFaults
  BY <1>1 DEF Inv
<1>6. /\ Inv' /\ \A q \in Shared : run'[q] = run[q]
      /\ Shared' = IF x.pc = "done" THEN Shared \cup {r} ELSE Shared
  BY <1>1, <1>2, <1>3, <1>5, RunStep
<1> QED
  BY <1>3, <1>4, <1>6

\* The other steps of the participants' programs make no share.
LEMMA RunStepsInv ==
    ASSUME Inv, NEW r \in Runs,
           StartRun(r) \/ CarefulPackage(r) \/ CarelessPackage(r) \/ RunFails(r)
    PROVE  /\ Inv' /\ Shared' = Shared /\ coord' = coord
           /\ \A q \in Shared : run'[q] = run[q]
<1>1. run[r] \in RunRecords
  BY RunFields
<1>2. Fault => faults' \in 0..MaxFaults
  BY CountsFacts DEF Inv, Fault
<1>3. CASE StartRun(r)
  <2> DEFINE x == [pc |-> "package", package |-> run[r].package,
                   randomizer |-> run[r].randomizer]
  <2>1. /\ run[r].pc = "none" /\ UNCHANGED <<randomizers, coord, faults>>
        /\ run' = [run EXCEPT ![r] = x]
    BY <1>3, RunFields DEF StartRun
  <2>2. x \in RunRecords /\ x.pc = "package"
    BY <1>1 DEF RunRecords
  <2> HIDE DEF x
  <2>3. faults' \in 0..MaxFaults
    BY <2>1 DEF Inv
  <2> QED
    BY <2>1, <2>2, <2>3, RunStep
<1>4. CASE RunFails(r)
  <2> DEFINE x == [pc |-> "failed", package |-> run[r].package,
                   randomizer |-> run[r].randomizer]
  <2>1. /\ run[r].pc # "done" /\ UNCHANGED <<randomizers, coord>>
        /\ faults' \in 0..MaxFaults /\ run' = [run EXCEPT ![r] = x]
    BY <1>2, <1>4, RunFields DEF RunFails
  <2>2. x \in RunRecords /\ x.pc = "failed"
    BY <1>1 DEF RunRecords
  <2> HIDE DEF x
  <2> QED
    BY <2>1, <2>2, RunStep
<1>5. \A p \in Printed : p \in Packs
  <2> SUFFICES ASSUME NEW i \in 1..Len(coord.shares) PROVE Package(i) \in Packs
    BY DEF Printed, Inv, CoordOK
  <2>1. i \in 1..Len(coord.commitments) /\ i \in 1..num_messages
    BY CountsFacts DEF Inv, CoordOK, FieldsOK
  <2>2. coord.commitments[i] \in Maps
    BY <2>1 DEF Inv, CoordOK
  <2> QED
    BY <2>1, <2>2 DEF Package, Packs
<1>6. CASE CarefulPackage(r) \/ CarelessPackage(r)
  <2>1. PICK p \in Printed \cup {Nothing}, z \in {"none", "zero", "other"} :
           /\ EnterPackage(r, p, z) /\ faults' \in 0..MaxFaults
    BY <1>2, <1>6 DEF CarefulPackage, CarelessPackage, Inv
  <2> DEFINE x == [pc |-> IF p = Nothing THEN "failed" ELSE "confirm",
                   package |-> p, randomizer |-> z]
  <2>2. /\ run[r].pc = "package" /\ UNCHANGED <<randomizers, coord>>
        /\ run' = [run EXCEPT ![r] = x]
    BY <2>1 DEF EnterPackage
  <2>3. /\ x \in RunRecords /\ x.pc # "done"
        /\ x.pc \in {"confirm", "done"} => x.package \in Packs
    BY <1>5 DEF RunRecords
  <2> HIDE DEF x
  <2> QED
    BY <2>1, <2>2, <2>3, RunStep
<1> QED
  BY <1>3, <1>4, <1>6

CoordRecords == [pc : {"start", "commitments", "shares", "done", "failed"},
                 entered : 0..num_signers, commitments : Seq(Maps),
                 shares : Seq(Maps)]

\* The coordinator's variable as a record, updated field by field.
LEMMA CoordUpdates ==
    ASSUME coord \in CoordRecords, NEW k, NEW new
    PROVE  /\ coord = [pc |-> coord.pc, entered |-> coord.entered,
                       commitments |-> coord.commitments, shares |-> coord.shares]
           /\ [coord EXCEPT !.pc = "failed"]
                = [pc |-> "failed", entered |-> coord.entered,
                   commitments |-> coord.commitments, shares |-> coord.shares]
           /\ [coord EXCEPT !.pc = "commitments", !.commitments = new]
                = [pc |-> "commitments", entered |-> coord.entered,
                   commitments |-> new, shares |-> coord.shares]
           /\ [coord EXCEPT !.entered = @ + 1, !.commitments[k] = new]
                = [pc |-> coord.pc, entered |-> coord.entered + 1,
                   commitments |-> [coord.commitments EXCEPT ![k] = new],
                   shares |-> coord.shares]
           /\ [coord EXCEPT !.shares[k] = new]
                = [pc |-> coord.pc, entered |-> coord.entered,
                   commitments |-> coord.commitments,
                   shares |-> [coord.shares EXCEPT ![k] = new]]
<1>1. /\ coord = [pc |-> coord.pc, entered |-> coord.entered,
                  commitments |-> coord.commitments, shares |-> coord.shares]
      /\ [coord EXCEPT !.pc = "failed"]
           = [pc |-> "failed", entered |-> coord.entered,
              commitments |-> coord.commitments, shares |-> coord.shares]
  BY DEF CoordRecords
<1>2. [coord EXCEPT !.pc = "commitments", !.commitments = new]
        = [pc |-> "commitments", entered |-> coord.entered,
           commitments |-> new, shares |-> coord.shares]
  <2> DEFINE d == [coord EXCEPT !.pc = "commitments"]
  <2>1. d = [pc |-> "commitments", entered |-> coord.entered,
             commitments |-> coord.commitments, shares |-> coord.shares]
    BY DEF CoordRecords
  <2>2. [coord EXCEPT !.pc = "commitments", !.commitments = new]
          = [d EXCEPT !.commitments = new]
    BY DEF CoordRecords
  <2> HIDE DEF d
  <2> QED
    BY <2>1, <2>2
<1>3. [coord EXCEPT !.entered = @ + 1, !.commitments[k] = new]
        = [pc |-> coord.pc, entered |-> coord.entered + 1,
           commitments |-> [coord.commitments EXCEPT ![k] = new],
           shares |-> coord.shares]
  <2> DEFINE d == [coord EXCEPT !.entered = @ + 1]
  <2>1. d = [pc |-> coord.pc, entered |-> coord.entered + 1,
             commitments |-> coord.commitments, shares |-> coord.shares]
    BY DEF CoordRecords
  <2>2. [coord EXCEPT !.entered = @ + 1, !.commitments[k] = new]
          = [d EXCEPT !.commitments[k] = new]
    BY DEF CoordRecords
  <2> HIDE DEF d
  <2>3. [d EXCEPT !.commitments[k] = new]
          = [pc |-> d.pc, entered |-> d.entered,
             commitments |-> [d.commitments EXCEPT ![k] = new], shares |-> d.shares]
    BY <2>1
  <2> QED
    BY <2>1, <2>2, <2>3
<1>4. [coord EXCEPT !.shares[k] = new]
        = [pc |-> coord.pc, entered |-> coord.entered,
           commitments |-> coord.commitments,
           shares |-> [coord.shares EXCEPT ![k] = new]]
  BY SMTT(30) DEF CoordRecords
<1> QED
  BY <1>1, <1>2, <1>3, <1>4

\* A step of the coordinator's program, by what it makes of its state.
LEMMA CoordStep ==
    ASSUME Inv, NEW p \in {"commitments", "shares", "done", "failed"},
           NEW e \in 0..num_signers, NEW cs \in Seq(Maps), NEW ss \in Seq(Maps),
           coord' = [pc |-> p, entered |-> e, commitments |-> cs, shares |-> ss],
           UNCHANGED <<randomizers, run>>, faults' \in 0..MaxFaults,
           FieldsOK(p, e, cs, ss),
           \A i \in 1..Len(ss) : \A id \in DOMAIN ss[i] : ss[i][id] \in Shared
    PROVE  Inv'
<1>1. Shared' = Shared
  BY DEF Shared
<1>2. /\ coord'.pc = p /\ coord'.entered = e /\ coord'.commitments = cs
      /\ coord'.shares = ss
      /\ coord' \in [pc : {"start", "commitments", "shares", "done", "failed"},
                      entered : 0..num_signers, commitments : Seq(Maps),
                      shares : Seq(Maps)]
  OBVIOUS
<1>3. FieldsOK(coord.pc, coord.entered, coord.commitments, coord.shares)'
  BY <1>2 DEF FieldsOK
<1>4. CoordOK'
  BY <1>1, <1>2, <1>3 DEF CoordOK
<1> QED
  BY <1>4 DEF Inv, RunsOK

\* What holds of the coordinator's state before any step.
LEMMA CoordFacts ==
    ASSUME Inv
    PROVE  /\ coord \in CoordRecords /\ faults \in 0..MaxFaults
           /\ coord.commitments \in Seq(Maps) /\ coord.shares \in Seq(Maps)
           /\ coord.entered \in 0..num_signers
           /\ Len(coord.commitments) \in Nat /\ Len(coord.shares) \in Nat
           /\ FieldsOK(coord.pc, coord.entered, coord.commitments, coord.shares)
           /\ Len(coord.commitments) <= num_messages
           /\ Len(coord.shares) <= Len(coord.commitments)
           /\ \A i \in 1..Len(coord.shares) : \A id \in DOMAIN coord.shares[i] :
                 coord.shares[i][id] \in Shared
<1>1. coord.commitments \in Seq(Maps) /\ coord.shares \in Seq(Maps)
  BY DEF Inv, CoordOK
<1>2. FieldsOK(coord.pc, coord.entered, coord.commitments, coord.shares)
  BY DEF Inv, CoordOK
<1>3. /\ Len(coord.commitments) <= num_messages
      /\ Len(coord.shares) <= Len(coord.commitments)
  BY <1>2 DEF FieldsOK
<1> QED
  BY <1>1, <1>2, <1>3, LenProperties DEF Inv, CoordOK, CoordRecords

\* A step that only ends the coordinator's program.
LEMMA FailStep ==
    ASSUME Inv, UNCHANGED <<randomizers, run>>, faults' \in 0..MaxFaults,
           coord' = [coord EXCEPT !.pc = "failed"]
    PROVE  Inv'
<1>1. coord' = [pc |-> "failed", entered |-> coord.entered,
                commitments |-> coord.commitments, shares |-> coord.shares]
  BY CoordFacts, CoordUpdates
<1>2. FieldsOK("failed", coord.entered, coord.commitments, coord.shares)
  BY CoordFacts DEF FieldsOK
<1> QED
  BY <1>1, <1>2, CoordFacts, CoordStep

\* The coordinator starts with the first message.
LEMMA StartCoordinatorInv == ASSUME Inv, StartCoordinator PROVE Inv'
<1> DEFINE first == <<NoMap>>
<1>1. /\ coord.pc = "start" /\ UNCHANGED <<randomizers, run, faults>>
      /\ \/ coord' = [coord EXCEPT !.pc = "commitments", !.commitments = first]
         \/ coord' = [coord EXCEPT !.pc = "failed"]
  BY DEF StartCoordinator
<1>2. first \in Seq(Maps) /\ Len(first) = 1
  BY MapsFacts
<1> HIDE DEF first
<1>3. faults' \in 0..MaxFaults
  BY <1>1, CoordFacts
<1>4. coord.entered = 0 /\ Len(coord.shares) = 0
  BY <1>1, CoordFacts DEF FieldsOK
<1>5. CASE coord' = [coord EXCEPT !.pc = "commitments", !.commitments = first]
  <2>1. coord' = [pc |-> "commitments", entered |-> coord.entered,
                  commitments |-> first, shares |-> coord.shares]
    BY <1>5, CoordFacts, CoordUpdates
  <2>2. FieldsOK("commitments", coord.entered, first, coord.shares)
    BY <1>2, <1>4, CountsFacts DEF FieldsOK
  <2> QED
    BY <1>1, <1>2, <1>3, <2>1, <2>2, CoordFacts, CoordStep
<1> QED
  BY <1>1, <1>3, <1>5, FailStep

\* Entered commitments are those of a signer not entered before; the first of
\* a message are there when the next message's turn comes.
LEMMA EnterCommitmentsInv ==
    ASSUME Inv, NEW id, NEW r \in Runs \cup {Nothing}, EnterCommitments(id, r),
           faults' \in 0..MaxFaults
    PROVE  Inv' /\ coord.pc = "commitments" /\ coord'.pc # "done"
<1> DEFINE k    == Len(coord.commitments)
           list == DOMAIN coord.commitments[k]
           new  == [i \in list \cup {id} |->
                       IF i = id THEN r ELSE coord.commitments[k][i]]
           seq  == [coord.commitments EXCEPT ![k] = new]
           c    == [pc |-> "commitments", entered |-> coord.entered + 1,
                    commitments |-> seq, shares |-> coord.shares]
<1>1. /\ coord.pc = "commitments" /\ UNCHANGED <<randomizers, run>>
      /\ coord.entered < num_signers
      /\ k # 0 /\ Len(coord.shares) = 0
      /\ \A i \in 1..k - 1 : DOMAIN coord.commitments[i] # {}
  BY CoordFacts DEF EnterCommitments, FieldsOK
<1>2. /\ k \in 1..num_messages /\ k \in 1..Len(coord.commitments)
      /\ k = Len(coord.commitments)
  BY <1>1, CoordFacts, CountsFacts
<1>3. \/ coord' = [coord EXCEPT !.pc = "failed"]
      \/ /\ id \in Identifiers /\ r \in Runs
         /\ coord' = AfterCommitments([coord EXCEPT !.entered = @ + 1,
                                                    !.commitments[k] = new])
  BY DEF EnterCommitments, Validate
<1>4. ASSUME id \in Identifiers, r \in Runs
      PROVE  new \in Maps /\ DOMAIN new # {}
  <2>1. coord.commitments[k] \in Maps
    BY <1>2, CoordFacts
  <2> QED
    BY <1>4, <2>1, MapsFacts
<1> HIDE DEF k, new
<1>5. CASE /\ id \in Identifiers /\ r \in Runs
           /\ coord' = AfterCommitments([coord EXCEPT !.entered = @ + 1,
                                                      !.commitments[k] = new])
  <2>0. [coord EXCEPT !.entered = @ + 1, !.commitments[k] = new]
          = [pc |-> coord.pc, entered |-> coord.entered + 1,
             commitments |-> seq, shares |-> coord.shares]
    BY CoordFacts, CoordUpdates, ZenonT(60)
  <2>1. coord' = AfterCommitments(c)
    BY <1>1, <1>5, <2>0
  <2>2. /\ seq \in Seq(Maps) /\ Len(seq) = k
        /\ \A i \in 1..k : seq[i] = IF i = k THEN new ELSE coord.commitments[i]
    BY <1>2, <1>4, <1>5, CoordFacts, ExceptSeq
  <2> HIDE DEF seq
  <2>3. ASSUME NEW i \in 1..k PROVE DOMAIN seq[i] # {}
    <3>1. CASE i = k
      BY <1>4, <1>5, <2>2, <3>1
    <3>2. CASE i # k
      <4>1. i \in 1..k - 1
        BY <1>2, <3>2, CountsFacts
      <4> QED
        BY <1>1, <2>2, <3>2, <4>1
    <3> QED
      BY <3>1, <3>2
  <2>4. coord.entered + 1 \in 0..num_signers
    BY <1>1, CoordFacts, CountsFacts
  <2>5. k \in Nat /\ 1..k - 1 \subseteq 1..k
    BY <1>2, CountsFacts
  <2>6. CASE coord.entered + 1 < num_signers
    <3>1. coord' = c
      BY <2>1, <2>6 DEF AfterCommitments
    <3>2. \A i \in 1..Len(seq) - 1 : DOMAIN seq[i] # {}
      BY <2>2, <2>3, <2>5
    <3>3. coord.entered \in Nat /\ k <= num_messages /\ k # 0
      BY <1>1, <1>2, CoordFacts, CountsFacts
    <3>4. FieldsOK("commitments", coord.entered + 1, seq, coord.shares)
      BY <1>1, <2>2, <2>5, <2>6, <3>2, <3>3, CountsFacts DEF FieldsOK
    <3> QED
      BY <1>1, <2>2, <2>4, <3>1, <3>4, CoordFacts, CoordStep
  <2>7. CASE ~(coord.entered + 1 < num_signers) /\ k < num_messages
    <3> DEFINE longer == Append(seq, NoMap)
    <3>1. coord' = [pc |-> "commitments", entered |-> 0,
                    commitments |-> longer, shares |-> coord.shares]
      BY <2>1, <2>2, <2>7 DEF AfterCommitments
    <3>2. /\ longer \in Seq(Maps) /\ Len(longer) = k + 1
          /\ \A i \in 1..k : longer[i] = seq[i]
      BY <2>2, MapsFacts, AppendProperties
    <3> HIDE DEF longer
    <3>3. ASSUME NEW i \in 1..Len(longer) - 1 PROVE DOMAIN longer[i] # {}
      <4>1. i \in 1..k
        BY <2>5, <3>2
      <4> QED
        BY <2>3, <3>2, <4>1
    <3>4. FieldsOK("commitments", 0, longer, coord.shares)
      BY <1>1, <1>2, <2>5, <2>7, <3>2, <3>3, CountsFacts, SMTT(30) DEF FieldsOK
    <3>5. 0 \in 0..num_signers
      BY CountsFacts
    <3> QED
      BY <1>1, <3>1, <3>2, <3>4, <3>5, CoordFacts, CoordStep
  <2>8. CASE ~(coord.entered + 1 < num_signers) /\ ~(k < num_messages)
    <3> DEFINE first == <<NoMap>>
    <3>1. \/ coord' = [pc |-> "failed", entered |-> coord.entered + 1,
                       commitments |-> seq, shares |-> coord.shares]
          \/ coord' = [pc |-> "shares", entered |-> coord.entered + 1,
                       commitments |-> seq, shares |-> first]
      BY <2>1, <2>2, <2>8 DEF AfterCommitments
    <3>2. k = num_messages
      BY <1>2, <2>8, CountsFacts
    <3>3. first \in Seq(Maps) /\ Len(first) = 1 /\ DOMAIN first[1] = {}
      BY MapsFacts
    <3> HIDE DEF first
    <3>4. CASE coord' = [pc |-> "failed", entered |-> coord.entered + 1,
                         commitments |-> seq, shares |-> coord.shares]
      <4>1. FieldsOK("failed", coord.entered + 1, seq, coord.shares)
        BY <1>1, <2>2, <2>5, <3>2 DEF FieldsOK
      <4> QED
        BY <1>1, <2>2, <2>4, <3>4, <4>1, CoordFacts, CoordStep
    <3>5. CASE coord' = [pc |-> "shares", entered |-> coord.entered + 1,
                         commitments |-> seq, shares |-> first]
      <4>1. DOMAIN seq[1] # {} /\ 1 <= num_messages
        BY <2>3, <3>2, CountsFacts
      <4>2. FieldsOK("shares", coord.entered + 1, seq, first)
        BY <2>2, <2>3, <3>2, <3>3, <4>1, CountsFacts DEF FieldsOK
      <4>3. \A i \in 1..Len(first) : DOMAIN first[i] = {}
        BY <3>3
      <4> QED
        BY <1>1, <2>2, <2>4, <3>3, <3>5, <4>2, <4>3, CoordStep
    <3> QED
      BY <3>1, <3>4, <3>5
  <2> QED
    BY <1>1, <2>6, <2>7, <2>8
<1>6. CASE coord' = [coord EXCEPT !.pc = "failed"]
  <2>1. coord'.pc = "failed"
    BY <1>6, CoordFacts, CoordUpdates
  <2> QED
    BY <1>1, <1>6, <2>1, FailStep
<1> QED
  BY <1>3, <1>5, <1>6

\* All shares have been entered, and frost_core has accepted them.
AllEntered ==
    /\ Len(coord.commitments) = num_messages
    /\ \E ss \in Seq(Maps) :
          /\ Len(ss) = num_messages
          /\ \A i \in 1..num_messages :
                /\ DOMAIN coord.commitments[i] # {}
                /\ DOMAIN ss[i] = DOMAIN coord.commitments[i]
                /\ \A id \in DOMAIN ss[i] :
                      ss[i][id] \in Shared /\ Fits(id, ss[i][id], i)

\* A share is entered for a signer of the package; those of the last package
\* are aggregated with all others.
LEMMA EnterShareInv ==
    ASSUME Inv, NEW r \in Shared \cup {Nothing}, EnterShare(r),
           faults' \in 0..MaxFaults
    PROVE  /\ Inv' /\ coord.pc = "shares"
           /\ coord'.pc = "done" =>
                 coord'.commitments = coord.commitments /\ AllEntered
<1> DEFINE k    == Len(coord.shares)
           left == DOMAIN coord.commitments[k] \ DOMAIN coord.shares[k]
           new  == [i \in DOMAIN coord.shares[k] \cup {Prompted} |->
                       IF i = Prompted THEN r ELSE coord.shares[k][i]]
           seq  == [coord.shares EXCEPT ![k] = new]
           c    == [pc |-> "shares", entered |-> coord.entered,
                    commitments |-> coord.commitments, shares |-> seq]
<1>1. /\ coord.pc = "shares" /\ UNCHANGED <<randomizers, run>>
      /\ Len(coord.commitments) = num_messages /\ k # 0
      /\ \A i \in 1..num_messages : DOMAIN coord.commitments[i] # {}
      /\ \A i \in 1..k - 1 : DOMAIN coord.shares[i] = DOMAIN coord.commitments[i]
      /\ DOMAIN coord.shares[k] \subseteq DOMAIN coord.commitments[k]
      /\ DOMAIN coord.shares[k] # DOMAIN coord.commitments[k]
  BY CoordFacts DEF EnterShare, FieldsOK
<1>2. /\ k \in 1..num_messages /\ k \in 1..Len(coord.shares)
      /\ k \in 1..Len(coord.commitments) /\ k = Len(coord.shares)
      /\ k \in Nat /\ k <= num_messages
  BY <1>1, CoordFacts, CountsFacts
<1>3. \/ coord' = [coord EXCEPT !.pc = "failed"]
      \/ r \in Shared /\ coord' = AfterShares([coord EXCEPT !.shares[k] = new])
  BY DEF EnterShare
<1>4. coord.shares[k] \in Maps /\ coord.commitments[k] \in Maps
  BY <1>2, CoordFacts
<1>5. Prompted \in left /\ Prompted \in Identifiers
  <2>1. left \subseteq Identifiers /\ left # {}
    BY <1>1, <1>4, MapsFacts DEF PartialMap
  <2>2. PICK i \in left : \A j \in left : i <= j
    BY <2>1, LeastIdentifier
  <2>3. Prompted \in left
    BY <2>2 DEF Prompted
  <2> QED
    BY <2>1, <2>3
<1>6. CASE coord' = [coord EXCEPT !.pc = "failed"]
  <2>1. coord'.pc = "failed"
    BY <1>6, CoordFacts, CoordUpdates
  <2> QED
    BY <1>1, <1>6, <2>1, FailStep
<1>7. CASE r \in Shared /\ coord' = AfterShares([coord EXCEPT !.shares[k] = new])
  <2>1. r \in Runs
    BY <1>7 DEF Shared
  <2>2. /\ new \in Maps /\ DOMAIN new = DOMAIN coord.shares[k] \cup {Prompted}
        /\ \A id \in DOMAIN new : new[id] \in Shared
    BY <1>2, <1>4, <1>5, <1>7, <2>1, CoordFacts, MapsFacts
  <2>3. DOMAIN new \subseteq DOMAIN coord.commitments[k]
    BY <1>1, <1>5, <2>2
  <2> HIDE DEF k, new, left
  <2>4. [coord EXCEPT !.shares[k] = new]
          = [pc |-> coord.pc, entered |-> coord.entered,
             commitments |-> coord.commitments, shares |-> seq]
    BY CoordFacts, CoordUpdates, ZenonT(60)
  <2>5. coord' = AfterShares(c)
    BY <1>1, <1>7, <2>4
  <2>6. /\ seq \in Seq(Maps) /\ Len(seq) = k
        /\ \A i \in 1..k : seq[i] = IF i = k THEN new ELSE coord.shares[i]
    BY <1>2, <2>2, CoordFacts, ExceptSeq
  <2> HIDE DEF seq
  <2>7. seq[k] = new
    BY <1>2, <2>6
  <2>8. ASSUME NEW i \in 1..k - 1
        PROVE  i \in 1..k /\ DOMAIN seq[i] = DOMAIN coord.commitments[i]
    <3>1. i \in 1..k /\ i # k
      BY <1>2
    <3> QED
      BY <1>1, <2>6, <3>1
  <2>9. ASSUME NEW i \in 1..k, NEW id \in DOMAIN seq[i]
        PROVE  seq[i][id] \in Shared
    <3>1. CASE i = k
      BY <2>2, <2>7, <3>1
    <3>2. CASE i # k
      BY <1>2, <2>6, <3>2, CoordFacts
    <3> QED
      BY <3>1, <3>2
  <2>10. CASE DOMAIN new # DOMAIN coord.commitments[k]
    <3>1. coord' = c /\ coord'.pc # "done"
      BY <2>5, <2>6, <2>7, <2>10 DEF AfterShares
    <3>2. /\ \A i \in 1..Len(seq) - 1 : DOMAIN seq[i] = DOMAIN coord.commitments[i]
          /\ DOMAIN seq[Len(seq)] \subseteq DOMAIN coord.commitments[Len(seq)]
          /\ DOMAIN seq[Len(seq)] # DOMAIN coord.commitments[Len(seq)]
      BY <2>3, <2>6, <2>7, <2>8, <2>10
    <3>3. FieldsOK("shares", coord.entered, coord.commitments, seq)
      BY <1>1, <1>2, <2>6, <3>2 DEF FieldsOK
    <3> QED
      BY <1>1, <2>6, <2>9, <3>1, <3>3, CoordFacts, CoordStep
  <2>11. CASE DOMAIN new = DOMAIN coord.commitments[k] /\ k < num_messages
    <3> DEFINE longer == Append(seq, NoMap)
    <3>1. coord' = [pc |-> "shares", entered |-> coord.entered,
                    commitments |-> coord.commitments, shares |-> longer]
      BY <2>5, <2>6, <2>7, <2>11 DEF AfterShares
    <3>2. /\ longer \in Seq(Maps) /\ Len(longer) = k + 1
          /\ \A i \in 1..k : longer[i] = seq[i]
          /\ longer[k + 1] = NoMap /\ DOMAIN NoMap = {}
      BY <2>6, MapsFacts, AppendProperties
    <3> HIDE DEF longer
    <3>3. \A i \in 1..Len(longer) - 1 : DOMAIN longer[i] = DOMAIN coord.commitments[i]
      <4> SUFFICES ASSUME NEW i \in 1..k
                   PROVE  DOMAIN longer[i] = DOMAIN coord.commitments[i]
        BY <1>2, <3>2
      <4>1. CASE i = k
        BY <2>7, <2>11, <3>2, <4>1
      <4>2. CASE i # k
        <5>1. i \in 1..k - 1
          BY <1>2, <4>2
        <5> QED
          BY <2>8, <3>2, <5>1
      <4> QED
        BY <4>1, <4>2
    <3>4. k + 1 <= num_messages /\ k + 1 \in 1..num_messages
      BY <1>2, <2>11, CountsFacts
    <3>5. DOMAIN coord.commitments[k + 1] # {}
      BY <1>1, <3>4
    <3>6. FieldsOK("shares", coord.entered, coord.commitments, longer)
      BY <1>1, <1>2, <3>2, <3>3, <3>4, <3>5 DEF FieldsOK
    <3>7. ASSUME NEW i \in 1..Len(longer), NEW id \in DOMAIN longer[i]
          PROVE  longer[i][id] \in Shared
      <4>1. i \in 1..k
        BY <1>2, <3>2
      <4> QED
        BY <2>9, <3>2, <4>1
    <3>8. coord'.pc = "shares"
      BY <3>1
    <3> QED
      BY <1>1, <3>1, <3>2, <3>6, <3>7, <3>8, CoordFacts, CoordStep
  <2>12. CASE DOMAIN new = DOMAIN coord.commitments[k] /\ ~(k < num_messages)
    <3>1. k = num_messages
      BY <1>2, <2>12, CountsFacts
    <3>2. PICK p \in {"done", "failed"} :
             /\ coord' = [pc |-> p, entered |-> coord.entered,
                          commitments |-> coord.commitments, shares |-> seq]
             /\ p = "done" => AggregateOk(seq)
      BY <2>5, <2>6, <2>7, <2>12 DEF AfterShares
    <3>3. FieldsOK(p, coord.entered, coord.commitments, seq)
      BY <1>1, <1>2, <2>6 DEF FieldsOK
    <3>4. Inv'
      BY <1>1, <2>6, <2>9, <3>2, <3>3, CoordFacts, CoordStep
    <3>5. /\ coord'.pc = p /\ coord'.commitments = coord.commitments
      BY <3>2
    <3>6. ASSUME p = "done" PROVE AllEntered
      <4>1. \A i \in 1..k : DOMAIN seq[i] = DOMAIN coord.commitments[i]
        <5> SUFFICES ASSUME NEW i \in 1..k
                     PROVE  DOMAIN seq[i] = DOMAIN coord.commitments[i]
          OBVIOUS
        <5>1. CASE i = k
          BY <2>7, <2>12, <5>1
        <5>2. CASE i # k
          <6>1. i \in 1..k - 1
            BY <1>2, <5>2
          <6> QED
            BY <2>8, <6>1
        <5> QED
          BY <5>1, <5>2
      <4>2. DOMAIN seq = 1..k
        BY <2>6
      <4>3. \A i \in 1..k : \A id \in DOMAIN seq[i] : Fits(id, seq[i][id], i)
        BY <3>2, <3>6, <4>2 DEF AggregateOk
      <4> QED
        BY <1>1, <2>6, <2>9, <3>1, <4>1, <4>3 DEF AllEntered
    <3> QED
      BY <1>1, <3>4, <3>5, <3>6
  <2> QED
    BY <2>10, <2>11, <2>12
<1> QED
  BY <1>3, <1>6, <1>7

\* The coordinator's prompts, whoever types and whatever is typed.
LEMMA CoordinatorSteps ==
    ASSUME Inv,
           \/ StartCoordinator \/ CarefulShare
           \/ CarelessCommitments \/ CarelessShare \/ CoordinatorFails
           \/ \E id \in Identifiers : CarefulCommitments(id)
    PROVE  /\ Inv' /\ run' = run /\ coord.pc # "done"
           /\ coord'.pc = "done" =>
                 coord'.commitments = coord.commitments /\ AllEntered
<1>1. Fault => faults' \in 0..MaxFaults
  BY CoordFacts, CountsFacts DEF Fault
<1>2. faults' = faults => faults' \in 0..MaxFaults
  BY CoordFacts
<1>3. Committed \subseteq Runs
  BY DEF Committed
<1>4. CASE StartCoordinator
  <2>1. Inv' /\ run' = run /\ coord.pc # "done"
    BY <1>4, StartCoordinatorInv DEF StartCoordinator
  <2>2. coord'.pc # "done"
    BY <1>4, <2>1, CoordFacts DEF StartCoordinator, CoordRecords
  <2> QED
    BY <2>1, <2>2
<1>5. ASSUME NEW id, NEW r \in Runs \cup {Nothing}, EnterCommitments(id, r),
             faults' \in 0..MaxFaults
      PROVE  Inv' /\ run' = run /\ coord.pc # "done" /\ coord'.pc # "done"
  <2>1. run' = run
    BY <1>5 DEF EnterCommitments
  <2> QED
    BY <1>5, <2>1, EnterCommitmentsInv
<1>6. ASSUME NEW id \in Identifiers, CarefulCommitments(id)
      PROVE  /\ Inv' /\ run' = run /\ coord.pc # "done" /\ coord'.pc # "done"
  BY <1>2, <1>3, <1>5, <1>6 DEF CarefulCommitments
<1>7. CASE CarelessCommitments
  <2>1. PICK id \in Typed, r \in Committed \cup {Nothing} : EnterCommitments(id, r)
    BY <1>7 DEF CarelessCommitments
  <2> QED
    BY <1>1, <1>3, <1>5, <1>7, <2>1 DEF CarelessCommitments
<1>8. CASE CarefulShare \/ CarelessShare
  <2>1. PICK r \in Shared \cup {Nothing} : EnterShare(r) /\ faults' \in 0..MaxFaults
    BY <1>1, <1>2, <1>8 DEF CarefulShare, CarelessShare
  <2>2. run' = run
    BY <2>1 DEF EnterShare
  <2> QED
    BY <2>1, <2>2, EnterShareInv
<1>9. CASE CoordinatorFails
  <2>1. /\ coord.pc # "done" /\ UNCHANGED <<randomizers, run>>
        /\ faults' \in 0..MaxFaults /\ coord' = [coord EXCEPT !.pc = "failed"]
    BY <1>1, <1>9 DEF CoordinatorFails
  <2>2. coord'.pc = "failed"
    BY <2>1, CoordFacts, CoordUpdates
  <2> QED
    BY <2>1, <2>2, FailStep
<1> QED
  BY <1>4, <1>6, <1>7, <1>8, <1>9

\* Every step keeps the invariant.
LEMMA NextInv == Inv /\ [Next]_vars => Inv'
<1> SUFFICES ASSUME Inv, [Next]_vars PROVE Inv'
  OBVIOUS
<1>1. CASE Finished \/ UNCHANGED vars
  BY <1>1 DEF Finished, vars, Inv, CoordOK, RunsOK, Shared
<1>2. CASE \/ StartCoordinator \/ CarefulShare
           \/ CarelessCommitments \/ CarelessShare \/ CoordinatorFails
           \/ \E id \in Identifiers : CarefulCommitments(id)
  BY <1>2, CoordinatorSteps
<1>3. ASSUME NEW r \in Runs,
             StartRun(r) \/ CarefulPackage(r) \/ CarelessPackage(r) \/ RunFails(r)
      PROVE  Inv'
  BY <1>3, RunStepsInv
<1>4. ASSUME NEW r \in Runs, ConfirmAndSign(r) PROVE Inv'
  BY <1>4, ConfirmAndSignInv
<1> QED
  BY <1>1, <1>2, <1>3, <1>4 DEF Next, Proceed

\* The inductive invariant of a signing by hand.
LEMMA HandInvariant == Spec => []Inv
  BY InitInv, NextInv, PTL DEF Spec

\* Type correctness of a signing by hand.
THEOREM HandTypesAreCorrect == Spec => []TypeOK
<1>1. Inv => TypeOK
  <2> SUFFICES ASSUME Inv PROVE TypeOK
    OBVIOUS
  <2>1. \A p \in Packs : IsPackage(p)
    BY MapsFacts DEF Packs, IsPackage
  <2>2. \A r \in Runs :
           /\ run[r].pc \in {"none", "package", "confirm", "done", "failed"}
           /\ run[r].pc \in {"confirm", "done"} => IsPackage(run[r].package)
    BY <2>1 DEF Inv, RunsOK
  <2>3. /\ \A i \in DOMAIN coord.commitments :
              PartialMap(coord.commitments[i], Identifiers, Runs)
        /\ \A i \in DOMAIN coord.shares :
              PartialMap(coord.shares[i], Identifiers, Runs)
    BY CoordFacts, MapsFacts
  <2>4. Len(coord.shares) <= num_messages
    BY CoordFacts, CountsFacts
  <2> QED
    BY <2>2, <2>3, <2>4, CoordFacts DEF TypeOK, Inv, CoordRecords
<1> QED
  BY <1>1, HandInvariant, PTL

-----------------------------------------------------------------------------
(* A signing by hand implements FrostSigning.                              *)

\* The library's Cardinality under its name in FS.
LEMMA SameCardinality == ASSUME NEW S PROVE FS!Cardinality(S) = Cardinality(S)
  BY DEF FS!Cardinality, Cardinality

\* The shares that were made, and the signatures, as FrostSigning sees them.
AbstractSigned ==
    {[signer |-> r[1], nonces |-> r, package |-> run[r].package] : r \in Shared}

AbstractSignatures ==
    IF coord.pc = "done" THEN {Package(i) : i \in 1..num_messages} ELSE {}

\* The packages of both specifications are the same.
LEMMA SamePackages == FS!Packages = Packs
  BY DEF FS!Packages, Packs, Maps

\* A share that is made is an abstract one: for a package that commits to the
\* nonces of its run, which has made no other.
LEMMA SharesAreAbstract ==
    ASSUME Inv, NEW r \in Runs, ConfirmAndSign(r), SignOk(r)
    PROVE  FS!Share(r[1], r, run[r].package) /\ run[r].package \in FS!Packages
<1> DEFINE p == run[r].package
<1>1. run[r].pc = "confirm" /\ coord' = coord
  BY DEF ConfirmAndSign
<1>2. p \in FS!Packages
  BY <1>1, SamePackages DEF Inv, RunsOK
<1>3. /\ r[1] \in DOMAIN p.commitments /\ p.commitments[r[1]] = r
      /\ FS!Cardinality(DOMAIN p.commitments) >= MinSigners
  BY SameCardinality DEF SignOk
<1>4. \A u \in AbstractSigned : ~(u.signer = r[1] /\ u.nonces = r)
  BY <1>1 DEF AbstractSigned, Shared
<1>5. AbstractSigned'
        = AbstractSigned \cup {[signer |-> r[1], nonces |-> r, package |-> p]}
  <2>1. /\ Shared' = Shared \cup {r}
        /\ \A q \in Shared \cup {r} : run'[q].package = run[q].package
    BY ConfirmAndSignInv
  <2> QED
    BY <2>1 DEF AbstractSigned
<1>6. AbstractSignatures' = AbstractSignatures
  BY <1>1 DEF AbstractSignatures, Package
<1> HIDE DEF p
<1>7. FS!Share(r[1], r, p)
  BY <1>3, <1>4, <1>5, <1>6 DEF FS!Share, AbstractSigned, AbstractSignatures
<1> QED
  BY <1>2, <1>7 DEF p

\* The signatures are of packages of which all shares have been made.
LEMMA SignaturesAreAbstract ==
    ASSUME Inv, Inv', run' = run, coord.pc # "done", coord'.pc = "done",
           coord'.commitments = coord.commitments, AllEntered
    PROVE  FS!Aggregate
<1>1. AbstractSigned' = AbstractSigned
  BY DEF AbstractSigned, Shared
<1>2. PICK ss \in Seq(Maps) :
         \A i \in 1..num_messages :
            /\ DOMAIN coord.commitments[i] # {}
            /\ DOMAIN ss[i] = DOMAIN coord.commitments[i]
            /\ \A id \in DOMAIN ss[i] :
                  ss[i][id] \in Shared /\ Fits(id, ss[i][id], i)
  BY DEF AllEntered
<1>3. ASSUME NEW i \in 1..num_messages PROVE Package(i) \in FS!Complete
  <2> DEFINE p == Package(i)
  <2>1. p.commitments = coord.commitments[i]
    BY DEF Package
  <2>2. ASSUME NEW s \in DOMAIN p.commitments
        PROVE  [signer |-> s, nonces |-> p.commitments[s], package |-> p]
                  \in AbstractSigned
    <3> DEFINE r == ss[i][s]
    <3>1. r \in Shared /\ Fits(s, r, i)
      BY <1>2, <2>1, <2>2
    <3>2. r = p.commitments[s] /\ r[1] = s /\ run[r].package = p
      BY <2>1, <3>1 DEF Fits
    <3> HIDE DEF r, p
    <3> QED
      BY <3>1, <3>2 DEF AbstractSigned
  <2>3. DOMAIN p.commitments # {}
    BY <1>2, <2>1
  <2> HIDE DEF p
  <2>4. \A w \in AbstractSigned :
           w.package \in {u.package : u \in AbstractSigned}
    OBVIOUS
  <2>5. p \in {u.package : u \in AbstractSigned}
    BY <2>2, <2>3, <2>4
  <2>6. p \in FS!Complete
    BY <2>2, <2>5 DEF FS!Complete, AbstractSigned
  <2> QED
    BY <2>6 DEF p
<1>4. AbstractSignatures' = {Package(i) : i \in 1..num_messages}
  BY DEF AbstractSignatures, Package
<1>5. AbstractSignatures = {}
  BY DEF AbstractSignatures
<1>6. {Package(i) : i \in 1..num_messages} \in SUBSET FS!Complete
  BY <1>3
<1> QED
  BY <1>1, <1>4, <1>5, <1>6 DEF FS!Aggregate, AbstractSigned, AbstractSignatures

\* Every step is one of FrostSigning or none.
LEMMA StepsAreAbstract ==
    ASSUME Inv, Inv', [Next]_vars
    PROVE  FS!Next \/ UNCHANGED <<AbstractSigned, AbstractSignatures>>
<1>1. CASE Finished \/ UNCHANGED vars
  BY <1>1 DEF Finished, vars, AbstractSigned, AbstractSignatures, Shared, Package
<1>2. CASE \/ StartCoordinator \/ CarefulShare
           \/ CarelessCommitments \/ CarelessShare \/ CoordinatorFails
           \/ \E id \in Identifiers : CarefulCommitments(id)
  <2>1. /\ run' = run /\ coord.pc # "done"
        /\ coord'.pc = "done" =>
              coord'.commitments = coord.commitments /\ AllEntered
    BY <1>2, CoordinatorSteps
  <2>2. CASE coord'.pc = "done"
    BY <2>1, <2>2, SignaturesAreAbstract DEF FS!Next
  <2>3. CASE coord'.pc # "done"
    BY <2>1, <2>3 DEF AbstractSigned, AbstractSignatures, Shared
  <2> QED
    BY <2>2, <2>3
<1>3. ASSUME NEW r \in Runs,
             StartRun(r) \/ CarefulPackage(r) \/ CarelessPackage(r) \/ RunFails(r)
      PROVE  UNCHANGED <<AbstractSigned, AbstractSignatures>>
  <2>1. /\ Shared' = Shared /\ coord' = coord
        /\ \A q \in Shared : run'[q] = run[q]
    BY <1>3, RunStepsInv
  <2> QED
    BY <2>1 DEF AbstractSigned, AbstractSignatures, Package
<1>4. ASSUME NEW r \in Runs, ConfirmAndSign(r)
      PROVE  FS!Next \/ UNCHANGED <<AbstractSigned, AbstractSignatures>>
  <2>1. CASE SignOk(r)
    <3> DEFINE p == run[r].package
    <3>1. FS!Share(r[1], r, p) /\ p \in FS!Packages
      BY <1>4, <2>1, SharesAreAbstract
    <3>2. r[1] \in Identifiers
      BY DEF Runs
    <3> HIDE DEF p
    <3> QED
      BY <3>1, <3>2, ZenonT(60) DEF FS!Next, FS!Share
  <2>2. CASE ~SignOk(r)
    <3>1. /\ Shared' = Shared /\ coord' = coord
          /\ \A q \in Shared : run'[q].package = run[q].package
      BY <1>4, <2>2, ConfirmAndSignInv DEF ConfirmAndSign
    <3> QED
      BY <3>1 DEF AbstractSigned, AbstractSignatures, Package
  <2> QED
    BY <2>1, <2>2
<1> QED
  BY <1>1, <1>2, <1>3, <1>4 DEF Next, Proceed

\* Whatever people type in, and under whose name, nonces are used once, and
\* signatures appear only if the users of all the signers in each package have
\* confirmed this very package.
THEOREM HandSigningImplementsFrostSigning == Spec => ImplementsFrostSigning
<1>1. Init => FS!Init
  <2>1. Init => Shared = {} /\ coord.pc = "start"
    BY DEF Init, Shared
  <2> QED
    BY <2>1 DEF FS!Init
<1>2. Inv /\ Inv' /\ [Next]_vars => [FS!Next]_<<AbstractSigned, AbstractSignatures>>
  BY StepsAreAbstract
<1>3. Inv /\ Inv' /\ [Next]_vars =>
        [FS!Next]_<<{[signer |-> r[1], nonces |-> r,
                      package |-> run[r].package] : r \in Shared},
                    IF coord.pc = "done"
                    THEN {Package(i) : i \in 1..num_messages} ELSE {}>>
  BY <1>2 DEF AbstractSigned, AbstractSignatures
<1> QED
  BY <1>1, <1>3, HandInvariant, PTL DEF Spec, ImplementsFrostSigning, FS!Spec


-----------------------------------------------------------------------------
(* What a signature takes.                                                 *)

\* What FrostSigning promises, in its terms: nonces make one share, and the
\* package of a signature, whose signers are as many as the threshold, has the
\* shares of all of them.
Promised ==
    /\ \A u, v \in AbstractSigned :
          u.signer = v.signer /\ u.nonces = v.nonces => u = v
    /\ \A u \in AbstractSigned :
          FS!Cardinality(DOMAIN u.package.commitments) >= MinSigners
    /\ \A p \in AbstractSignatures :
          /\ FS!Cardinality(DOMAIN p.commitments) >= MinSigners
          /\ \A s \in DOMAIN p.commitments :
                [signer |-> s, nonces |-> p.commitments[s], package |-> p]
                    \in AbstractSigned

\* No step of FrostSigning breaks the promise.
LEMMA PromiseKept ==
    ASSUME Promised, [FS!Next]_<<AbstractSigned, AbstractSignatures>>
    PROVE  Promised'
<1>1. ASSUME NEW s \in Identifiers, NEW n \in Runs, NEW p \in FS!Packages,
             FS!Share(s, n, p)
      PROVE  Promised'
  <2>1. PICK x : x = [signer |-> s, nonces |-> n, package |-> p]
    OBVIOUS
  <2>2. x.signer = s /\ x.nonces = n /\ x.package = p
    BY <2>1
  <2>3. /\ AbstractSigned' = AbstractSigned \cup {x}
        /\ AbstractSignatures' = AbstractSignatures
        /\ FS!Cardinality(DOMAIN p.commitments) >= MinSigners
        /\ \A u \in AbstractSigned : ~(u.signer = s /\ u.nonces = n)
    BY <1>1, <2>1 DEF FS!Share, AbstractSigned, AbstractSignatures
  <2> QED
    BY <2>2, <2>3 DEF Promised
<1>2. ASSUME FS!Aggregate PROVE Promised'
  <2>1. PICK P \in SUBSET FS!Complete :
           /\ AbstractSignatures' = AbstractSignatures \cup P
           /\ AbstractSigned' = AbstractSigned
    BY <1>2 DEF FS!Aggregate, AbstractSigned, AbstractSignatures
  <2>2. ASSUME NEW p \in P
        PROVE  /\ \E u \in AbstractSigned : p = u.package
               /\ \A s \in DOMAIN p.commitments :
                     [signer |-> s, nonces |-> p.commitments[s], package |-> p]
                         \in AbstractSigned
    BY <2>1 DEF FS!Complete, AbstractSigned
  <2>3. ASSUME NEW p \in P
        PROVE  FS!Cardinality(DOMAIN p.commitments) >= MinSigners
    BY <2>2 DEF Promised
  <2> QED
    BY <2>1, <2>2, <2>3 DEF Promised
<1>3. CASE UNCHANGED <<AbstractSigned, AbstractSignatures>>
  BY <1>3 DEF Promised
<1> QED
  BY <1>1, <1>2, <1>3 DEF FS!Next

\* As many participants as the threshold have confirmed package i and made
\* their shares for it, each with nonces that it commits to.
ThresholdConfirmed(i) ==
    \E S \in SUBSET Identifiers :
        /\ Cardinality(S) >= MinSigners
        /\ \A s \in S : \E r \in Shared :
              r[1] = s /\ run[r].package = Package(i) /\ Package(i).commitments[s] = r

\* Whatever people type in, when signatures are printed there are, for every
\* message, as many participants as the threshold whose users have confirmed
\* this message with its signing package (aggregate in coordinator/cli.rs).
THEOREM SignaturesTakeTheThreshold ==
    Spec => [](coord.pc = "done" =>
                  \A i \in 1..num_messages : ThresholdConfirmed(i))
<1>1. Init => Promised
  <2>1. Init => Shared = {} /\ coord.pc = "start"
    BY DEF Init, Shared
  <2> QED
    BY <2>1 DEF Promised, AbstractSigned, AbstractSignatures
<1>2. Inv /\ Inv' /\ [Next]_vars /\ Promised => Promised'
  BY StepsAreAbstract, PromiseKept
<1>3. Inv /\ Promised =>
        (coord.pc = "done" => \A i \in 1..num_messages : ThresholdConfirmed(i))
  <2> SUFFICES ASSUME Inv, Promised, coord.pc = "done", NEW i \in 1..num_messages
               PROVE  ThresholdConfirmed(i)
    OBVIOUS
  <2>1. PICK p : p = Package(i)
    OBVIOUS
  <2>2. p \in AbstractSignatures
    BY <2>1 DEF AbstractSignatures
  <2>3. Cardinality(DOMAIN p.commitments) >= MinSigners
    BY <2>2, SameCardinality DEF Promised
  <2>4. ASSUME NEW s \in DOMAIN p.commitments
        PROVE  /\ s \in Identifiers
               /\ \E r \in Shared : /\ r[1] = s /\ run[r].package = p
                                    /\ p.commitments[s] = r
    <3>1. PICK r \in Shared :
             [signer |-> s, nonces |-> p.commitments[s], package |-> p]
                = [signer |-> r[1], nonces |-> r, package |-> run[r].package]
      BY <2>2 DEF Promised, AbstractSigned
    <3>2. r[1] \in Identifiers
      BY DEF Shared, Runs
    <3> QED
      BY <3>1, <3>2
  <2> QED
    BY <2>1, <2>3, <2>4 DEF ThresholdConfirmed
<1> QED
  BY <1>1, <1>2, <1>3, HandInvariant, PTL DEF Spec

=============================================================================
