----------------------------- MODULE ZcashSign ------------------------------
(***************************************************************************)
(* Spending from a Zcash account whose key is shared with FROST: a user    *)
(* runs `zcash-sign sign' (zcash-sign/src/main.rs, sign.rs), which prints  *)
(* the hash to be signed and the randomizer of every spend, and prompts    *)
(* for the signatures; these the user gets from `frost-client coordinator' *)
(* (frost-client/src/cli/coordinator.rs, coordinator/args.rs, cli.rs), to  *)
(* which one message and one randomizer per spend are passed.              *)
(*                                                                         *)
(* Nothing but positions connects the two programs: the i-th randomizer    *)
(* printed is the i-th passed on, the i-th signature that comes out is the *)
(* i-th typed in.  The user is the channel, and may copy wrongly, a        *)
(* bounded number of times; processes may crash, signers may refuse.       *)
(*                                                                         *)
(* A randomizer is named by the spend it was made for.  Signatures are     *)
(* what they sign and how they are randomized.  The signing itself, module *)
(* Signing, is one step here that succeeds or fails.                       *)
(***************************************************************************)
EXTENDS Naturals, FiniteSets, Sequences, SequencesExt

CONSTANTS
    NoSig,           \* spend_auth_sig of a spend that is not signed
    Dummy,           \* the signature that `pczt create' made for a dummy
    None,            \* no hash, no randomizer, no file
    Half,            \* a file that was emptied and not written
    MaxActions,      \* bound on the actions of a bundle
    MaxCount,        \* the largest message_count (255: it is a u8)
    MaxFaults        \* bound on crashes, refusals and errors in copying

ASSUME SignatureAssumption == NoSig # Dummy
ASSUME ZcashBoundsAssumption ==
    MaxActions \in Nat /\ MaxCount \in Nat \ {0} /\ MaxFaults \in Nat

VARIABLES
    input,           \* the file that `zcash-sign sign' reads
    zs,              \* the zcash-sign process
    tx,              \* the file it writes: None, its bundles, or Half
    cmd,             \* the `frost-client coordinator' process
    notes,           \* for every randomizer, the signature the user got
    faults           \* crashes, refusals and errors in copying so far

vars == <<input, zs, tx, cmd, notes, faults>>

Pools == {"Orchard", "Ironwood"}
Alphas == Pools \X (1..MaxActions)
Hashes == {"v5", "v6", "other"}
Signatures == [sighash : Hashes, alpha : Alphas \cup {None}]

\* What the signer sees of an action: whether it carries its alpha, and the
\* signature.  Spends that await one, those without alpha, dummies.
Awaiting == [alpha |-> TRUE, sig |-> NoSig]
Actions == {Awaiting, [alpha |-> FALSE, sig |-> NoSig],
            [alpha |-> TRUE, sig |-> Dummy]}

NoBundles == [pool \in Pools |-> <<>>]

\* What the file may hold: a PCZT, of any version, with or without what it
\* takes to compute its effects; a plan of YWallet; something else.  Only a v6
\* transaction has an Ironwood bundle.
Pczts ==
    {p \in [kind    : {"pczt"},
            version : {"V4", "V5", "V6"},
            effects : BOOLEAN,
            bundles : [Pools -> BoundedSeq(Actions, MaxActions)]] :
        p.version # "V6" => p.bundles["Ironwood"] = <<>>}
Others == [kind : {"ywallet", "garbage"}, version : {"V5"}, effects : {TRUE},
           bundles : {NoBundles}]

NoProcess == [pc |-> "none", want |-> <<>>, messages |-> <<>>,
              randomizers |-> <<>>, signatures |-> <<>>, written |-> 0]

Init ==
    /\ input \in Pczts \cup Others
    /\ zs = [pc |-> "idle", randomizers |-> <<>>, signatures |-> <<>>]
    /\ tx = None
    /\ cmd = NoProcess
    /\ notes = [a \in Alphas |-> NoSig]
    /\ faults = 0

TypeOK ==
    /\ input \in Pczts \cup Others
    /\ zs \in [pc : {"idle", "prompt", "write", "done", "failed", "rejected"},
               randomizers : Seq(Alphas), signatures : Seq(Signatures)]
    /\ Len(zs.signatures) <= Len(zs.randomizers)
    /\ Len(zs.randomizers) <= 2 * MaxActions
    /\ tx \in {None, Half} \/ DOMAIN tx = Pools
    /\ cmd \in [pc : {"none", "signing", "output"}, want : Seq(Alphas),
                messages : Seq(Hashes), randomizers : Seq(Alphas),
                signatures : Seq(Signatures), written : 0..MaxCount]
    /\ Len(cmd.messages) <= MaxCount
    /\ notes \in [Alphas -> Signatures \cup {NoSig}]
    /\ faults \in 0..MaxFaults

-----------------------------------------------------------------------------
(* What zcash-sign makes of its input.                                     *)

\* The hash that the version calls for, if there is one: v6, or v5 with an
\* Orchard bundle.
SighashForPczt(p) ==
    IF ~p.effects THEN None
    ELSE IF p.version = "V6" THEN "v6"
    ELSE IF p.version = "V5" /\ p.bundles["Orchard"] # <<>> THEN "v5" ELSE None

\* A plan of YWallet parses and is then refused.
Supported == input.kind = "pczt" /\ SighashForPczt(input) # None

Sighash == SighashForPczt(input)

\* Mutant: Ironwood spends live in v6 transactions, so only those are looked for.
PoolsForOwn(version) ==
    IF version = "V6" THEN <<"Ironwood">> ELSE <<"Orchard">>

\* A v6 transaction may spend from both pools.
PoolsFor(version) ==
    IF version = "V6" THEN <<"Orchard", "Ironwood">> ELSE <<"Orchard">>

\* The members of a finite set of numbers, the smallest first.
InOrder(S) ==
    CHOOSE s \in [1..Cardinality(S) -> S] :
        \A j, k \in DOMAIN s : j < k => s[j] < s[k]

\* The indices of the spends that await a signature and carry their alpha.
CollectRandomizers(bundle) ==
    InOrder({i \in DOMAIN bundle : bundle[i] = Awaiting})

\* Pass 1: the randomizers of all pools, in the order in which they are
\* printed, which is the order in which the signatures are prompted for.  Each
\* comes with its pool and its index, which pass 2 goes by.
Randomizers ==
    LET tagged(pool) ==
            LET found == CollectRandomizers(input.bundles[pool])
            IN  [j \in DOMAIN found |-> <<pool, found[j]>>]
        pools == PoolsFor(input.version)
    IN  FlattenSeq([k \in DOMAIN pools |-> tagged(pools[k])])

\* The positions of the signatures that belong to a pool.
ForPool(pool) ==
    {k \in DOMAIN zs.randomizers : zs.randomizers[k][1] = pool}

\* apply_signature of the orchard crate: the signature must be one of the hash
\* it is given, under the key randomized with this action's alpha.
Verifies(sig, pool, idx) ==
    /\ idx \in DOMAIN input.bundles[pool]
    /\ sig = [sighash |-> Sighash, alpha |-> <<pool, idx>>]

\* Pass 2: every signature of a pool must verify for the action it is for.
ApplyOk ==
    \A j \in DOMAIN PoolsFor(input.version) :
        LET pool == PoolsFor(input.version)[j] IN
        \A k \in ForPool(pool) :
            Verifies(zs.signatures[k], pool, zs.randomizers[k][2])

\* The bundles with the signatures injected.
Signed ==
    [pool \in Pools |-> [i \in DOMAIN input.bundles[pool] |->
        IF <<pool, i>> \in Range(zs.randomizers)
        THEN [input.bundles[pool][i] EXCEPT !.sig =
                 zs.signatures[CHOOSE k \in DOMAIN zs.randomizers :
                                   zs.randomizers[k] = <<pool, i>>]]
        ELSE input.bundles[pool][i]]]

-----------------------------------------------------------------------------
(* The zcash-sign process.                                                 *)

\* Reads and parses the file, computes the hash, prints all randomizers.
Open ==
    /\ zs.pc = "idle"
    /\ zs' = IF Supported
             THEN [pc |-> "prompt", randomizers |-> Randomizers,
                   signatures |-> <<>>]
             ELSE [zs EXCEPT !.pc = "rejected"]
    /\ UNCHANGED <<input, tx, cmd, notes, faults>>

\* One answer to the next prompt; one that is no signature ends the run.
Answer(sig) ==
    /\ zs.pc = "prompt"
    /\ Len(zs.signatures) < Len(zs.randomizers)
    /\ zs' = IF sig = NoSig THEN [zs EXCEPT !.pc = "failed"]
             ELSE [zs EXCEPT !.signatures = Append(@, sig)]
    /\ UNCHANGED <<input, tx, cmd, notes>>

\* All prompts answered: the signatures are applied, and the file is opened
\* for writing, which empties it.
Apply ==
    /\ zs.pc = "prompt"
    /\ Len(zs.signatures) = Len(zs.randomizers)
    /\ IF ApplyOk
       THEN zs' = [zs EXCEPT !.pc = "write"] /\ tx' = Half
       ELSE zs' = [zs EXCEPT !.pc = "failed"] /\ UNCHANGED tx
    /\ UNCHANGED <<input, cmd, notes, faults>>

Write ==
    /\ zs.pc = "write"
    /\ tx' = Signed
    /\ zs' = [zs EXCEPT !.pc = "done"]
    /\ UNCHANGED <<input, cmd, notes, faults>>

-----------------------------------------------------------------------------
(* The coordinator's command.                                              *)

\* No -m reads a single message from standard input.
ReadMessages(messages) == IF messages = <<>> THEN <<Sighash>> ELSE messages

\* As many outputs as messages, if any.
OutputsFit(messages, outputs) == outputs \in {0, Len(messages)}

\* As many randomizers as messages, if any.
RandomizersFit(messages, randomizers) ==
    Len(randomizers) \in {0, Len(messages)}

\* Mutant: the number of the messages is cast to a u8 unchecked.
CountUnchecked(messages) == TRUE

\* The number of messages is the session's message_count, a u8.
CountFits(messages) == Len(messages) <= MaxCount

\* The counts that are checked before anything is signed.
CommandOk(messages, randomizers, outputs) ==
    /\ OutputsFit(messages, outputs)
    /\ RandomizersFit(messages, randomizers)
    /\ CountFits(messages)

\* The user asks for signatures for the randomizers `want'.
StartCommand(want, messages, randomizers, outputs) ==
    LET ms == ReadMessages(messages) IN
    /\ cmd.pc = "none"
    /\ zs.pc = "prompt"
    /\ want # <<>>
    /\ cmd' = IF CommandOk(ms, randomizers, outputs)
              THEN [NoProcess EXCEPT !.pc = "signing", !.want = want,
                                     !.messages = ms, !.randomizers = randomizers]
              ELSE NoProcess
    /\ UNCHANGED <<input, zs, tx, notes>>

\* Mutant: messages and randomizers are zipped from opposite ends.
AggregatedReversed(messages, randomizers) ==
    [i \in DOMAIN messages |->
        [sighash |-> messages[i],
         alpha   |-> IF randomizers = <<>> THEN None
                     ELSE randomizers[Len(randomizers) + 1 - i]]]

\* One signature per message, each with the randomizer at its position.
Aggregated(messages, randomizers) ==
    [i \in DOMAIN messages |->
        [sighash |-> messages[i],
         alpha   |-> IF randomizers = <<>> THEN None ELSE randomizers[i]]]

\* The signing over HTTP has succeeded.
Sign ==
    /\ cmd.pc = "signing"
    /\ cmd' = [cmd EXCEPT !.pc = "output",
                          !.signatures = Aggregated(cmd.messages, cmd.randomizers)]
    /\ UNCHANGED <<input, zs, tx, notes, faults>>

\* The signatures are printed, or written to their files, one by one; the user
\* takes the i-th for the i-th that was asked for.
Output ==
    LET i    == cmd.written + 1
        last == i = Len(cmd.signatures)
    IN
    /\ cmd.pc = "output"
    /\ notes' = IF i \in DOMAIN cmd.want
                THEN [notes EXCEPT ![cmd.want[i]] = cmd.signatures[i]] ELSE notes
    /\ cmd' = IF last THEN NoProcess ELSE [cmd EXCEPT !.written = i]
    /\ UNCHANGED <<input, zs, tx, faults>>

-----------------------------------------------------------------------------
(* The user, and what goes wrong.                                          *)

\* The randomizers without a signature yet, as many as one command may take.
Missing ==
    LET rs   == zs.randomizers
        left == InOrder({k \in DOMAIN rs : notes[rs[k]] = NoSig})
        all  == [j \in DOMAIN left |-> rs[left[j]]]
    IN  SubSeq(all, 1, IF Len(all) <= MaxCount THEN Len(all) ELSE MaxCount)

\* The hash once for each of them, and the randomizers as printed.
CarefulCommand ==
    /\ \E outputs \in {0, Len(Missing)} :
          StartCommand(Missing, [i \in DOMAIN Missing |-> Sighash], Missing, outputs)
    /\ UNCHANGED faults

\* The signature that was got for the randomizer of the prompt.
CarefulAnswer ==
    LET next == zs.randomizers[Len(zs.signatures) + 1] IN
    /\ zs.pc = "prompt"
    /\ Len(zs.signatures) < Len(zs.randomizers)
    /\ notes[next] # NoSig
    /\ Answer(notes[next])
    /\ UNCHANGED faults

\* After an error the user starts over.
StartOver ==
    /\ zs.pc = "failed"
    /\ cmd.pc = "none"
    /\ zs' = [pc |-> "idle", randomizers |-> <<>>, signatures |-> <<>>]
    /\ notes' = [a \in Alphas |-> NoSig]
    /\ UNCHANGED <<input, tx, cmd, faults>>

Fault ==
    /\ faults < MaxFaults
    /\ faults' = faults + 1

\* Another hash, too few or too many messages, randomizers left out or in
\* another order, a wrong number of outputs.
CarelessCommand ==
    /\ Fault
    /\ \E messages    \in BoundedSeq({Sighash, "other"}, MaxCount + 1),
          randomizers \in BoundedSeq(Range(Missing), Len(Missing)),
          outputs     \in {0, Len(Missing)} :
          StartCommand(Missing, messages, randomizers, outputs)

\* Any signature the user has, or none, in answer to any prompt.
CarelessAnswer ==
    /\ Fault
    /\ \E sig \in Range(notes) \cup {NoSig} : Answer(sig)

\* A crash, signers who refuse, an output that cannot be written: what was not
\* output is lost.
CommandFails ==
    /\ Fault
    /\ cmd.pc # "none"
    /\ cmd' = NoProcess
    /\ UNCHANGED <<input, zs, tx, notes>>

\* A crash, or a file that cannot be written.
ZcashSignFails ==
    /\ Fault
    /\ zs.pc \in {"prompt", "write"}
    /\ zs' = [zs EXCEPT !.pc = "failed"]
    /\ UNCHANGED <<input, tx, cmd, notes>>

Finished ==
    /\ zs.pc \in {"done", "rejected"}
    /\ cmd.pc = "none"
    /\ UNCHANGED vars

\* What happens when nobody errs.
Proceed ==
    \/ Open \/ Apply \/ Write
    \/ Sign \/ Output
    \/ CarefulCommand \/ CarefulAnswer \/ StartOver

Next ==
    \/ Proceed
    \/ CarelessCommand \/ CarelessAnswer
    \/ CommandFails \/ ZcashSignFails
    \/ Finished

Spec == Init /\ [][Next]_vars

\* Running processes go on, and the user goes on until there is a transaction.
Fairness == WF_vars(Proceed)

FairSpec == Spec /\ Fairness

-----------------------------------------------------------------------------
(* Properties.                                                             *)

\* The hash that consensus rules demand of a transaction of this version.
RequiredSighash == IF input.version = "V6" THEN "v6" ELSE "v5"

\* What is written has the signatures it was made for: whatever the user typed
\* in, every spend that awaited a signature and carries its alpha, in either
\* pool, has one of the hash its version demands ("Using the v5 hash for a v6
\* transaction yields a hash the transaction extractor rejects ... and that only
\* surfaces at broadcast", sign.rs), with its own randomizer, and nothing else
\* has changed.  A spend without its alpha is passed over (sign.rs:164-176) and
\* stays without a signature; a file that was left half written is no transaction.
SpendsAuthorised ==
    tx \notin {None, Half} =>
        \A pool \in Pools : \A i \in DOMAIN input.bundles[pool] :
            tx[pool][i] =
                IF input.bundles[pool][i] = Awaiting
                THEN [alpha |-> TRUE,
                      sig   |-> [sighash |-> RequiredSighash,
                                 alpha   |-> <<pool, i>>]]
                ELSE input.bundles[pool][i]

\* Copying by position is enough: once the user errs no more and nothing
\* crashes, every supported transaction gets written, from any pools, with any
\* number of spends (more than one command can take included), whatever an
\* earlier attempt has left behind.
SpendsComplete == Supported => <>(zs.pc = "done")

=============================================================================
