# FROST tools: specifications, model checking and proofs

This directory holds TLA+ specifications of `frost-tools`: the `frostd` server,
through which FROST participants exchange messages, the two protocols that
`frost-client` runs over it, distributed key generation (DKG) and signing, the
signing by copy and paste that needs no server, the tool `zcash-sign` that has a
transaction signed with it, and the configuration files in which `frost-client`
keeps keys and key shares. TLC checks them on small instances, TLAPS proves the
central safety properties for every instance. Paths below are relative to the repository (`frostd/src/...`
is `src/frostd/src/...` in `PROJECT.json`, which lists for every definition
the lines it models).

## 1. The system

### Components, their state and their operations

| Component | State | Operations | Module |
|---|---|---|---|
| frostd session store (`state.rs`, `functions.rs`) | `sessions` (members, coordinator, message count, queues, timeout), `sessions_by_pubkey` (index) | create, list, get info, send, receive, close; the expiry task | `FrostdSessions` |
| frostd authentication (`state.rs`, `functions.rs`, `user.rs`) | `challenges`, `access_tokens`, both with timeouts | challenge, login, logout, the `User` extractor, two expiry tasks | `FrostdAuth` |
| frostd router (`lib.rs`) | none of its own | which handler is behind the extractor | `Frostd` |
| `DKGSessionState` (`frost-client/src/session.rs`) | an enum of four states with maps of packages | `recv` and the `has_...` tests | `DKGSession` |
| DKG over HTTP (`dkg/comms/http.rs`, `dkg/cli.rs`) | where a run is, its session state, its token | the send and receive loops, close, logout, `cleanup_on_error` | `DKG` |
| `CoordinatorSessionState` (`session.rs`) | an enum of three states | `recv` and the `has_...` tests | `CoordinatorSession` |
| Signing over HTTP (`coordinator/`, `participant/`) | where each run is, signing package, nonces | commitments, signing package, shares, close, logout, `cleanup_on_error` | `Signing` |
| `Cipher` (`cipher.rs`) | a Noise channel per peer and direction | encrypt, decrypt | `Cipher` |
| HTTP client (`client.rs`) | the access token | one call per route | inside `DKG` and `Signing` (`CallResult`) |
| Configuration file (`cli/config.rs`, `write_atomic.rs`, `contact.rs`, `group.rs`, `init.rs`, `dkg.rs`, `trusted_dealer.rs`) | the communication key, the contacts, the groups with the user's key shares | init, import, remove-contact, remove-group, dkg, trusted-dealer; read and atomic replacement | `ConfigFile`, `ConfigStore` |
| Session commands (`cli/session.rs`) | the ids listed and not yet gone through | list, get info, close | `SessionCommands` |
| Signing by hand (`coordinator/comms/cli.rs`, `participant/comms/cli.rs`) | what was typed in so far; a run's nonces | one prompt after the other | `HandSigning` |
| The coordinator's command (`cli/coordinator.rs`, `coordinator/args.rs`) | messages, randomizers, signatures not yet output | read, sign, output | `ZcashSign` |
| `zcash-sign sign` (`sign.rs`, `main.rs`) | the PCZT, the randomizers, the signatures typed in | hash, randomizers, prompts, apply, write | `ZcashSign` |
| Socket transport, DKG by hand, `zcash-sign generate` | | | not modelled, see section 7 |

### How they interact

Clients never talk to each other. A client logs in (a challenge signed with its
communication key gives an access token, valid for an hour), one of them creates
a session, and from then on everybody calls `send` and polls `receive` every two
seconds. The server keeps a queue per participant and one for the coordinator;
`receive` empties the caller's queue; closing a session drops what is queued.
The protocols do not number their messages or their rounds: each participant
parses what it receives according to the state it is in itself.

Two interfaces have no program between them but a person. The programs
`coordinator` and `participant` print what they have for each other and prompt for
what they need. `zcash-sign sign` prints one hash and a randomizer per spend and
prompts for the signatures, which come from `frost-client coordinator`; only
positions tie the two together.

### What is hard about it

* **Locks released half way.** `login` removes the challenge under one lock and
  adds the token under another; the `User` extractor releases the token map
  before the handler runs; the expiry task of the sessions takes a session out
  of the map and unlists it under a different lock later.
* **Two maps that must agree**: `sessions` and `sessions_by_pubkey`.
* **Timeouts renewed by traffic**, by clients that poll all the time.
* **Rounds that overlap.** A fast participant's message of the next round arrives
  while a slow one is in the round before; one `receive` returns messages of
  several rounds; loop conditions are tested after the whole batch.
* **Loops without a timeout of their own**, which only an error of the server ends.
* **Early close**: the creator of a DKG session closes it when *it* is done.
* **Restarts**: a signer that starts again has new nonces and a new cipher, and
  the queue of its predecessor.
* **An inconsistent DKG participant**, which echo broadcast has to expose.
* **A file that is read, changed and replaced without a lock**, by commands one of
  which runs a whole key generation before it writes.

* **A list of sessions that is stale** as soon as it is returned, gone through by a
  command that stops at the first error.
* **People as channels**: whatever they copy wrongly, nonces must sign one package and
  a transaction that is written must be valid; and what they copy rightly must fit,
  by position alone, across several messages, two pools and several commands.

The `hazards` of `PROJECT.json` list these line by line, with the properties
that would catch them going wrong.

## 2. The modules and the code

```
FrostdSessions ----+                    DKGSession -- DKG -- MCDKG
                   +-- Frostd -- MCFrostd
      FrostdAuth --+          CoordinatorSession, Cipher -- Signing -- MCSigning

FrostdSessions -- SessionCommands -- MCSessionCommands
FrostSigning, implemented by Signing and by HandSigning        ZcashSign

ConfigFile -- ConfigSnapshot, ConfigStore -- MCConfigStore
```

The theorems about a module `M` and their proofs are in `MProofs`; those about
`FrostdSessions` and `SessionCommands` are together in `FrostdSessionsProofs`, and
`FrostdProofs` uses the theorems about the two parts of `Frostd`.

**`FrostdSessions`**. A handler that holds the lock on `sessions` for its whole
body is one action: `CreateNewSession`, `Send`, `Receive`, `CloseSession`,
`ListSessions`, `GetSessionInfo`; `...Result` operators give the outcome in the
order in which the code checks, and `Refused` is any call that is refused. The
expiry task is two actions, `ExpireSession` and `UnlistExpired`, with requests
in between. `Tick` is the clock of the delay map (external): a session whose
time is up remains usable until the task polls. `send` is modelled with
duplicates among the recipients, which queue a copy each. History variables
(`created`, `timed_out`, `sent`, `received`, `idle`) record what properties
speak about; no guard reads them, except that ids are fresh (`Uuid::new_v4`)
and that `MaxSends` bounds `sent`.

**`FrostdAuth`**. `login` is `LoginConsume` and `LoginIssue`, a request is
`Authenticate` and later `Logout` or `Answer`; `ExpireChallenge` and `ExpireToken`
are single steps, since the poll itself removes the entry. Signatures are
external: `signed` records who signed which challenge, and verification succeeds
for exactly those.

**`Frostd`** composes the two: `Handle(r)` runs a store request for the key that
`Authenticate` found, which may be after the token has died. The clocks of the
two parts tick independently, so nothing depends on the relation between timeouts.

**`DKGSession`** and **`CoordinatorSession`** translate the enums of `session.rs`
as operators: `RecvResult` is what a message meets (the checks in their order),
`Recv` the state after an accepted one. Messages are records by type; a message
of one round does not parse as another, as with the JSON of the code.
Identifiers are the public keys themselves, to which they are one to one.

**`DKG`** runs the participants against one session. The entering calls are one
step; after that a step is an HTTP call or the handling of one message of the
last receive. `pc` follows `get_round1_packages` (send, wait, echo, wait) and
`get_round2_packages` (send, wait, close, logout). `AfterBatch` is the loop
condition. Every error goes through `Abort` and `Cleanup` (`cleanup_on_error`).
`Outgoing` lets a participant in `Inconsistent` send any version of its own
packages to each peer; `part3` of frost_core (external) accepts a share that
fits the Round 1 Package. Encryption is left out here: a participant has one
process in a run and queues are FIFO, so messages decrypt.

**`Signing`** runs a coordinator and its signers, with the cipher: a signer whose
run failed may start a new process, which has new nonces and an empty cipher.
`round2::sign` and `aggregate` are external and modelled by what they demand
(the package commits to the nonces; each share belongs to the package).

**`Cipher`**: the first message of a channel is a handshake message, which any
fresh receiver can read; later ones are transport messages, bound to the process
whose handshake was read and to their number.

**`ConfigFile`** is the content of a configuration file and, for each command, what
it makes of that content (no result if it refuses). **`ConfigStore`** runs the
commands in steps: read (`Start`, `ReadAgain`, `DealerNext`), create the temporary
file, write it, persist; `Stop` is a crash or a failing file operation at any of
them. `frost-client dkg` reads the file before the key generation and again after
it; the dealer reads all files, then reads and replaces them one by one.

There is no lock, in the code or in the model. From the last read of a file to its
replacement a command is in its *window* (`InWindow`), and what another command stores
in that window is overwritten (a lost update). Windows overlap as they happen to: a user
who starts one command at a time does not prevent it, since a key generation reads and
replaces the file again when the network finishes (`dkg.rs:139-144`). The history variable
`lost` records what was overwritten in this way (`Overwritten`), group by group and key by
key, and the field `seen` of a command what it read. **`ConfigSnapshot`** is what is left of
atomicity without a lock: a command takes effect in one step, and makes of the file what
it should have made of it when it last read it.

**`SessionCommands`** puts `frost-client sessions [--close-all]` beside the session
store. `List` is login and `list_sessions`; then `Info` and, with `--close-all`,
`Close` for each id, in any order (the ids come as a set). The outcomes are those of
`FrostdSessions`, whose other steps come in between. History in `cmd` records what
was live, and whose, when the list was made.

**`FrostSigning`** says what a signing promises, whatever carries its messages: shares
are made with nonces that were not used before, for a package that commits to them,
and a signature needs the shares of all signers of its package. `Signing` and
`HandSigning` implement it (`ImplementsFrostSigning` in both).

**`HandSigning`** has one coordinator, who may sign several messages, and the runs of
the signers' programs, each for one message. Each prompt is an action that takes what
is typed in (`EnterCommitments`, `EnterShare`, `EnterPackage`): the `Careful...`
actions are people who copy what is on the screen to where it belongs, the
`Careless...` ones anything that was printed anywhere, under any identifier, or
nothing that parses. The coordinator first takes the commitments for all messages, and
starts the list of participants anew for each. A share is filed under the
identifier prompted for; `aggregate` (external) finds out whether it fits.

**`ZcashSign`** runs `zcash-sign sign` and `frost-client coordinator` side by side, with
the user between them. `SighashForPczt`, `PoolsFor`, `Randomizers`, `ForPool` and
`Signed` are the steps of `sign_pczt`; `OutputsFit`, `RandomizersFit` and `CountFits` are
the three checks of counts, made in three files before anything is signed (`CommandOk`); `Aggregated` matches messages and randomizers
by position; `Output` is one signature printed or written. The list of randomizers that
`sign_pczt` keeps until it applies the signatures is part of its state (`zs.randomizers`);
`InOrder(S)`, the one increasing list of a set of indices, gives the order in which a
bundle is gone through. The signing is one step that
succeeds or fails, `Signing` being about what happens inside. `MaxCount` is 255 in the
code, since the count is a `u8`. `apply_signature` (external) accepts a signature of the
hash it is handed under the action's own randomized key. Action indices repeat in the two
pools, as in a v6 transaction.

Definitions marked "Mutant" are deliberate mistakes used to test that the
properties can fail; no specification uses them.

## 3. What TLC checks

Every property below is violated when the mutant listed with it in
`PROJECT.json` takes the place of the operator it changes.

| Run | Instance | Shows |
|---|---|---|
| `store` | 2 keys, 1 session, 2 messages per queue, timeout 2, fair | `LiveSessionsListed`, `StaleEntriesExplained`: the maps agree up to the expiry task's window and one known exception; `QueuesBelong`; `ExactlyOnceInOrder`: received followed by queued is sent, until the session ends; `NoEarlyExpiry`; `AbandonedSessionsEnd`: without traffic a session ends however often it is polled |
| `auth` | 2 keys, 2 challenges, 2 tokens, 2 requests at a time, fair | `ChallengesUsedOnce` under concurrent logins; `RequestsAreAuthentic`; `DeadTokensStayDead`; `TokensExpire` |
| `server` | 2 keys, 2 requests at a time, 1 session, symmetry | `ActorsAreAuthentic`, `EndedByCoordinatorOrTimeout`, `DeliveredToAddressee`, `SentInOwnName` |
| `dkg_three` | 3 participants, 1 inconsistent with 2 versions, 1 fault | `EchoAgreement`: no two pass the echo broadcast with different packages; `NoFalseAccusation`: every end of a run has its cause: somebody published two versions, the creator ended, or a third participant was a round ahead; `KeyOnlyAfterAllValidated`; `TypeOK` with `StageFits`: packages are counted, and those counted are of all the others |
| `dkg_live` | 2 participants, expiring tokens, 2 faults, fair | `RunsEndWithToken`, `ClosedSessionStopsAll` |
| `sign` | 2 signers with 2 processes each, expiring tokens, 1 fault, fair | `NoncesUsedAsCommitted`, `SharesFit`, `UndisturbedSigningSucceeds`, `RunsEndWithToken`; `ImplementsFrostSigning`: implements `FrostSigning!Spec` |
| `commands` | 2 keys, 2 sessions, no traffic, timeout 1, symmetry | `CommandOutcomes`: after success everything listed, and everything the user coordinated, is gone; an error has one of two causes |
| `hand` | 2 signers, 2 messages, 2 runs each, 1 error; one number that is no identifier | `ImplementsFrostSigning` whatever is typed in; `UndisturbedSigningSucceeds` |
| `zcash` | versions 4 to 6, up to 2 actions of 3 kinds in each of 2 pools, at most 2 messages per command, 2 errors, fair | `SpendsAuthorised`: what is written has the hash its version demands and the right randomizer in every spend; `SpendsComplete`: it gets written, also when it takes two commands |
| `config` | 2 files, 3 keys, 1 contact name, 2 groups, 2 commands at a time, 3 key shares produced, removed or lost (`MaxHistory`), user commands on one file, symmetry | `TypeOK`: the file is never half written; `OnlyOverlapsLoseShares`: a share that was produced stays, unless the user removes it, its command is killed, or it was stored inside the window of another command; `GroupsIncludeOwner`: the key a group was made with is still the user's, or was lost in that way; `ImplementsSnapshot`: `ConfigStore` implements `ConfigSnapshot!Spec` |

**Why the bounds are enough to be interesting.** Two keys give a coordinator who is a
participant, one who is not, and a stranger. One session suffices for the store because
sessions share nothing but the index, whose entries are per id; the theorems of section
5 cover several. Two messages per queue and recipients lists of length two give order
and duplicates. A timeout of two distinguishes "renewed" from "not renewed" and from
"zero". Two logins and two requests are what it takes for a race. Three DKG participants
are the fewest with echo broadcast, two are the special case the code has for itself.
Two processes of a signer are a restart. Two commands and two groups are what it takes
for one command to overwrite what another stored. `MaxHistory` bounds the sum of the
shares that were produced, removed and lost: three are a dealer's two and one that a key
generation adds, or two key generations of which one loses its share, or a dealer and
the loss of a key, with all that can follow. What a command does to a file concerns
others only through the file, so the user's commands and key generations run on one of
the two; `init` and the dealer, whose two passes tie the files together, run on both.
`MaxHistory` is a constraint: a state beyond it is checked and not continued from. By
hand, two messages are what it takes to mix up their commitments, and two runs of each
signer the least with which both can be signed. Two actions in two pools give indices
that repeat, spends that are passed over between others, and four spends where a command
takes two. The `commands` run has no messages, because the commands do not see them.
Symmetry is used only in runs without liveness properties.

**Fairness.** `FrostdSessions` and `FrostdAuth`: the clock advances and the expiry
tasks, which loop for ever, keep polling; a login or request that the server has
begun is finished. Requests themselves are never fair. `DKG` and `Signing`: a
running process goes on (`WF` on its own steps; a process that crashes has no
more steps), and in `Signing` the users start the signers once and answer when
asked. That tokens expire, that faults happen or that a signer is started again
is never assumed: `RunsEndWithToken` says what follows once a token is gone, and
`TokensExpire` of `FrostdAuth` is the reason it will be. In `HandSigning` and
`ZcashSign` the programs run and people carry on: that they copy rightly is not
assumed, but errors are bounded, and the liveness properties speak of what follows
the last of them (`SpendsComplete`) or of a signing without any
(`UndisturbedSigningSucceeds`). Deadlock is checked in
all runs; `Finished` is the only way to stop (in `HandSigning` also for people who have
erred and give up).

## 4. Where the code and its comments disagree

Two runs are expected to end in a violation. Each checks what a comment of the
code says, and the trace shows what the code does.

* **`dkg_loop`** (`Round1LoopSeesPackages`). `has_round1_packages` is false in
  `Round2PackagesReady`. With two participants, one `receive` that returns the
  other's Round 1 and Round 2 Packages moves the state there before the loop
  looks, and the loop polls for packages it already has.
* **`sign_retry`** (`RetriesAreTolerated`). `handle_commitments` accepts a second
  message of a signer, for the sake of retries; but a retry is a new process, whose
  first message the coordinator's cipher cannot decrypt, and that error ends the
  signing.

Consequences of the code that the passing runs show, as exceptions their properties
have to make:

* An echo that arrives before the last Round 1 Package is parsed as a Round 1 Package,
  and the error ends the run although nothing failed ("parse error" in
  `NoFalseAccusation`; it takes three participants).
* The creator of a DKG closes the session when it has its own packages; another
  participant's unfetched packages are dropped and it ends without a key while the
  creator has one ("SessionNotFound" in `NoFalseAccusation`, and
  `ClosedSessionStopsAll`). The two seconds for which the code sleeps before the close
  (`dkg/comms/http.rs:320`) make this unlikely and rule out nothing.
* With three participants a batch may complete the Round 1 Packages and all echoes at
  once; that participant skips its own echoes (`AfterBatch` goes to `send2`, under a
  comment that speaks of "only 2 participants", `dkg/comms/http.rs:221`). The others never
  validate, and meet its Round 2 Packages with a parse error: the key generation is lost,
  but nobody has a key of it (`KeyOnlyAfterAllValidated`).
* Two commands that are in their windows on one configuration file at the same time lose
  what the first of them stores. Of two key generations that end together one share is
  lost, although each user saw a success; an `import` that overlaps the first `init` takes
  the new key away, a second `init` makes another, and groups made with the first remain
  in the file without their owner (the exceptions of `OnlyOverlapsLoseShares` and
  `GroupsIncludeOwner`; `dkg.rs:138` asks whether reading the file again is enough).
* The expiry task unlists a session for its participants only, so a coordinator who is
  not one sees it listed for good (`StaleEntriesExplained`). `frost-client sessions`,
  which "lists the active FROST signing sessions the user is in" (`cli/args.rs:152`),
  then stops at the error of `get_session_info`, and `--close-all` with it, with
  whatever order the ids come in deciding what was closed before (`CommandOutcomes`).
* `--close-all` also stops at the first session that somebody else coordinates.
* By hand, randomizers passed to `coordinator` are refused only after everybody's
  commitments were typed in, and with redpallas `participant` demands a randomizer
  that the coordinator cannot have: only zero fits (the exceptions of
  `UndisturbedSigningSucceeds` in `HandSigning`).

## 5. What is proved

Every invariant and every action property that a passing run checks, and each of the
three refinements (`ImplementsFrostSigning` twice, `ImplementsSnapshot`),
is a theorem about its specification, for every value of the constants that
satisfies the named assumptions next to their declarations. These are:

* of `FrostdSessions`, `FrostdAuth` and `Frostd`, which repeats them: the coordinator's
  slot is not a key and `NoUser` is no user, the timeouts are positive, message counts
  are a `u8`, bounds are naturals;
* of `DKG`: at least two and finitely many participants, the creator and the
  inconsistent ones among them, and one version that the consistent ones send;
* of `Signing`: finitely many signers, at least one, the coordinator not among them, and
  at least one message; of `HandSigning`: finitely many identifiers, a number of signers
  between the minimum and that of the identifiers, and at least one message;
* of `ConfigStore`, `SessionCommands` and `ZcashSign`: that values which stand for
  nothing (a free slot, a half written file, no key, no session, no signature) are not
  values of the kind they stand in for; and of `ConfigStore` that no group is a key.

Nothing is assumed about how many users, sessions, requests, processes, messages,
actions, errors and crashes there are, nor about when commands run: the theorems about
`ConfigStore` hold however the windows on a file overlap.

**`FrostdSessionsProofs`** builds one inductive invariant in layers.

1. `TypeCorrect` (`TypeOK`).
2. `SessionsAreListed` and `StaleEntriesAreExplained`. Neither is inductive: the
   expiry task removes entries by what the session *was created with*. `IndexInv`
   adds `HistoryLinked`: a live session has the members in `created`, one being
   expired is not live and has timed out.
3. `QueuesAreOfMembers` and `DeliveryIsExact`, by `QueueInv`, which adds that an id
   never used has no history (`FreshIdsSilent`), without which creating a session
   could meet old messages. Layer 2 says who members are.
4. `ExpiryIsNotEarly`, an action property, by `ClockInv`: the idle time and the
   remaining time of a live session add up to the timeout.
5. `CommandsTellTheTruth` (`CommandOutcomes` of `SessionCommands`). What a command
   knows is stale when it uses it, so `CommandOK` states only what no step of the store
   undoes (`StoreStep`): a listed id that was dead stays dead, one that is done with stays
   closed, and who is in a session and coordinates it never changes. With layer 2 a
   failing `get_session_info` then means that the session has ended. `CommandKept`
   says that all of this survives any step of anybody else.

**`FrostdAuthProofs`**. `ChallengesOpenOneLogin` and `RequestsAreOfSigners`
(`ChallengesUsedOnce`, `RequestsAreAuthentic`) by `AuthInv`: a challenge is outstanding,
or taken by one login call that has its owner's signature, or turned into a token, and
never two of these; what was issued is remembered, so it explains a request whose token
has died meanwhile. `DeadTokensAreNotRevived` is an action property: only `login` makes
a token, and a new one.

**`FrostdProofs`** instantiates the two modules above and shows that a step of the server
is a step or a stutter of each (the lemmas `ServerIsStore`, which follows
from how `Frostd` is composed, and `ImplementsAuth`); all their
invariants then hold of the server (`ServerKeepsTheStore`). `ServerActorsAreAuthentic`, `SessionsEndForAReason`,
`DeliveryIsToAddressee` and `SendersAreActors` follow from what each handler does for the
key that the authentication found.

**`DKGProofs`** has two invariants. `EchoBroadcastAgrees` is `EchoAgreement` for any number
of participants, of inconsistent ones, of versions and of faults. `EchoAgreement`
speaks of what two participants ended up with, which no step preserves by itself;
`EchoInv` traces it back. `collected[p]` is what `p` had when it had all Round 1
Packages. (a) It never changes afterwards (`Settled`), since counting the packages
suffices to know they are those of all the others (`CountingSuffices`). (b) An echo
in a queue or an inbox repeats what its sender collected (`MsgOK`), so (c) an
accepted one means that its sender and its receiver collected the same
(`EchoOK`); (d) when `EchoesComplete` holds there is one for every pair, which is
agreement with everybody (`EchoesAgree`), and what `get_round1_packages` returns is
what was collected (`ReturnedOK`). The case of a batch that completes everything at
once, in which a participant never echoes, is covered: it only means that others
never pass.

`DKGTypesAreCorrect` includes `StageFits`, which `CountingSuffices` gives: a session
state counts packages without looking whose they are, and once it has counted enough
they are of all the others. `DKGTypesAreCorrect`, `KeysFollowValidation` and
`NobodyIsAccusedWithoutCause` (`TypeOK`, `KeyOnlyAfterAllValidated`,
`NoFalseAccusation`) need more: that a message is *not* there. `CauseInv` says that what
a sender has yet to send to a receiver, what is on its way and what was accepted exclude
each other (`SentOK`, `ComingOK`), so that nothing is handled twice; that the Round 1
Package of a sender is ahead of its Round 2 Package (`OrderOK`); that what is on its way
was published (`PublishedOK`); and what each stage of a run implies about the state of
its session (`StageOK`). A message that `recv` refuses is then from a participant who is
a round ahead, or contradicts what was published, and somebody inconsistent has
published two versions.

**`SigningProofs`**. `NoncesSignOnePackage` and `CollectedSharesFit`
(`NoncesUsedAsCommitted`, `SharesFit`) by `Inv`: the coordinator makes one signing package
(`PackageOK`); all that is signed is that package, with nonces of the process it commits to
(`SignedOK`); a process has signed or is still going to, not both (`SignerOK`); what the
coordinator has or is sent repeats something signed (`StateOK`, `SignerMsg`).
`SigningImplementsFrostSigning` maps each step to one of `FrostSigning!Spec` or a stutter.

**`HandSigningProofs`**. There are several messages and packages and anything may be typed in, so
the invariant is about what cannot be wrong in spite of that: what the coordinator has
asked for at each stage, shares only from those whose commitments are in the package
(`CoordOK`), and a package in front of the user of every run that signs (`RunsOK`). A run
that has made its share makes no other, and when `aggregate` succeeds it has compared every
share with its package (`AllEntered`); `HandSigningImplementsFrostSigning` follows, and
from it `SignaturesTakeTheThreshold`: when signatures are printed, as many participants as
the threshold have confirmed each message with its package.

**`ConfigStoreProofs`**. No theorem assumes that windows are apart. `StoreInv` is what every
command keeps: a file holds a whole configuration (`ConfigTypesAreCorrect`), the groups in
it were produced (`StoredOK`), and what a command is about to write is an outcome of its
change on the file *as it read it*, and what it is yet to store was produced (`HeldOK`).
`CommandsActOnSnapshots` follows: replacing the file is the `TakeEffect` of
`ConfigSnapshot`, every other step begins, abandons or stutters. `UserInv` is what the
users keep: an outcome removes no group but the one to be removed and never replaces a key,
so what was in the file and is not after its replacement was stored inside the window, and
is in `lost`. A key that a key generation, a dealer or a group in a file or in the memory
of a command was ever given is therefore still in the file or lost (`OwnedOK`, `OwnerOK`).
`SharesAreLostToOverlapsOnly` and `OwnersAreParticipants` are the parts of it that users see.

**`ZcashSignProofs`**. `SpendsAreAuthorised`: `sign_pczt` writes when as many signatures as
randomizers were verified, position by position, which says something about the *spends*
only because the list of randomizers has every spend that awaits a signature
(`RandomizersAreAwaiting`). That a bundle can be listed in order at all (`InOrderLists`,
`FlattenTwo`) takes induction on its length. The theorems of the library that provide
induction have an operator as a parameter; `Induction` provides it for a property that is
given as a set, from the well-foundedness of strict inclusion among finite sets.

## 6. What is only model-checked

Liveness is out of the prover's reach: `AbandonedSessionsEnd`, `TokensExpire`,
`RunsEndWithToken` (of `DKG` and `Signing`), `ClosedSessionStopsAll`,
`UndisturbedSigningSucceeds` (of `Signing` and `HandSigning`) and `SpendsComplete` are
checked on the instances of section 3. So are the two properties that fail (section 4).

## 7. What is not modelled, and the plan

* **Socket transport** (`*/comms/socket.rs`): nothing constructs a `SocketComms`. The
  repository's README.md:77-79 speaks of demos that use sockets, but `coordinator`
  and `participant` run `CLIComms` only and `frost-client` runs `HTTPComms`, so there is
  no behaviour to model.
* **DKG by hand** (`dkg/comms/cli.rs`): each program prompts for one value per
  participant and hands them to frost_core, whose checks are the protocol.
* **YWallet plans** (`transaction_plan.rs`, `sign_ywallet.rs`): the plan still parses and
  is then refused ("Ywallet signing is disabled"); its signing is compiled out.
* **`zcash-sign generate`**: one derivation of keys and addresses by librustzcash.
* **Choosing a session** (`-S`) and **auxiliary messages** of a signing: `Signing` has one
  session, and the auxiliary message is passed through unread.
* **TLS, argument parsing, serialisation, the cryptography of FROST and Noise**: I/O or
  external.

Next: theorems that no run states, in this order. That what `Cipher` decrypts comes from
one process and in order, for any queue of messages (`Signing` has at most two per
channel); that a key generation in which nobody is inconsistent ends, if at all, for one of
the causes of section 4; a relation of the session store to a simpler abstract
specification, in which the expiry of a session is one step.

## 8. Running it

```
tlc -workers 2 -config MCDKG_three.cfg MCDKG      # module and cfg of each run: PROJECT.json
for m in *Proofs.tla; do tlapm $m; done
```

The longest run, `config`, takes about three minutes, `server`, `dkg_three`, `commands` and
`zcash` take one or more; the others take less than half a minute.
