---------------------------- MODULE ConfigStore -----------------------------
(***************************************************************************)
(* The configuration files under commands that run at the same time, stop  *)
(* half way and take long: a command reads the file (Config::read),        *)
(* changes what it read and replaces the file (Config::write,              *)
(* write_atomic.rs), and there is no lock.                                 *)
(*                                                                         *)
(* `frost-client dkg' reads the file before the key generation, which goes *)
(* over the network and takes as long as the slowest participant, and      *)
(* again after it.  The trusted dealer reads all files, then reads and     *)
(* replaces one after the other.                                           *)
(*                                                                         *)
(* A window is the time from the last read of a file to its replacement.   *)
(* Windows on one file overlap as they happen to: what one command stores  *)
(* while another is in its window, the other overwrites (a lost update).   *)
(***************************************************************************)
EXTENDS ConfigFile

CONSTANTS
    Paths,        \* the configuration files, one per user
    Processes,    \* slots for commands running at the same time
    Idle,         \* a free slot
    Partial       \* a file that was not written to its end

ASSUME PartialAssumption == Partial \notin Config
ASSUME KindsAssumption == Groups \cap PublicKeys = {}

\* From the last read of a file to its replacement.
Window == {"loaded", "writing", "written"}

\* A command under way: a key generation, its result, a dealer's first pass and
\* the time before each file of its second, and a window, with the configuration
\* in memory and (history) the file as it was read.
Busy ==
    [pc : {"dkg"}, path : Paths, config : Config]
    \cup [pc : {"result"}, path : Paths, config : Config, cmd : Command]
    \cup [pc : {"deal"}, keys : Maps(Paths, PublicKeys)]
    \cup [pc : {"next"}, cmd : Command, todo : SUBSET Paths]
    \cup [pc : Window, path : Paths, cmd : Command, todo : SUBSET Paths, config : Config,
        seen : Config]

ASSUME IdleAssumption ==
    Idle \notin Busy \cup [path : Paths, cmd : Command, seen : Config]

VARIABLES
    files,      \* the content of each file
    proc,       \* the command in each slot, and how far it is
    temp,       \* its temporary file
    \* History:
    generated,  \* the keys generated by `init'
    produced,   \* <<path, group>>: the key shares that were produced
    gone,       \* those of them that were removed, or whose command was
                \* stopped before they were stored
    lost        \* <<path, group>>, <<path, key>>: what was stored in a window
                \* of another command, which overwrote it

vars == <<files, proc, temp, generated, produced, gone, lost>>
history == <<generated, produced, gone, lost>>

Started(i) == proc[i] # Idle
InWindow(i) == Started(i) /\ proc[i].pc \in Window

TypeOK ==
    /\ files \in [Paths -> Config]
    /\ proc \in [Processes -> Busy \cup {Idle}]
    /\ temp \in [Processes -> Config \cup {Partial}]
    /\ generated \subseteq PublicKeys
    /\ produced \subseteq Paths \X Groups /\ gone \subseteq produced
    /\ lost \subseteq Paths \X (Groups \cup PublicKeys)

Init ==
    /\ files = [path \in Paths |-> Default]
    /\ proc = [i \in Processes |-> Idle]
    /\ temp = [i \in Processes |-> Partial]
    /\ generated = {}
    /\ produced = {}
    /\ gone = {}
    /\ lost = {}

Become(i, p) == proc' = [proc EXCEPT ![i] = p]

-----------------------------------------------------------------------------
(* Config::read.                                                           *)

\* Process i has read the file at path to change it by cmd; the files in todo
\* come after it.
Load(i, path, cmd, todo) ==
    Become(i, [pc   |-> "loaded", path |-> path, cmd |-> cmd, todo |-> todo,
               config |-> files[path], seen |-> files[path]])

\* The key is the one in the file, or was before it was lost.
OwnKey(path, key) ==
    key = files[path].communication_key \/ <<path, key>> \in lost

\* The keys of the contacts that `export' has put out, or can.
Exported == {key \in PublicKeys : \E path \in Paths : OwnKey(path, key)}

\* init, import, remove-contact and remove-group.  The key of an `init' is a new
\* one, whether it is going to be generated or not.
Start(i, path, cmd) ==
    /\ ~Started(i)
    /\ cmd.type = "init" => cmd.key \notin generated
    /\ cmd.type = "import" => cmd.key \in Exported
    /\ Load(i, path, cmd, {})
    /\ generated' =
          IF cmd.type = "init" /\ files[path].communication_key = NoKey
          THEN generated \cup {cmd.key} ELSE generated
    /\ UNCHANGED <<files, temp, produced, gone, lost>>

\* The command refuses to change what it read.
Refuse(i) ==
    /\ Started(i) /\ proc[i].pc = "loaded"
    /\ Outcomes(proc[i].cmd, proc[i].config) = {}
    /\ Become(i, Idle)
    /\ UNCHANGED <<files, temp, history>>

-----------------------------------------------------------------------------
(* Config::write.                                                          *)

\* Mutant: the file itself is written, and not a temporary one.
CreateInPlace(i) ==
    /\ Started(i) /\ proc[i].pc = "loaded"
    /\ \E config \in Outcomes(proc[i].cmd, proc[i].config) :
          Become(i, [proc[i] EXCEPT !.pc = "writing", !.config = config])
    /\ files' = [files EXCEPT ![proc[i].path] = Partial]
    /\ UNCHANGED <<temp, history>>

\* The change, and a temporary file beside the file to be replaced.
CreateTemp(i) ==
    /\ Started(i) /\ proc[i].pc = "loaded"
    /\ \E config \in Outcomes(proc[i].cmd, proc[i].config) :
          Become(i, [proc[i] EXCEPT !.pc = "writing", !.config = config])
    /\ temp' = [temp EXCEPT ![i] = Partial]
    /\ UNCHANGED <<files, history>>

\* Mutant: the temporary file has a name of its own for each file, not for each
\* process.
WriteAllShared(i) ==
    /\ Started(i) /\ proc[i].pc = "writing"
    /\ temp' = [j \in Processes |->
                   IF InWindow(j) /\ proc[j].path = proc[i].path
                   THEN proc[i].config ELSE temp[j]]
    /\ Become(i, [proc[i] EXCEPT !.pc = "written"])
    /\ UNCHANGED <<files, history>>

WriteAll(i) ==
    /\ Started(i) /\ proc[i].pc = "writing"
    /\ temp' = [temp EXCEPT ![i] = proc[i].config]
    /\ Become(i, [proc[i] EXCEPT !.pc = "written"])
    /\ UNCHANGED <<files, history>>

\* The groups and the key in a configuration, by which key shares and private
\* keys are found.
Items(config) ==
    DOMAIN config.group \cup ({config.communication_key} \ {NoKey})

\* The file is replaced by config, by a command that knows it as seen: what is in
\* the file, and neither in what was read nor in what is written, is lost.
Overwritten(path, seen, config) ==
    {path} \X (Items(files[path]) \ (Items(seen) \cup Items(config)))

\* persist: the temporary file takes the place of the file.
Persist(i) ==
    LET p == proc[i] IN
    /\ Started(i) /\ p.pc = "written"
    /\ files' = [files EXCEPT ![p.path] = temp[i]]
    /\ temp' = [temp EXCEPT ![i] = Partial]
    /\ Become(i, IF p.todo = {} THEN Idle
                 ELSE [pc |-> "next", cmd |-> p.cmd, todo |-> p.todo])
    /\ gone' = IF p.cmd.type = "remove_group"
               THEN gone \cup {<<p.path, p.cmd.group>>} ELSE gone
    /\ lost' = lost \cup Overwritten(p.path, p.seen, temp[i])
    /\ UNCHANGED <<generated, produced>>

\* The key shares process i has and has not stored.
Pending(i) ==
    LET p == proc[i] IN
    IF ~Started(i) THEN {}
    ELSE IF p.pc \in {"dkg", "deal"} THEN {}
    ELSE IF p.cmd.type = "dkg" THEN {<<p.path, p.cmd.group>>}
    ELSE IF p.cmd.type = "trusted_dealer"
    THEN (p.todo \cup (IF InWindow(i) THEN {p.path} ELSE {})) \X {p.cmd.group}
    ELSE {}

\* The process is killed, or an operation on a file fails.
Stop(i) ==
    /\ Started(i)
    /\ Become(i, Idle)
    /\ temp' = [temp EXCEPT ![i] = Partial]
    /\ gone' = gone \cup Pending(i)
    /\ UNCHANGED <<files, generated, produced, lost>>

-----------------------------------------------------------------------------
(* dkg.                                                                    *)

StartDkg(i, path) ==
    /\ ~Started(i)
    /\ files[path].communication_key # NoKey
    /\ Become(i, [pc |-> "dkg", path |-> path, config |-> files[path]])
    /\ UNCHANGED <<files, temp, history>>

\* The key generation (module DKG) succeeds, with participants who are all in
\* the address book that was read before it.
DkgResult(i, group, participants) ==
    LET p == proc[i] IN
    /\ Started(i) /\ p.pc = "dkg"
    /\ p.config.communication_key \in participants
    /\ participants # {p.config.communication_key}
    /\ \A key \in participants : ContactByPubkey(p.config, key)
    /\ <<p.path, group>> \notin produced
    /\ Become(i, [pc   |-> "result", path |-> p.path, config |-> p.config,
                  cmd  |-> [type |-> "dkg", group |-> group,
                            participants |-> participants]])
    /\ produced' = produced \cup {<<p.path, group>>}
    /\ UNCHANGED <<files, temp, generated, gone, lost>>

\* Mutant: the configuration read before the key generation is changed.
KeepOldConfig(i) ==
    /\ Started(i) /\ proc[i].pc = "result"
    /\ Become(i, [pc   |-> "loaded", path |-> proc[i].path, cmd |-> proc[i].cmd,
                  todo |-> {}, config |-> proc[i].config,
                  seen |-> files[proc[i].path]])
    /\ UNCHANGED <<files, temp, history>>

\* The configuration is read again.
ReadAgain(i) ==
    /\ Started(i) /\ proc[i].pc = "result"
    /\ Load(i, proc[i].path, proc[i].cmd, {})
    /\ UNCHANGED <<files, temp, history>>

-----------------------------------------------------------------------------
(* trusted_dealer.                                                         *)

\* The first pass reads every file; the order of the files is the user's.
StartDealer(i) ==
    /\ ~Started(i)
    /\ Become(i, [pc |-> "deal", keys |-> [path \in {} |-> NoKey]])
    /\ UNCHANGED <<files, temp, history>>

\* One file of the first pass; one without a key ends the command.
DealerReads(i, path) ==
    LET key == files[path].communication_key IN
    /\ Started(i) /\ proc[i].pc = "deal"
    /\ path \notin DOMAIN proc[i].keys
    /\ Become(i, IF key = NoKey THEN Idle
                 ELSE [proc[i] EXCEPT !.keys = Put(@, path, key)])
    /\ UNCHANGED <<files, temp, history>>

\* The contacts the dealer makes of the users: names are arguments of the
\* command, and of two users with the same name one remains.
DealtContacts(keys) ==
    {contacts \in Maps(Names, Range(keys)) :
        \E names \in [DOMAIN keys -> Names] :
            /\ DOMAIN contacts = Range(names)
            /\ \A n \in Range(names) :
                  \E f \in DOMAIN keys : names[f] = n /\ keys[f] = contacts[n]}

\* The end of the first pass: the participants and the contacts are known.
DealerDeals(i, group) ==
    /\ Started(i) /\ proc[i].pc = "deal"
    /\ DOMAIN proc[i].keys = Paths
    /\ \A path \in Paths : <<path, group>> \notin produced
    /\ \E contacts \in DealtContacts(proc[i].keys) :
          Become(i, [pc   |-> "next", todo |-> Paths,
                     cmd  |-> [type         |-> "trusted_dealer",
                               group        |-> group,
                               participants |-> Range(proc[i].keys),
                               contacts     |-> contacts]])
    /\ produced' = produced \cup (Paths \X {group})
    /\ UNCHANGED <<files, temp, generated, gone, lost>>

\* The next file of the second pass.
DealerNext(i, path) ==
    LET p == proc[i] IN
    /\ Started(i) /\ p.pc = "next"
    /\ path \in p.todo
    /\ Load(i, path, p.cmd, p.todo \ {path})
    /\ UNCHANGED <<files, temp, history>>

-----------------------------------------------------------------------------

Next ==
    \/ \E i \in Processes :
          \/ \E path \in Paths, cmd \in UserCommand : Start(i, path, cmd)
          \/ \E path \in Paths :
                \/ StartDkg(i, path)
                \/ DealerReads(i, path)
                \/ DealerNext(i, path)
          \/ \E group \in Groups : DealerDeals(i, group)
          \/ \E group \in Groups, participants \in SUBSET PublicKeys :
                DkgResult(i, group, participants)
          \/ Refuse(i) \/ CreateTemp(i) \/ WriteAll(i) \/ Persist(i) \/ Stop(i)
          \/ ReadAgain(i) \/ StartDealer(i)

Spec == Init /\ [][Next]_vars

-----------------------------------------------------------------------------
(* Properties.                                                             *)

\* What the commands promise, once they have read the file they change.
Snapshot == INSTANCE ConfigSnapshot WITH running <-
    [i \in Processes |->
        IF InWindow(i) THEN [path |-> proc[i].path, cmd |-> proc[i].cmd,
                             seen |-> proc[i].seen]
        ELSE Idle]

\* A command that takes effect does so in one step, and makes of the file what it
\* should have made of it when it last read it (config.rs:171-200), although
\* other commands write the same file meanwhile, key generations and dealers run
\* beside it, and any of them may be killed between two steps.
ImplementsSnapshot == Snapshot!Spec

\* A key share that was produced is in the file, or its command is going to
\* store it, or it was removed, or its command was stopped on the way (dkg.rs:144
\* stores it last); otherwise it was stored inside the window of another
\* command, which overwrote it: nothing else loses a share.  A key generation
\* that ends has such a window too (dkg.rs:139-144), but not one that is as
\* long as the key generation.
OnlyOverlapsLoseShares ==
    \A s \in produced \ (gone \cup lost) :
        \/ s[2] \in DOMAIN files[s[1]].group
        \/ \E i \in Processes : s \in Pending(i)

\* The user is a participant of every group in the file, under the key in the
\* file or one that was there before an overlapping command took it away:
\* `init' never replaces a key that it has read, not even while a DKG or a
\* dealer works with it.
GroupsIncludeOwner ==
    \A path \in Paths : \A g \in DOMAIN files[path].group :
        \E key \in files[path].group[g] : OwnKey(path, key)

=============================================================================
