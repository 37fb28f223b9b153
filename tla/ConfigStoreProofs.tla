------------------------- MODULE ConfigStoreProofs --------------------------
(***************************************************************************)
(* Proofs about module ConfigStore: whatever the commands do to each       *)
(* other, a file holds a whole configuration, a command makes of the file  *)
(* what it should have made of what it read, key shares are lost to        *)
(* overlapping windows only, and a user is a participant of every group in *)
(* the file.                                                               *)
(*                                                                         *)
(* The argument: what a command is about to write is an outcome of its     *)
(* change on what it read, and what it is yet to store was produced        *)
(* (HeldOK).  An outcome removes no group but the one to be removed, and   *)
(* never replaces a key.  So whatever is in the file when it is replaced   *)
(* and is missing afterwards was not in what the command read: it was      *)
(* stored inside the command's window, and is lost.  A key that a DKG, a   *)
(* dealer or a group in a file was ever given is therefore still the key   *)
(* in the file, or lost (OwnedOK, OwnerOK): no command makes it disappear  *)
(* otherwise.                                                              *)
(***************************************************************************)
EXTENDS ConfigStore, TLAPS

\* The commands under way, by how far they are: the parts of Busy.
Generating == [pc : {"dkg"}, path : Paths, config : Config]
Generated ==
    [pc : {"result"}, path : Paths, config : Config, cmd : Command]
FirstPass == [pc : {"deal"}, keys : Maps(Paths, PublicKeys)]
SecondPass == [pc : {"next"}, cmd : Command, todo : SUBSET Paths]
Windows == [pc : Window, path : Paths, cmd : Command, todo : SUBSET Paths,
            config : Config, seen : Config]

\* The key shares of a configuration.
Shares(path, config) == {path} \X DOMAIN config.group

\* The key shares that a command at p has and has not stored: Pending.
Owed(p) ==
    IF p = Idle \/ p.pc \in {"dkg", "deal"} THEN {}
    ELSE IF p.cmd.type = "dkg" THEN {<<p.path, p.cmd.group>>}
    ELSE IF p.cmd.type = "trusted_dealer"
    THEN (p.todo \cup (IF p.pc \in Window THEN {p.path} ELSE {})) \X {p.cmd.group}
    ELSE {}

\* The groups that a command at p handles are among the shares produced, what it
\* is about to put in place, the file t, is complete, and is an outcome of its
\* change on what it read.
Held(p, t, shares) ==
    p # Idle =>
        /\ p.pc = "result" => p.cmd.type = "dkg"
        /\ p.pc = "next" => p.cmd.type = "trusted_dealer"
        /\ p.pc \in Window =>
              /\ p.cmd.type # "trusted_dealer" => p.todo = {}
              /\ Shares(p.path, p.config) \subseteq shares
        /\ p.pc \in {"writing", "written"} /\ p.cmd.type = "remove_group" =>
              <<p.path, p.cmd.group>> \in shares
        /\ p.pc = "loaded" => p.config = p.seen
        /\ p.pc \in {"writing", "written"} =>
              p.config \in Outcomes(p.cmd, p.seen)
        /\ p.pc = "written" => t = p.config
        /\ Owed(p) \subseteq shares

\* The key is the one in the file, or was before it was lost: OwnKey.
Own(path, key, configs, past) ==
    /\ key \in PublicKeys
    /\ key = configs[path].communication_key \/ <<path, key>> \in past

\* The user is one of the participants, and one in every group of config.
Participates(path, participants, configs, past) ==
    \E key \in participants : Own(path, key, configs, past)

Owned(path, config, configs, past) ==
    \A g \in DOMAIN config.group :
        Participates(path, config.group[g], configs, past)

\* The keys that a DKG or a dealer works with, and one of every group in what is
\* about to be written, are keys of the users' own.
Owner(p, configs, past) ==
    p # Idle =>
        /\ p.pc = "dkg" =>
              Own(p.path, p.config.communication_key, configs, past)
        /\ p.pc \in Window \cup {"result"} /\ p.cmd.type = "dkg" =>
              Participates(p.path, p.cmd.participants, configs, past)
        /\ p.pc = "deal" =>
              \A path \in DOMAIN p.keys : Own(path, p.keys[path], configs, past)
        /\ p.pc \in Window \cup {"next"} /\ p.cmd.type = "trusted_dealer" =>
              \A path \in Paths :
                  Participates(path, p.cmd.participants, configs, past)
        /\ p.pc \in Window => Owned(p.path, p.config, configs, past)

HeldOK == \A i \in Processes : Held(proc[i], temp[i], produced)
OwnerOK == \A i \in Processes : Owner(proc[i], files, lost)

\* The groups in the files were produced, and produced for their owners.
StoredOK == \A path \in Paths : Shares(path, files[path]) \subseteq produced
OwnedOK == \A path \in Paths : Owned(path, files[path], files, lost)

\* The files and the commands that are to change them.
StoreInv == TypeOK /\ StoredOK /\ HeldOK

\* What the users keep.
UserInv == OnlyOverlapsLoseShares /\ OwnedOK /\ OwnerOK

-----------------------------------------------------------------------------
(* What the operators of ConfigFile give.                                  *)

\* A map with keys in K and values in V: contacts and groups of the file.
LEMMA MapsAre ==
    ASSUME NEW K, NEW V, NEW f
    PROVE  f \in Maps(K, V) <=> DOMAIN f \subseteq K /\ f \in [DOMAIN f -> V]
<1>1. ASSUME f \in Maps(K, V)
      PROVE  DOMAIN f \subseteq K /\ f \in [DOMAIN f -> V]
  <2>1. PICK S \in SUBSET K : f \in [S -> V]
    BY <1>1 DEF Maps
  <2>. QED
    BY <2>1
<1>2. ASSUME DOMAIN f \subseteq K, f \in [DOMAIN f -> V]
      PROVE  f \in Maps(K, V)
  BY <1>2 DEF Maps
<1>. QED
  BY <1>1, <1>2

\* Map m is map f with k at v, and map f without k.
With(m, f, k, v) ==
    /\ DOMAIN m = DOMAIN f \cup {k}
    /\ m[k] = v
    /\ \A x \in DOMAIN f \ {k} : m[x] = f[x]

Without(m, f, k) ==
    /\ DOMAIN m = DOMAIN f \ {k}
    /\ \A x \in DOMAIN f \ {k} : m[x] = f[x]

\* What is put into a map, as `import' does.
LEMMA PutIsMap ==
    ASSUME NEW K, NEW V, NEW f \in Maps(K, V), NEW k \in K, NEW v \in V
    PROVE  Put(f, k, v) \in Maps(K, V) /\ With(Put(f, k, v), f, k, v)
<1>1. DOMAIN f \subseteq K /\ f \in [DOMAIN f -> V]
  BY MapsAre
<1>2. DOMAIN Put(f, k, v) = DOMAIN f \cup {k}
  BY DEF Put
<1>3. \A x \in DOMAIN f \cup {k} :
          Put(f, k, v)[x] = IF x = k THEN v ELSE f[x]
  BY DEF Put
<1>4. Put(f, k, v) \in [DOMAIN f \cup {k} -> V]
  BY <1>1 DEF Put
<1>. QED
  BY <1>1, <1>2, <1>3, <1>4, MapsAre DEF With

\* What is taken out of a map, as `remove-contact' and `remove-group' do.
LEMMA DropIsMap ==
    ASSUME NEW K, NEW V, NEW f \in Maps(K, V), NEW k
    PROVE  Drop(f, k) \in Maps(K, V) /\ Without(Drop(f, k), f, k)
<1>1. DOMAIN f \subseteq K /\ f \in [DOMAIN f -> V]
  BY MapsAre
<1>2. Drop(f, k) = [x \in DOMAIN f \ {k} |-> f[x]]
  BY DEF Drop, Restrict
<1>3. Drop(f, k) \in [DOMAIN f \ {k} -> V]
  BY <1>1, <1>2
<1>. QED
  BY <1>1, <1>2, <1>3, MapsAre DEF Without

\* The kinds of command, by their type.
LEMMA CommandsAre ==
    ASSUME NEW cmd \in Command
    PROVE  /\ cmd.type \in {"init", "import", "remove_contact", "remove_group",
                            "dkg", "trusted_dealer"}
           /\ cmd.type \in {"init", "import", "remove_contact"} =>
                 cmd.key \in PublicKeys
           /\ cmd.type = "import" => cmd.name \in Names
           /\ cmd.type \in {"remove_group", "dkg", "trusted_dealer"} =>
                 cmd.group \in Groups
           /\ cmd.type \in {"dkg", "trusted_dealer"} =>
                 cmd.participants \in SUBSET PublicKeys
           /\ cmd.type = "trusted_dealer" =>
                 cmd.contacts \in Maps(Names, PublicKeys)
BY DEF Command, UserCommand

\* The fields of a configuration.
LEMMA ConfigsAre ==
    ASSUME NEW c \in Config
    PROVE  /\ c.communication_key \in PublicKeys \cup {NoKey}
           /\ c.contact \in Maps(Names, PublicKeys)
           /\ c.group \in Maps(Groups, SUBSET PublicKeys)
           /\ DOMAIN c.group \subseteq Groups
           /\ \A g \in DOMAIN c.group : c.group[g] \in SUBSET PublicKeys
<1>1. c.group \in Maps(Groups, SUBSET PublicKeys)
  BY DEF Config
<1>2. /\ DOMAIN c.group \subseteq Groups
      /\ c.group \in [DOMAIN c.group -> SUBSET PublicKeys]
  BY <1>1, MapsAre
<1>. QED
  BY <1>1, <1>2 DEF Config

\* Replacing the groups, or the contacts, of a configuration.
LEMMA ConfigsChange ==
    ASSUME NEW c \in Config
    PROVE  /\ \A key \in PublicKeys :
                 LET d == [c EXCEPT !.communication_key = key]
                 IN  d \in Config /\ d.group = c.group
           /\ \A g \in Maps(Groups, SUBSET PublicKeys) :
                 LET d == [c EXCEPT !.group = g]
                 IN  /\ d \in Config /\ d.group = g
                     /\ d.communication_key = c.communication_key
           /\ \A m \in Maps(Names, PublicKeys) :
                 LET d == [c EXCEPT !.contact = m]
                 IN  /\ d \in Config /\ d.group = c.group
                     /\ d.communication_key = c.communication_key
           /\ \A g \in Maps(Groups, SUBSET PublicKeys),
                 m \in Maps(Names, PublicKeys) :
                 LET d == [c EXCEPT !.group = g, !.contact = m]
                 IN  /\ d \in Config /\ d.group = g
                     /\ d.communication_key = c.communication_key
<1>. DEFINE GroupMaps == Maps(Groups, SUBSET PublicKeys)
<1>. DEFINE ContactMaps == Maps(Names, PublicKeys)
<1>1. Config = [communication_key : PublicKeys \cup {NoKey},
                contact : ContactMaps, group : GroupMaps]
  BY DEF Config
<1>. HIDE DEF GroupMaps, ContactMaps
<1>2. \A key \in PublicKeys :
          LET d == [c EXCEPT !.communication_key = key]
          IN  d \in Config /\ d.group = c.group
  BY <1>1
<1>3. \A g \in GroupMaps :
          LET d == [c EXCEPT !.group = g]
          IN  /\ d \in Config /\ d.group = g
              /\ d.communication_key = c.communication_key
  BY <1>1
<1>4. \A m \in ContactMaps :
          LET d == [c EXCEPT !.contact = m]
          IN  /\ d \in Config /\ d.group = c.group
              /\ d.communication_key = c.communication_key
  BY <1>1
<1>5. \A g \in GroupMaps, m \in ContactMaps :
          LET d == [c EXCEPT !.group = g, !.contact = m]
          IN  /\ d \in Config /\ d.group = g
              /\ d.communication_key = c.communication_key
  BY <1>1
<1>. QED
  BY <1>2, <1>3, <1>4, <1>5 DEF GroupMaps, ContactMaps

\* What the map of the dealer's contacts over the user's gives.
LEMMA OverwrittenIsMap ==
    ASSUME NEW K, NEW V, NEW f \in Maps(K, V), NEW e \in Maps(K, V)
    PROVE  [n \in DOMAIN f \cup DOMAIN e |->
                IF n \in DOMAIN e THEN e[n] ELSE f[n]] \in Maps(K, V)
<1>. DEFINE S == DOMAIN f \cup DOMAIN e
            m == [n \in S |-> IF n \in DOMAIN e THEN e[n] ELSE f[n]]
<1>1. /\ DOMAIN f \subseteq K /\ f \in [DOMAIN f -> V]
      /\ DOMAIN e \subseteq K /\ e \in [DOMAIN e -> V]
  BY MapsAre
<1>2. m \in [S -> V]
  BY <1>1
<1>3. S \subseteq K
  BY <1>1
<1>4. DOMAIN m = S
  OBVIOUS
<1>. HIDE DEF m, S
<1>5. m \in Maps(K, V)
  BY <1>2, <1>3, <1>4, MapsAre
<1>. QED
  BY <1>5 DEF m, S

-----------------------------------------------------------------------------
(* What a command makes of a configuration.                                *)

\* A change of a command that refuses or not: the result is a configuration;
\* a key is never replaced and is left alone by all but `init'; the groups stay
\* but for the one that is removed, stored or stored again.
Changed(cmd, c, d) ==
    /\ d \in Config
    /\ d.communication_key # c.communication_key =>
          cmd.type = "init" /\ c.communication_key = NoKey
    /\ cmd.type \in {"init", "import", "remove_contact"} => d.group = c.group
    /\ cmd.type = "remove_group" =>
          /\ cmd.group \in DOMAIN c.group
          /\ Without(d.group, c.group, cmd.group)
    /\ cmd.type \in {"dkg", "trusted_dealer"} =>
          With(d.group, c.group, cmd.group, cmd.participants)

\* What every command makes of a configuration is a change of that kind.
LEMMA OutcomesAreChanges ==
    ASSUME NEW cmd \in Command, NEW c \in Config, NEW d \in Outcomes(cmd, c)
    PROVE  Changed(cmd, c, d)
<1>1. CASE cmd.type = "init"
  <2>1. d \in InitUser(c, cmd.key)
    BY <1>1 DEF Outcomes
  <2>2. CASE c.communication_key # NoKey
    BY <2>1, <2>2, <1>1 DEF InitUser, Changed
  <2>3. CASE c.communication_key = NoKey
    <3>1. d = [c EXCEPT !.communication_key = cmd.key]
      BY <2>1, <2>3 DEF InitUser
    <3>2. cmd.key \in PublicKeys
      BY <1>1, CommandsAre
    <3>3. d \in Config /\ d.group = c.group
      BY <3>1, <3>2, ConfigsChange
    <3>. QED
      BY <3>3, <2>3, <1>1 DEF Changed
  <2>. QED
    BY <2>2, <2>3
<1>2. CASE cmd.type = "import"
  <2>1. d \in Import(c, cmd.name, cmd.key)
    BY <1>2 DEF Outcomes
  <2>2. d = [c EXCEPT !.contact = Put(@, cmd.name, cmd.key)]
    BY <2>1 DEF Import
  <2>3. Put(c.contact, cmd.name, cmd.key) \in Maps(Names, PublicKeys)
    <3>1. /\ c.contact \in Maps(Names, PublicKeys)
          /\ cmd.name \in Names /\ cmd.key \in PublicKeys
      BY <1>2, ConfigsAre, CommandsAre
    <3>. QED
      BY <3>1, PutIsMap
  <2>. QED
    BY <2>2, <2>3, <1>2, ConfigsChange DEF Changed
<1>3. CASE cmd.type = "remove_contact"
  <2>1. d \in RemoveContact(c, cmd.key)
    BY <1>3 DEF Outcomes
  <2>2. PICK name : d = [c EXCEPT !.contact = Drop(@, name)]
    BY <2>1 DEF RemoveContact
  <2>3. Drop(c.contact, name) \in Maps(Names, PublicKeys)
    BY ConfigsAre, DropIsMap
  <2>. QED
    BY <2>2, <2>3, <1>3, ConfigsChange DEF Changed
<1>4. CASE cmd.type = "remove_group"
  <2>1. d \in RemoveGroup(c, cmd.group)
    BY <1>4 DEF Outcomes
  <2>2. /\ cmd.group \in DOMAIN c.group
        /\ d = [c EXCEPT !.group = Drop(@, cmd.group)]
    BY <2>1 DEF RemoveGroup
  <2>. DEFINE g == Drop(c.group, cmd.group)
  <2>3. g \in Maps(Groups, SUBSET PublicKeys) /\ Without(g, c.group, cmd.group)
    BY ConfigsAre, DropIsMap
  <2>. HIDE DEF g
  <2>4. d = [c EXCEPT !.group = g]
    BY <2>2 DEF g
  <2>5. /\ d \in Config /\ d.group = g
        /\ d.communication_key = c.communication_key
    BY <2>3, <2>4, ConfigsChange
  <2>. QED
    BY <2>2, <2>3, <2>5, <1>4 DEF Changed
<1>5. CASE cmd.type \in {"dkg", "trusted_dealer"}
  <2>. DEFINE g == Put(c.group, cmd.group, cmd.participants)
  <2>1. /\ g \in Maps(Groups, SUBSET PublicKeys)
        /\ With(g, c.group, cmd.group, cmd.participants)
    BY <1>5, ConfigsAre, CommandsAre, PutIsMap
  <2>2. /\ d \in Config /\ d.group = g
        /\ d.communication_key = c.communication_key
    <3>1. CASE cmd.type = "dkg"
      <4>1. d = [c EXCEPT !.group = g]
        BY <3>1 DEF Outcomes, Dkg
      <4>. HIDE DEF g
      <4>. QED
        BY <4>1, <2>1, ConfigsChange
    <3>2. CASE cmd.type = "trusted_dealer"
      <4>. DEFINE m == [n \in DOMAIN c.contact \cup DOMAIN cmd.contacts |->
                           IF n \in DOMAIN cmd.contacts THEN cmd.contacts[n]
                           ELSE c.contact[n]]
      <4>1. m \in Maps(Names, PublicKeys)
        BY <3>2, ConfigsAre, CommandsAre, OverwrittenIsMap
      <4>2. d \in TrustedDealer(c, cmd.group, cmd.participants, cmd.contacts)
        BY <3>2 DEF Outcomes
      <4>3. d = [c EXCEPT !.group = g, !.contact = m]
        BY <4>2 DEF TrustedDealer
      <4>. HIDE DEF g, m
      <4>4. g \in Maps(Groups, SUBSET PublicKeys)
        BY <2>1
      <4>5. LET e == [c EXCEPT !.group = g, !.contact = m]
            IN  /\ e \in Config /\ e.group = g
                /\ e.communication_key = c.communication_key
        <5>1. \A g1 \in Maps(Groups, SUBSET PublicKeys),
                 m1 \in Maps(Names, PublicKeys) :
                  LET e == [c EXCEPT !.group = g1, !.contact = m1]
                  IN  /\ e \in Config /\ e.group = g1
                      /\ e.communication_key = c.communication_key
          BY ConfigsChange
        <5>. QED
          BY <5>1, <4>1, <4>4
      <4>. QED
        BY <4>3, <4>5
    <3>. QED
      BY <1>5, <3>1, <3>2
  <2>. HIDE DEF g
  <2>. QED
    BY <2>1, <2>2, <1>5 DEF Changed
<1>. QED
  BY <1>1, <1>2, <1>3, <1>4, <1>5, CommandsAre

\* Only a user's command refuses: what a DKG or the dealer has produced is
\* always stored.
LEMMA ProducersDoNotRefuse ==
    ASSUME NEW cmd, NEW c, cmd.type \in {"dkg", "trusted_dealer"}
    PROVE  Outcomes(cmd, c) # {}
BY DEF Outcomes, Dkg, TrustedDealer

-----------------------------------------------------------------------------
(* The state: the kinds of command under way, and what they have to store. *)

\* How far a command is says what it has.
LEMMA KindsOfBusy ==
    ASSUME NEW p \in Busy
    PROVE  /\ p.pc \in {"dkg", "result", "deal", "next"} \cup Window
           /\ p.pc = "dkg" => p \in Generating
           /\ p.pc = "result" => p \in Generated
           /\ p.pc = "deal" => p \in FirstPass
           /\ p.pc = "next" => p \in SecondPass
           /\ p.pc \in Window => p \in Windows
<1>1. p \in Generating \cup Generated \cup FirstPass \cup SecondPass \cup Windows
  BY DEF Busy, Generating, Generated, FirstPass, SecondPass, Windows
<1>. QED
  BY <1>1 DEF Generating, Generated, FirstPass, SecondPass, Windows, Window

\* And the other way round.
LEMMA BusyOfKinds ==
    /\ Generating \subseteq Busy
    /\ Generated \subseteq Busy
    /\ FirstPass \subseteq Busy
    /\ SecondPass \subseteq Busy
    /\ Windows \subseteq Busy
    /\ Idle \notin Busy
BY IdleAssumption
   DEF Busy, Generating, Generated, FirstPass, SecondPass, Windows

\* Pending is what the proof says of it.
LEMMA PendingIsOwed ==
    ASSUME NEW i
    PROVE  Pending(i) = Owed(proc[i]) /\ Pending(i)' = Owed(proc'[i])
BY DEF Pending, Owed, Started, InWindow

\* A change in slot i that keeps StoreInv: what is to be shown of an action.
LEMMA StoreKept ==
    ASSUME StoreInv,
           NEW i \in Processes, NEW q \in Busy \cup {Idle},
           NEW t \in Config \cup {Partial},
           Become(i, q), temp' = [temp EXCEPT ![i] = t],
           files' \in [Paths -> Config], StoredOK', Held(q, t, produced'),
           generated' \subseteq PublicKeys,
           produced \subseteq produced', produced' \subseteq Paths \X Groups,
           gone' \subseteq produced',
           lost' \subseteq Paths \X (Groups \cup PublicKeys)
    PROVE  StoreInv'
<1>1. /\ proc \in [Processes -> Busy \cup {Idle}]
      /\ temp \in [Processes -> Config \cup {Partial}]
  BY DEF StoreInv, TypeOK
<1>2. /\ proc' \in [Processes -> Busy \cup {Idle}]
      /\ \A j \in Processes : proc'[j] = IF j = i THEN q ELSE proc[j]
  BY <1>1 DEF Become
<1>3. /\ temp' \in [Processes -> Config \cup {Partial}]
      /\ \A j \in Processes : temp'[j] = IF j = i THEN t ELSE temp[j]
  BY <1>1
<1>4. TypeOK'
  BY <1>2, <1>3 DEF TypeOK
<1>5. HeldOK'
  <2>1. SUFFICES ASSUME NEW j \in Processes
                 PROVE  Held(proc'[j], temp'[j], produced')
    BY DEF HeldOK
  <2>2. CASE j = i
    BY <1>2, <1>3, <2>2
  <2>3. CASE j # i
    <3>1. Held(proc[j], temp[j], produced)
      BY DEF StoreInv, HeldOK
    <3>2. proc'[j] = proc[j] /\ temp'[j] = temp[j]
      BY <1>2, <1>3, <2>3
    <3>3. Held(proc[j], temp[j], produced')
      BY <3>1 DEF Held
    <3>. QED
      BY <3>2, <3>3
  <2>. QED
    BY <2>2, <2>3
<1>. QED
  BY <1>4, <1>5 DEF StoreInv

\* The same for an action that leaves the files and what was produced alone.
LEMMA StoreKeptHere ==
    ASSUME StoreInv,
           NEW i \in Processes, NEW q \in Busy \cup {Idle},
           NEW t \in Config \cup {Partial},
           Become(i, q), temp' = [temp EXCEPT ![i] = t], Held(q, t, produced),
           UNCHANGED <<files, produced, lost>>,
           generated' \subseteq PublicKeys, gone' \subseteq produced
    PROVE  StoreInv'
<1>1. /\ files \in [Paths -> Config] /\ produced \subseteq Paths \X Groups
      /\ StoredOK /\ lost \subseteq Paths \X (Groups \cup PublicKeys)
  BY DEF StoreInv, TypeOK
<1>2. StoredOK'
  BY <1>1 DEF StoredOK
<1>. QED
  BY <1>1, <1>2, StoreKept

\* A temporary file that is left alone.
LEMMA TempStays ==
    ASSUME TypeOK, NEW i \in Processes, UNCHANGED temp
    PROVE  /\ temp[i] \in Config \cup {Partial}
           /\ temp' = [temp EXCEPT ![i] = temp[i]]
BY DEF TypeOK

\* A free slot has nothing to store.
LEMMA IdleHolds ==
    ASSUME NEW t, NEW shares
    PROVE  Held(Idle, t, shares) /\ Owed(Idle) = {}
BY DEF Held, Owed

-----------------------------------------------------------------------------
(* Every action keeps StoreInv.                                            *)

\* A process that has read a file.
Loaded(path, cmd, todo, config) ==
    [pc |-> "loaded", path |-> path, cmd |-> cmd, todo |-> todo,
     config |-> config, seen |-> config]

\* Reading a file, of whatever command.
LEMMA LoadKeepsStore ==
    ASSUME StoreInv, NEW i \in Processes, NEW path \in Paths,
           NEW cmd \in Command, NEW todo \in SUBSET Paths,
           Load(i, path, cmd, todo),
           cmd.type # "trusted_dealer" => todo = {},
           Owed(Loaded(path, cmd, todo, files[path])) \subseteq produced,
           UNCHANGED <<files, temp, produced, gone, lost>>,
           generated' \subseteq PublicKeys
    PROVE  StoreInv'
<1>1. TypeOK /\ StoredOK
  BY DEF StoreInv
<1>2. PICK q : q = Loaded(path, cmd, todo, files[path])
  OBVIOUS
<1>3. /\ q.pc = "loaded" /\ q.path = path /\ q.cmd = cmd /\ q.todo = todo
      /\ q.config = files[path] /\ q.seen = files[path]
  BY <1>2 DEF Loaded
<1>4. files[path] \in Config
  BY <1>1 DEF TypeOK
<1>5. q \in Busy
  <2>1. q \in Windows
    BY <1>2, <1>4 DEF Loaded, Windows, Window
  <2>. QED
    BY <2>1, BusyOfKinds
<1>6. Held(q, temp[i], produced)
  BY <1>1, <1>2, <1>3 DEF Held, StoredOK, Window
<1>7. Become(i, q)
  BY <1>2 DEF Load, Loaded
<1>8. gone' \subseteq produced
  BY <1>1 DEF TypeOK
<1>. QED
  BY <1>1, <1>5, <1>6, <1>7, <1>8, TempStays, StoreKeptHere

\* init, import, remove-contact, remove-group: they store no key share.
LEMMA StartKeepsStore ==
    ASSUME StoreInv, NEW i \in Processes, NEW path \in Paths,
           NEW cmd \in UserCommand, Start(i, path, cmd)
    PROVE  StoreInv'
<1>1. /\ cmd \in Command
      /\ cmd.type \notin {"dkg", "trusted_dealer"}
      /\ cmd.type = "init" => cmd.key \in PublicKeys
  BY DEF UserCommand, Command
<1>2. Owed(Loaded(path, cmd, {}, files[path])) = {}
  BY <1>1 DEF Owed, Loaded
<1>3. generated' \subseteq PublicKeys
  BY <1>1 DEF Start, StoreInv, TypeOK
<1>4. /\ Load(i, path, cmd, {})
      /\ UNCHANGED <<files, temp, produced, gone, lost>>
  BY DEF Start
<1>. QED
  BY <1>1, <1>2, <1>3, <1>4, LoadKeepsStore

\* A slot that becomes free, with nothing stored and nothing lost.
LEMMA FreeKeepsStore ==
    ASSUME StoreInv, NEW i \in Processes, Become(i, Idle),
           UNCHANGED <<files, temp, history>>
    PROVE  StoreInv'
<1>1. TypeOK
  BY DEF StoreInv
<1>2. /\ UNCHANGED <<files, produced, temp, lost>>
      /\ generated' \subseteq PublicKeys /\ gone' \subseteq produced
  BY <1>1 DEF TypeOK, history
<1>3. Held(Idle, temp[i], produced)
  BY IdleHolds
<1>. QED
  BY <1>1, <1>2, <1>3, TempStays, StoreKeptHere

\* What there is to know of a process in a window.
LEMMA InWindowKnows ==
    ASSUME TypeOK, NEW i \in Processes, Started(i), proc[i].pc \in Window
    PROVE  /\ proc[i] \in Windows
           /\ proc[i].path \in Paths /\ proc[i].cmd \in Command
           /\ proc[i].todo \in SUBSET Paths /\ proc[i].config \in Config
           /\ proc[i].seen \in Config
<1>1. proc[i] \in Busy
  BY DEF TypeOK, Started
<1>2. proc[i] \in Windows
  BY <1>1, KindsOfBusy
<1>. QED
  BY <1>2 DEF Windows

\* What is written is the change of what was read: the groups in it were all
\* produced, that of a DKG or the dealer by the command itself.
LEMMA CreateTempKeepsStore ==
    ASSUME StoreInv, NEW i \in Processes, CreateTemp(i)
    PROVE  StoreInv'
<1>. DEFINE p == proc[i]
<1>1. TypeOK /\ HeldOK
  BY DEF StoreInv
<1>2. Started(i) /\ p.pc = "loaded" /\ p # Idle /\ p.pc \in Window
  BY DEF CreateTemp, Started, Window
<1>3. /\ p \in Windows /\ p.path \in Paths /\ p.cmd \in Command
      /\ p.todo \in SUBSET Paths /\ p.config \in Config
      /\ p.seen \in Config
  BY <1>1, <1>2, InWindowKnows
<1>4. PICK d \in Outcomes(p.cmd, p.config) :
          Become(i, [p EXCEPT !.pc = "writing", !.config = d])
  BY DEF CreateTemp
<1>5. Changed(p.cmd, p.config, d)
  BY <1>3, OutcomesAreChanges
<1>6. PICK q : q = [p EXCEPT !.pc = "writing", !.config = d]
  OBVIOUS
<1>7. /\ q \in Windows
      /\ q.pc = "writing" /\ q.path = p.path /\ q.cmd = p.cmd
      /\ q.todo = p.todo /\ q.config = d /\ q.seen = p.seen
  BY <1>3, <1>5, <1>6 DEF Windows, Window, Changed
<1>8. Held(p, temp[i], produced)
  BY <1>1 DEF HeldOK
<1>9. Owed(q) = Owed(p)
  BY <1>2, <1>7, BusyOfKinds DEF Owed, Window
<1>10. Held(q, temp'[i], produced)
  <2>1. Shares(p.path, p.config) \subseteq produced
    BY <1>2, <1>8 DEF Held
  <2>2. Owed(p) \subseteq produced
    BY <1>2, <1>8 DEF Held
  <2>3. p.cmd.type = "remove_group" => <<p.path, p.cmd.group>> \in produced
    BY <1>5, <2>1 DEF Changed, Shares
  <2>4. p.cmd.type \in {"dkg", "trusted_dealer"} =>
            <<p.path, p.cmd.group>> \in produced
    BY <1>2, <2>2 DEF Owed
  <2>5. Shares(p.path, d) \subseteq produced
    BY <1>3, <1>5, <2>1, <2>4, CommandsAre DEF Changed, With, Without, Shares
  <2>6. d \in Outcomes(q.cmd, q.seen)
    BY <1>2, <1>4, <1>7, <1>8 DEF Held
  <2>. QED
    BY <1>2, <1>7, <1>8, <1>9, <2>2, <2>3, <2>5, <2>6 DEF Held
<1>11. /\ Become(i, q) /\ temp' = [temp EXCEPT ![i] = Partial]
       /\ UNCHANGED <<files, produced, lost>>
       /\ generated' \subseteq PublicKeys /\ gone' \subseteq produced
       /\ temp'[i] = Partial
  BY <1>1, <1>4, <1>6 DEF CreateTemp, history, TypeOK
<1>. QED
  BY <1>7, <1>10, <1>11, BusyOfKinds, StoreKeptHere

\* The temporary file is complete.
LEMMA WriteAllKeepsStore ==
    ASSUME StoreInv, NEW i \in Processes, WriteAll(i)
    PROVE  StoreInv'
<1>. DEFINE p == proc[i]
<1>1. TypeOK /\ HeldOK
  BY DEF StoreInv
<1>2. Started(i) /\ p.pc = "writing" /\ p # Idle /\ p.pc \in Window
  BY DEF WriteAll, Started, Window
<1>3. p \in Windows /\ p.config \in Config
  BY <1>1, <1>2, InWindowKnows
<1>4. PICK q : q = [p EXCEPT !.pc = "written"]
  OBVIOUS
<1>5. /\ q \in Windows
      /\ q.pc = "written" /\ q.path = p.path /\ q.cmd = p.cmd
      /\ q.todo = p.todo /\ q.config = p.config /\ q.seen = p.seen
  BY <1>3, <1>4 DEF Windows, Window
<1>6. Held(p, temp[i], produced)
  BY <1>1 DEF HeldOK
<1>7. Owed(q) = Owed(p)
  BY <1>2, <1>5, BusyOfKinds DEF Owed, Window
<1>8. Held(q, p.config, produced)
  BY <1>2, <1>5, <1>6, <1>7 DEF Held
<1>9. /\ Become(i, q) /\ temp' = [temp EXCEPT ![i] = p.config]
      /\ UNCHANGED <<files, produced, lost>>
      /\ generated' \subseteq PublicKeys /\ gone' \subseteq produced
  BY <1>1, <1>4 DEF WriteAll, history, TypeOK
<1>. QED
  BY <1>3, <1>5, <1>8, <1>9, BusyOfKinds, StoreKeptHere

\* The file is replaced by what was written; the dealer goes on to the next.
LEMMA PersistKeepsStore ==
    ASSUME StoreInv, NEW i \in Processes, Persist(i)
    PROVE  StoreInv'
<1>. DEFINE p == proc[i]
            q == IF p.todo = {} THEN Idle
                 ELSE [pc |-> "next", cmd |-> p.cmd, todo |-> p.todo]
<1>1. TypeOK /\ HeldOK /\ StoredOK
  BY DEF StoreInv
<1>2. Started(i) /\ p.pc = "written" /\ p # Idle /\ p.pc \in Window
  BY DEF Persist, Started, Window
<1>3. /\ p \in Windows /\ p.path \in Paths /\ p.cmd \in Command
      /\ p.todo \in SUBSET Paths /\ p.config \in Config
  BY <1>1, <1>2, InWindowKnows
<1>4. Held(p, temp[i], produced)
  BY <1>1 DEF HeldOK
<1>5. /\ temp[i] = p.config
      /\ Shares(p.path, p.config) \subseteq produced
      /\ Owed(p) \subseteq produced
      /\ p.cmd.type # "trusted_dealer" => p.todo = {}
      /\ p.cmd.type = "remove_group" => <<p.path, p.cmd.group>> \in produced
  BY <1>2, <1>4 DEF Held
<1>6. /\ Become(i, q) /\ temp' = [temp EXCEPT ![i] = Partial]
      /\ files' = [files EXCEPT ![p.path] = p.config]
      /\ generated' = generated /\ produced' = produced
      /\ gone' = IF p.cmd.type = "remove_group"
                 THEN gone \cup {<<p.path, p.cmd.group>>} ELSE gone
  BY <1>5 DEF Persist
<1>7. q \in Busy \cup {Idle}
  <2>1. [pc |-> "next", cmd |-> p.cmd, todo |-> p.todo] \in SecondPass
    BY <1>3 DEF SecondPass
  <2>. QED
    BY <2>1, BusyOfKinds
<1>8. Held(q, Partial, produced)
  <2>1. CASE p.todo = {}
    BY <2>1, IdleHolds
  <2>2. CASE p.todo # {}
    <3>1. PICK r : r = [pc |-> "next", cmd |-> p.cmd, todo |-> p.todo]
      OBVIOUS
    <3>2. /\ r.pc = "next" /\ r.cmd = p.cmd /\ r.todo = p.todo
          /\ p.cmd.type = "trusted_dealer"
      BY <1>5, <2>2, <3>1
    <3>3. Owed(r) \subseteq Owed(p)
      BY <1>2, <3>2 DEF Owed, Window
    <3>4. Held(r, Partial, produced)
      BY <1>5, <3>2, <3>3 DEF Held, Window
    <3>. QED
      BY <2>2, <3>1, <3>4
  <2>. QED
    BY <2>1, <2>2
<1>9. /\ files' \in [Paths -> Config]
      /\ \A path \in Paths :
            files'[path] = IF path = p.path THEN p.config ELSE files[path]
  BY <1>1, <1>3, <1>6 DEF TypeOK
<1>10. StoredOK'
  BY <1>1, <1>5, <1>6, <1>9 DEF StoredOK
<1>11. /\ generated' \subseteq PublicKeys
       /\ produced \subseteq produced' /\ produced' \subseteq Paths \X Groups
       /\ gone' \subseteq produced'
  BY <1>1, <1>5, <1>6 DEF TypeOK
<1>12. Held(q, Partial, produced')
  BY <1>6, <1>8
<1>13. lost' \subseteq Paths \X (Groups \cup PublicKeys)
  <2>1. Overwritten(p.path, p.seen, temp[i]) \subseteq
            Paths \X (Groups \cup PublicKeys)
    <3>1. files[p.path] \in Config
      BY <1>1, <1>3 DEF TypeOK
    <3>2. Items(files[p.path]) \subseteq Groups \cup PublicKeys
      BY <3>1, ConfigsAre DEF Items
    <3>. QED
      BY <1>3, <3>2 DEF Overwritten
  <2>. QED
    BY <1>1, <2>1 DEF Persist, TypeOK
<1>. HIDE DEF q
<1>. QED
  BY <1>6, <1>7, <1>9, <1>10, <1>11, <1>12, <1>13, StoreKept

\* A command that is stopped.
LEMMA StopKeepsStore ==
    ASSUME StoreInv, NEW i \in Processes, Stop(i)
    PROVE  StoreInv'
<1>1. TypeOK /\ HeldOK
  BY DEF StoreInv
<1>2. Owed(proc[i]) \subseteq produced
  BY <1>1, IdleHolds DEF HeldOK, Held
<1>3. gone' \subseteq produced
  BY <1>1, <1>2, PendingIsOwed DEF Stop, TypeOK
<1>4. /\ UNCHANGED <<files, produced, lost>> /\ generated' \subseteq PublicKeys
      /\ Become(i, Idle) /\ temp' = [temp EXCEPT ![i] = Partial]
  BY <1>1 DEF Stop, TypeOK
<1>. QED
  BY <1>3, <1>4, IdleHolds, StoreKeptHere

\* dkg reads the file.
LEMMA StartDkgKeepsStore ==
    ASSUME StoreInv, NEW i \in Processes, NEW path \in Paths, StartDkg(i, path)
    PROVE  StoreInv'
<1>1. TypeOK
  BY DEF StoreInv
<1>2. PICK q : q = [pc |-> "dkg", path |-> path, config |-> files[path]]
  OBVIOUS
<1>3. q \in Generating /\ q.pc = "dkg"
  BY <1>1, <1>2 DEF Generating, TypeOK
<1>4. Held(q, temp[i], produced)
  BY <1>3, BusyOfKinds DEF Held, Owed, Window
<1>5. /\ Become(i, q) /\ UNCHANGED <<files, produced, temp, lost>>
      /\ generated' \subseteq PublicKeys /\ gone' \subseteq produced
  BY <1>1, <1>2 DEF StartDkg, history, TypeOK
<1>. QED
  BY <1>1, <1>3, <1>4, <1>5, BusyOfKinds, TempStays, StoreKeptHere

\* A change in slot i, the files left alone, that produces more.
LEMMA StoreGrows ==
    ASSUME StoreInv, NEW i \in Processes, NEW q \in Busy, NEW more,
           Become(i, q), UNCHANGED <<files, temp, generated, gone, lost>>,
           more \subseteq Paths \X Groups, produced' = produced \cup more,
           Held(q, temp[i], produced')
    PROVE  StoreInv'
<1>1. TypeOK /\ StoredOK
  BY DEF StoreInv
<1>2. /\ files' \in [Paths -> Config] /\ generated' \subseteq PublicKeys
      /\ produced \subseteq produced' /\ produced' \subseteq Paths \X Groups
      /\ gone' \subseteq produced'
      /\ lost' \subseteq Paths \X (Groups \cup PublicKeys)
  BY <1>1 DEF TypeOK
<1>3. StoredOK'
  BY <1>1, <1>2 DEF StoredOK
<1>. QED
  BY <1>1, <1>2, <1>3, TempStays, StoreKept

\* The key generation produces a share, which it is then to store.
LEMMA DkgResultKeepsStore ==
    ASSUME StoreInv, NEW i \in Processes, NEW group \in Groups,
           NEW participants \in SUBSET PublicKeys,
           DkgResult(i, group, participants)
    PROVE  StoreInv'
<1>. DEFINE p == proc[i]
            cmd == [type |-> "dkg", group |-> group,
                    participants |-> participants]
<1>1. TypeOK
  BY DEF StoreInv
<1>2. p \in Generating
  <2>1. p \in Busy /\ p.pc = "dkg"
    BY <1>1 DEF DkgResult, Started, TypeOK
  <2>. QED
    BY <2>1, KindsOfBusy
<1>3. cmd \in Command /\ cmd.type = "dkg" /\ cmd.group = group
  BY DEF Command
<1>4. PICK q : q = [pc |-> "result", path |-> p.path, config |-> p.config,
                    cmd |-> cmd]
  OBVIOUS
<1>5. /\ Become(i, q) /\ UNCHANGED <<files, temp, generated, gone, lost>>
      /\ produced' = produced \cup {<<p.path, group>>}
  BY <1>4 DEF DkgResult
<1>. HIDE DEF cmd
<1>6. q \in Generated /\ q.pc = "result" /\ q.path = p.path /\ q.cmd = cmd
  BY <1>2, <1>3, <1>4 DEF Generating, Generated
<1>7. Held(q, temp[i], produced')
  BY <1>3, <1>5, <1>6, BusyOfKinds DEF Held, Owed, Window
<1>8. {<<p.path, group>>} \subseteq Paths \X Groups
  BY <1>2 DEF Generating
<1>. QED
  BY <1>5, <1>6, <1>7, <1>8, BusyOfKinds, StoreGrows

\* The file is read again after the key generation.
LEMMA ReadAgainKeepsStore ==
    ASSUME StoreInv, NEW i \in Processes, ReadAgain(i)
    PROVE  StoreInv'
<1>. DEFINE p == proc[i]
<1>1. TypeOK /\ HeldOK
  BY DEF StoreInv
<1>2. p # Idle /\ p \in Busy /\ p.pc = "result"
  BY <1>1 DEF ReadAgain, Started, TypeOK
<1>3. p \in Generated
  BY <1>2, KindsOfBusy
<1>4. p.cmd.type = "dkg" /\ Owed(p) \subseteq produced
  BY <1>1, <1>2 DEF HeldOK, Held
<1>5. Owed(Loaded(p.path, p.cmd, {}, files[p.path])) \subseteq Owed(p)
  BY <1>2, <1>4 DEF Owed, Loaded, Window
<1>6. /\ Load(i, p.path, p.cmd, {})
      /\ UNCHANGED <<files, temp, produced, gone, lost>>
      /\ generated' \subseteq PublicKeys
  BY <1>1 DEF ReadAgain, history, TypeOK
<1>. QED
  BY <1>3, <1>4, <1>5, <1>6, LoadKeepsStore DEF Generated

\* The dealer begins, and has no key yet.
LEMMA StartDealerKeepsStore ==
    ASSUME StoreInv, NEW i \in Processes, StartDealer(i)
    PROVE  StoreInv'
<1>1. TypeOK
  BY DEF StoreInv
<1>2. PICK m : m = [path \in {} |-> NoKey]
  OBVIOUS
<1>3. m \in Maps(Paths, PublicKeys)
  BY <1>2, MapsAre
<1>4. PICK q : q = [pc |-> "deal", keys |-> m]
  OBVIOUS
<1>5. q \in FirstPass /\ q.pc = "deal"
  BY <1>3, <1>4 DEF FirstPass
<1>6. Held(q, temp[i], produced)
  BY <1>5, BusyOfKinds DEF Held, Owed, Window
<1>7. /\ Become(i, q) /\ UNCHANGED <<files, produced, temp, lost>>
      /\ generated' \subseteq PublicKeys /\ gone' \subseteq produced
  BY <1>1, <1>2, <1>4 DEF StartDealer, history, TypeOK
<1>. QED
  BY <1>1, <1>5, <1>6, <1>7, BusyOfKinds, TempStays, StoreKeptHere

\* What a dealer in its first pass is and becomes.
LEMMA DealerKnows ==
    ASSUME TypeOK, NEW i \in Processes, Started(i), proc[i].pc = "deal"
    PROVE  /\ proc[i] \in FirstPass /\ proc[i] \in Busy
           /\ proc[i].keys \in Maps(Paths, PublicKeys)
<1>1. proc[i] \in Busy
  BY DEF TypeOK, Started
<1>2. proc[i] \in FirstPass
  BY <1>1, KindsOfBusy
<1>. QED
  BY <1>1, <1>2 DEF FirstPass

\* The dealer reads the key of one more file, or gives up.
LEMMA DealerReadsKeepsStore ==
    ASSUME StoreInv, NEW i \in Processes, NEW path \in Paths,
           DealerReads(i, path)
    PROVE  StoreInv'
<1>. DEFINE p == proc[i]
            key == files[path].communication_key
<1>1. TypeOK
  BY DEF StoreInv
<1>2. UNCHANGED <<files, temp, history>>
  BY DEF DealerReads
<1>3. CASE key = NoKey
  BY <1>2, <1>3, FreeKeepsStore DEF DealerReads
<1>4. CASE key # NoKey
  <2>1. p \in FirstPass /\ p.keys \in Maps(Paths, PublicKeys)
    BY <1>1, DealerKnows DEF DealerReads
  <2>2. key \in PublicKeys
    <3>1. files[path] \in Config
      BY <1>1 DEF TypeOK
    <3>. QED
      BY <3>1, <1>4, ConfigsAre
  <2>3. PICK m : m = Put(p.keys, path, key)
    OBVIOUS
  <2>4. m \in Maps(Paths, PublicKeys)
    BY <2>1, <2>2, <2>3, PutIsMap
  <2>5. PICK q : q = [p EXCEPT !.keys = m]
    OBVIOUS
  <2>6. q \in FirstPass /\ q.pc = "deal"
    BY <2>1, <2>4, <2>5 DEF FirstPass
  <2>7. Held(q, temp[i], produced)
    BY <2>6, BusyOfKinds DEF Held, Owed, Window
  <2>8. /\ Become(i, q) /\ UNCHANGED <<files, produced, temp, lost>>
        /\ generated' \subseteq PublicKeys /\ gone' \subseteq produced
    BY <1>1, <1>4, <2>3, <2>5 DEF DealerReads, history, TypeOK
  <2>. QED
    BY <1>1, <2>6, <2>7, <2>8, BusyOfKinds, TempStays, StoreKeptHere
<1>. QED
  BY <1>3, <1>4

\* The keys the dealer has read, and the contacts it makes.
LEMMA DealtIsCommand ==
    ASSUME NEW keys \in Maps(Paths, PublicKeys), NEW group \in Groups,
           NEW contacts \in DealtContacts(keys)
    PROVE  [type |-> "trusted_dealer", group |-> group,
            participants |-> Range(keys), contacts |-> contacts] \in Command
<1>1. Range(keys) \subseteq PublicKeys
  BY MapsAre DEF Range
<1>2. contacts \in Maps(Names, Range(keys))
  BY DEF DealtContacts
<1>3. contacts \in Maps(Names, PublicKeys)
  <2>1. PICK S \in SUBSET Names : contacts \in [S -> Range(keys)]
    BY <1>2 DEF Maps
  <2>2. contacts \in [S -> PublicKeys]
    BY <1>1, <2>1
  <2>. QED
    BY <2>1, <2>2 DEF Maps
<1>. QED
  BY <1>1, <1>3 DEF Command

\* The dealer produces the shares of a group, one for every file.
LEMMA DealerDealsKeepsStore ==
    ASSUME StoreInv, NEW i \in Processes, NEW group \in Groups,
           DealerDeals(i, group)
    PROVE  StoreInv'
<1>. DEFINE p == proc[i]
<1>1. TypeOK
  BY DEF StoreInv
<1>2. p.keys \in Maps(Paths, PublicKeys)
  BY <1>1, DealerKnows DEF DealerDeals
<1>3. PICK contacts \in DealtContacts(p.keys) :
          Become(i, [pc   |-> "next", todo |-> Paths,
                     cmd  |-> [type |-> "trusted_dealer", group |-> group,
                               participants |-> Range(p.keys),
                               contacts |-> contacts]])
  BY DEF DealerDeals
<1>4. PICK cmd : cmd = [type |-> "trusted_dealer", group |-> group,
                        participants |-> Range(p.keys),
                        contacts |-> contacts]
  OBVIOUS
<1>5. cmd \in Command
  BY <1>2, <1>4, DealtIsCommand
<1>6. cmd.type = "trusted_dealer" /\ cmd.group = group
  BY <1>4
<1>7. PICK q : q = [pc |-> "next", todo |-> Paths, cmd |-> cmd]
  OBVIOUS
<1>8. q \in SecondPass /\ q.pc = "next" /\ q.cmd = cmd /\ q.todo = Paths
  BY <1>5, <1>7 DEF SecondPass
<1>9. /\ Become(i, q) /\ UNCHANGED <<files, temp, generated, gone, lost>>
      /\ produced' = produced \cup (Paths \X {group})
  BY <1>3, <1>4, <1>7 DEF DealerDeals
<1>10. Held(q, temp[i], produced')
  BY <1>6, <1>8, <1>9, BusyOfKinds DEF Held, Owed, Window
<1>11. Paths \X {group} \subseteq Paths \X Groups
  OBVIOUS
<1>. QED
  BY <1>8, <1>9, <1>10, <1>11, BusyOfKinds, StoreGrows

\* The dealer reads the next file it is to change.
LEMMA DealerNextKeepsStore ==
    ASSUME StoreInv, NEW i \in Processes, NEW path \in Paths,
           DealerNext(i, path)
    PROVE  StoreInv'
<1>. DEFINE p == proc[i]
            todo == p.todo \ {path}
<1>1. TypeOK /\ HeldOK
  BY DEF StoreInv
<1>2. p # Idle /\ p \in Busy /\ p.pc = "next" /\ path \in p.todo
  BY <1>1 DEF DealerNext, Started, TypeOK
<1>3. p.cmd \in Command /\ p.todo \in SUBSET Paths
  BY <1>2, KindsOfBusy DEF SecondPass
<1>4. p.cmd.type = "trusted_dealer" /\ Owed(p) \subseteq produced
  BY <1>1, <1>2 DEF HeldOK, Held
<1>5. Owed(Loaded(path, p.cmd, todo, files[path])) \subseteq Owed(p)
  BY <1>2, <1>4 DEF Owed, Loaded, Window
<1>6. /\ Load(i, path, p.cmd, todo)
      /\ UNCHANGED <<files, temp, produced, gone, lost>>
      /\ generated' \subseteq PublicKeys
  BY <1>1 DEF DealerNext, history, TypeOK
<1>. HIDE DEF todo
<1>7. todo \in SUBSET Paths
  BY <1>3 DEF todo
<1>. QED
  BY <1>3, <1>4, <1>5, <1>6, <1>7, LoadKeepsStore

\* All of it: StoreInv is inductive.
LEMMA StoreInvStep ==
    StoreInv /\ [Next]_vars => StoreInv'
<1>. SUFFICES ASSUME StoreInv, [Next]_vars
              PROVE  StoreInv'
  OBVIOUS
<1>1. CASE UNCHANGED vars
  BY <1>1 DEF vars, StoreInv, TypeOK, StoredOK, HeldOK
<1>2. ASSUME NEW i \in Processes, NEW path \in Paths, NEW cmd \in UserCommand,
             Start(i, path, cmd)
      PROVE  StoreInv'
  BY <1>2, StartKeepsStore
<1>3. ASSUME NEW i \in Processes, NEW path \in Paths,
             \/ StartDkg(i, path)
             \/ DealerReads(i, path)
             \/ DealerNext(i, path)
      PROVE  StoreInv'
  BY <1>3, StartDkgKeepsStore, DealerReadsKeepsStore, DealerNextKeepsStore
<1>4. ASSUME NEW i \in Processes, NEW group \in Groups, DealerDeals(i, group)
      PROVE  StoreInv'
  BY <1>4, DealerDealsKeepsStore
<1>5. ASSUME NEW i \in Processes, NEW group \in Groups,
             NEW participants \in SUBSET PublicKeys,
             DkgResult(i, group, participants)
      PROVE  StoreInv'
  BY <1>5, DkgResultKeepsStore
<1>6. ASSUME NEW i \in Processes, Refuse(i)
      PROVE  StoreInv'
  BY <1>6, FreeKeepsStore DEF Refuse
<1>7. ASSUME NEW i \in Processes, CreateTemp(i) \/ WriteAll(i) \/ Persist(i)
      PROVE  StoreInv'
  BY <1>7, CreateTempKeepsStore, WriteAllKeepsStore, PersistKeepsStore
<1>8. ASSUME NEW i \in Processes, Stop(i) \/ ReadAgain(i) \/ StartDealer(i)
      PROVE  StoreInv'
  BY <1>8, StopKeepsStore, ReadAgainKeepsStore, StartDealerKeepsStore
<1>. QED
  BY <1>1, <1>2, <1>3, <1>4, <1>5, <1>6, <1>7, <1>8 DEF Next

\* The files start without keys and groups.
LEMMA StoreInvInit ==
    Init => StoreInv
<1>. SUFFICES ASSUME Init PROVE StoreInv
  OBVIOUS
<1>1. Default \in Config /\ DOMAIN Default.group = {}
  <2>1. PICK m : m = [n \in {} |-> n]
    OBVIOUS
  <2>2. m \in Maps(Names, PublicKeys) /\ m \in Maps(Groups, SUBSET PublicKeys)
    BY <2>1, MapsAre
  <2>3. Default = [communication_key |-> NoKey, contact |-> m, group |-> m]
    BY <2>1 DEF Default
  <2>4. DOMAIN m = {}
    BY <2>1
  <2>. QED
    BY <2>2, <2>3, <2>4 DEF Config
<1>2. TypeOK
  BY <1>1 DEF Init, TypeOK
<1>3. StoredOK
  BY <1>1 DEF Init, StoredOK, Shares
<1>4. HeldOK
  BY IdleHolds DEF Init, HeldOK
<1>. QED
  BY <1>2, <1>3, <1>4 DEF StoreInv

\* The content of every file is a configuration and never a file that was not
\* written to its end, whatever commands run beside each other and whenever they
\* are killed (Config::read, write_atomic::write_file).
THEOREM ConfigTypesAreCorrect == Spec => []TypeOK
<1>1. Init => StoreInv
  BY StoreInvInit
<1>2. StoreInv /\ [Next]_vars => StoreInv'
  BY StoreInvStep
<1>3. StoreInv => TypeOK
  BY DEF StoreInv
<1>. QED
  BY <1>1, <1>2, <1>3, PTL DEF Spec

-----------------------------------------------------------------------------
(* What the users keep: key shares, and their part in the groups.          *)

\* A free slot works with no key.
LEMMA IdleOwns ==
    ASSUME NEW configs, NEW past
    PROVE  Owner(Idle, configs, past)
BY DEF Owner

\* If the users' keys stay theirs, groups in a configuration stay theirs.
LEMMA OwnedStays ==
    ASSUME NEW path \in Paths, NEW config, NEW configs, NEW past,
           NEW changed, NEW later, Owned(path, config, configs, past),
           \A f \in Paths : \A key :
               Own(f, key, configs, past) => Own(f, key, changed, later)
    PROVE  Owned(path, config, changed, later)
BY DEF Owned, Participates

\* If the users' keys stay theirs, commands go on with keys of the users' own.
LEMMA OwnerStays ==
    ASSUME NEW p \in Busy, NEW configs, NEW past, NEW changed, NEW later,
           Owner(p, configs, past),
           \A f \in Paths : \A key :
               Own(f, key, configs, past) => Own(f, key, changed, later)
    PROVE  Owner(p, changed, later)
<1>1. p # Idle
  BY BusyOfKinds
<1>2. \A path \in Paths : \A keys :
          Participates(path, keys, configs, past) =>
              Participates(path, keys, changed, later)
  BY DEF Participates
<1>3. ASSUME p.pc = "dkg"
      PROVE  Own(p.path, p.config.communication_key, changed, later)
  <2>1. p.path \in Paths
    BY <1>3, KindsOfBusy DEF Generating
  <2>. QED
    BY <1>1, <1>3, <2>1 DEF Owner
<1>4. ASSUME p.pc \in Window \cup {"result"}, p.cmd.type = "dkg"
      PROVE  Participates(p.path, p.cmd.participants, changed, later)
  <2>1. p.path \in Paths
    BY <1>4, KindsOfBusy DEF Generated, Windows
  <2>. QED
    BY <1>1, <1>2, <1>4, <2>1 DEF Owner
<1>5. ASSUME p.pc = "deal"
      PROVE  \A path \in DOMAIN p.keys :
                 Own(path, p.keys[path], changed, later)
  <2>1. PICK keys \in Maps(Paths, PublicKeys) : keys = p.keys
    BY <1>5, KindsOfBusy DEF FirstPass
  <2>2. DOMAIN keys \subseteq Paths
    BY MapsAre
  <2>3. \A path \in DOMAIN keys : Own(path, keys[path], configs, past)
    BY <1>1, <1>5, <2>1 DEF Owner
  <2>. QED
    BY <2>1, <2>2, <2>3
<1>6. ASSUME p.pc \in Window \cup {"next"}, p.cmd.type = "trusted_dealer"
      PROVE  \A path \in Paths :
                 Participates(path, p.cmd.participants, changed, later)
  BY <1>1, <1>2, <1>6 DEF Owner
<1>7. ASSUME p.pc \in Window
      PROVE  Owned(p.path, p.config, changed, later)
  <2>1. p.path \in Paths
    BY <1>7, KindsOfBusy DEF Windows
  <2>2. Owned(p.path, p.config, configs, past)
    BY <1>1, <1>7 DEF Owner
  <2>. QED
    BY <2>1, <2>2, OwnedStays
<1>. QED
  BY <1>3, <1>4, <1>5, <1>6, <1>7 DEF Owner

\* A change in slot i that leaves the files alone and keeps UserInv: what is to
\* be shown of an action.
LEMMA UserKept ==
    ASSUME TypeOK, UserInv,
           NEW i \in Processes, NEW q \in Busy \cup {Idle},
           Become(i, q), UNCHANGED <<files, lost>>, Owner(q, files, lost),
           produced' \ gone' \subseteq (produced \ gone) \cup Owed(q),
           Owed(proc[i]) \ gone' \subseteq Owed(q)
    PROVE  UserInv'
<1>1. \A j \in Processes : proc'[j] = IF j = i THEN q ELSE proc[j]
  BY DEF TypeOK, Become
<1>2. OwnedOK' /\ OwnerOK'
  BY <1>1 DEF UserInv, OwnedOK, OwnerOK
<1>3. OnlyOverlapsLoseShares'
  <2>1. SUFFICES ASSUME NEW s \in produced' \ (gone' \cup lost')
                 PROVE  \/ s[2] \in DOMAIN files'[s[1]].group
                        \/ \E j \in Processes : s \in Owed(proc'[j])
    BY PendingIsOwed DEF OnlyOverlapsLoseShares
  <2>2. CASE s \in Owed(q)
    BY <1>1, <2>2
  <2>3. CASE s \in produced \ gone
    <3>1. \/ s[2] \in DOMAIN files[s[1]].group
          \/ \E j \in Processes : s \in Owed(proc[j])
      BY <2>1, <2>3, PendingIsOwed DEF UserInv, OnlyOverlapsLoseShares
    <3>2. ASSUME NEW j \in Processes, s \in Owed(proc[j])
          PROVE  \E k \in Processes : s \in Owed(proc'[k])
      BY <1>1, <2>1, <3>2
    <3>. QED
      BY <3>1, <3>2
  <2>. QED
    BY <2>1, <2>2, <2>3
<1>. QED
  BY <1>2, <1>3 DEF UserInv

\* Reading a file: what is in it is the user's.
LEMMA LoadKeepsUsers ==
    ASSUME TypeOK, UserInv, NEW i \in Processes, NEW path \in Paths,
           NEW cmd \in Command, NEW todo \in SUBSET Paths,
           Load(i, path, cmd, todo), UNCHANGED <<files, produced, gone, lost>>,
           cmd.type = "dkg" =>
               Participates(path, cmd.participants, files, lost),
           cmd.type = "trusted_dealer" =>
               \A f \in Paths : Participates(f, cmd.participants, files, lost),
           Owed(proc[i]) \subseteq Owed(Loaded(path, cmd, todo, files[path]))
    PROVE  UserInv'
<1>1. PICK q : q = Loaded(path, cmd, todo, files[path])
  OBVIOUS
<1>2. /\ q.pc = "loaded" /\ q.path = path /\ q.cmd = cmd
      /\ q.config = files[path]
  BY <1>1 DEF Loaded
<1>3. q \in Busy
  <2>1. files[path] \in Config
    BY DEF TypeOK
  <2>2. q \in Windows
    BY <1>1, <2>1 DEF Loaded, Windows, Window
  <2>. QED
    BY <2>2, BusyOfKinds
<1>4. Become(i, q)
  BY <1>1 DEF Load, Loaded
<1>5. Owned(path, files[path], files, lost)
  BY DEF UserInv, OwnedOK
<1>6. Owner(q, files, lost)
  BY <1>2, <1>5 DEF Owner, Window
<1>7. Owed(proc[i]) \subseteq Owed(q)
  BY <1>1
<1>. QED
  BY <1>3, <1>4, <1>6, <1>7, UserKept

\* init, import, remove-contact, remove-group.
LEMMA StartKeepsUsers ==
    ASSUME TypeOK, UserInv, NEW i \in Processes, NEW path \in Paths,
           NEW cmd \in UserCommand, Start(i, path, cmd)
    PROVE  UserInv'
<1>1. cmd \in Command /\ cmd.type \notin {"dkg", "trusted_dealer"}
  BY DEF UserCommand, Command
<1>2. Owed(proc[i]) = {}
  BY DEF Start, Started, Owed
<1>3. /\ Load(i, path, cmd, {})
      /\ UNCHANGED <<files, produced, gone, lost>>
  BY DEF Start
<1>. QED
  BY <1>1, <1>2, <1>3, LoadKeepsUsers

\* A slot that becomes free when there is nothing to store.
LEMMA FreeKeepsUsers ==
    ASSUME TypeOK, UserInv, NEW i \in Processes, Become(i, Idle),
           UNCHANGED <<files, produced, lost>>, gone \subseteq gone',
           Owed(proc[i]) \subseteq gone'
    PROVE  UserInv'
<1>1. Owed(Idle) = {}
  BY IdleHolds
<1>. QED
  BY <1>1, IdleOwns, UserKept

\* Only a command without a key share refuses.
LEMMA RefuseKeepsUsers ==
    ASSUME TypeOK, UserInv, NEW i \in Processes, Refuse(i)
    PROVE  UserInv'
<1>1. proc[i].cmd.type \notin {"dkg", "trusted_dealer"}
  BY ProducersDoNotRefuse DEF Refuse
<1>2. Owed(proc[i]) = {}
  BY <1>1 DEF Owed
<1>. QED
  BY <1>2, FreeKeepsUsers DEF Refuse, history

\* A command that is stopped loses its key shares: they count as gone.
LEMMA StopKeepsUsers ==
    ASSUME TypeOK, UserInv, NEW i \in Processes, Stop(i)
    PROVE  UserInv'
BY PendingIsOwed, FreeKeepsUsers DEF Stop

\* A command makes the user a participant of no group that it was not one of,
\* but the one it was produced for.
LEMMA ChangedIsOwned ==
    ASSUME NEW path \in Paths, NEW cmd \in Command, NEW c \in Config, NEW d,
           NEW configs, NEW past, Changed(cmd, c, d),
           Owned(path, c, configs, past),
           cmd.type \in {"dkg", "trusted_dealer"} =>
               Participates(path, cmd.participants, configs, past)
    PROVE  Owned(path, d, configs, past)
<1>1. SUFFICES ASSUME NEW g \in DOMAIN d.group
               PROVE  Participates(path, d.group[g], configs, past)
  BY DEF Owned
<1>2. g \in DOMAIN c.group => Participates(path, c.group[g], configs, past)
  BY DEF Owned
<1>3. CASE cmd.type \in {"init", "import", "remove_contact"}
  BY <1>2, <1>3 DEF Changed
<1>4. CASE cmd.type = "remove_group"
  BY <1>2, <1>4 DEF Changed, Without
<1>5. CASE cmd.type \in {"dkg", "trusted_dealer"}
  BY <1>2, <1>5 DEF Changed, With
<1>. QED
  BY <1>3, <1>4, <1>5, CommandsAre

\* The change of what was read.
LEMMA CreateTempKeepsUsers ==
    ASSUME StoreInv, UserInv, NEW i \in Processes, CreateTemp(i)
    PROVE  UserInv'
<1>. DEFINE p == proc[i]
<1>1. TypeOK
  BY DEF StoreInv
<1>2. Started(i) /\ p.pc = "loaded" /\ p # Idle /\ p.pc \in Window
  BY DEF CreateTemp, Started, Window
<1>3. p \in Windows /\ p.path \in Paths /\ p.cmd \in Command /\ p.config \in Config
  BY <1>1, <1>2, InWindowKnows
<1>4. PICK d \in Outcomes(p.cmd, p.config) :
          Become(i, [p EXCEPT !.pc = "writing", !.config = d])
  BY DEF CreateTemp
<1>5. Changed(p.cmd, p.config, d)
  BY <1>3, OutcomesAreChanges
<1>6. PICK q : q = [p EXCEPT !.pc = "writing", !.config = d]
  OBVIOUS
<1>7. /\ q \in Windows
      /\ q.pc = "writing" /\ q.path = p.path /\ q.cmd = p.cmd
      /\ q.todo = p.todo /\ q.config = d
  BY <1>3, <1>5, <1>6 DEF Windows, Window, Changed
<1>8. Owner(p, files, lost)
  BY DEF UserInv, OwnerOK
<1>9. Owned(p.path, d, files, lost)
  <2>1. /\ Owned(p.path, p.config, files, lost)
        /\ p.cmd.type \in {"dkg", "trusted_dealer"} =>
              Participates(p.path, p.cmd.participants, files, lost)
    BY <1>2, <1>3, <1>8 DEF Owner
  <2>. QED
    BY <1>3, <1>5, <2>1, ChangedIsOwned
<1>10. Owner(q, files, lost)
  BY <1>2, <1>7, <1>8, <1>9 DEF Owner, Window
<1>11. Owed(q) = Owed(p)
  BY <1>2, <1>7, BusyOfKinds DEF Owed, Window
<1>12. Become(i, q) /\ UNCHANGED <<files, produced, gone, lost>>
  BY <1>4, <1>6 DEF CreateTemp, history
<1>. QED
  BY <1>1, <1>7, <1>10, <1>11, <1>12, BusyOfKinds, UserKept

\* The temporary file is complete.
LEMMA WriteAllKeepsUsers ==
    ASSUME StoreInv, UserInv, NEW i \in Processes, WriteAll(i)
    PROVE  UserInv'
<1>. DEFINE p == proc[i]
<1>1. TypeOK
  BY DEF StoreInv
<1>2. Started(i) /\ p.pc = "writing" /\ p # Idle /\ p.pc \in Window
  BY DEF WriteAll, Started, Window
<1>3. p \in Windows
  BY <1>1, <1>2, InWindowKnows
<1>4. PICK q : q = [p EXCEPT !.pc = "written"]
  OBVIOUS
<1>5. /\ q \in Windows
      /\ q.pc = "written" /\ q.path = p.path /\ q.cmd = p.cmd
      /\ q.todo = p.todo /\ q.config = p.config
  BY <1>3, <1>4 DEF Windows, Window
<1>6. Owner(p, files, lost)
  BY DEF UserInv, OwnerOK
<1>7. Owner(q, files, lost)
  BY <1>2, <1>5, <1>6 DEF Owner, Window
<1>8. Owed(q) = Owed(p)
  BY <1>2, <1>5, BusyOfKinds DEF Owed, Window
<1>9. Become(i, q) /\ UNCHANGED <<files, produced, gone, lost>>
  BY <1>4 DEF WriteAll, history
<1>. QED
  BY <1>1, <1>5, <1>7, <1>8, <1>9, BusyOfKinds, UserKept

\* What is put in place of a file: a change of what was read of it.
LEMMA PersistReplaces ==
    ASSUME StoreInv, NEW i \in Processes, Persist(i)
    PROVE  /\ proc[i] \in Windows /\ proc[i] # Idle /\ proc[i].pc = "written"
           /\ proc[i].path \in Paths /\ proc[i].cmd \in Command
           /\ temp[i] = proc[i].config /\ proc[i].seen \in Config
           /\ temp[i] \in Outcomes(proc[i].cmd, proc[i].seen)
           /\ files[proc[i].path] \in Config
           /\ Changed(proc[i].cmd, proc[i].seen, temp[i])
           /\ files' = [files EXCEPT ![proc[i].path] = temp[i]]
           /\ \A f \in Paths :
                 files'[f] = IF f = proc[i].path THEN temp[i] ELSE files[f]
           /\ lost' = lost \cup Overwritten(proc[i].path, proc[i].seen, temp[i])
<1>. DEFINE p == proc[i]
<1>1. TypeOK /\ HeldOK
  BY DEF StoreInv
<1>2. Started(i) /\ p.pc = "written" /\ p # Idle /\ p.pc \in Window
  BY DEF Persist, Started, Window
<1>3. /\ p \in Windows /\ p.path \in Paths /\ p.cmd \in Command
      /\ p.seen \in Config
  BY <1>1, <1>2, InWindowKnows
<1>4. temp[i] = p.config /\ temp[i] \in Outcomes(p.cmd, p.seen)
  BY <1>1, <1>2 DEF HeldOK, Held
<1>5. files[p.path] \in Config
  BY <1>1, <1>3 DEF TypeOK
<1>6. Changed(p.cmd, p.seen, temp[i])
  BY <1>3, <1>4, OutcomesAreChanges
<1>7. /\ files' = [files EXCEPT ![p.path] = temp[i]]
      /\ \A f \in Paths :
            files'[f] = IF f = p.path THEN temp[i] ELSE files[f]
      /\ lost' = lost \cup Overwritten(p.path, p.seen, temp[i])
  BY <1>1 DEF Persist, TypeOK
<1>. QED
  BY <1>2, <1>3, <1>4, <1>5, <1>6, <1>7

\* Replacing a file keeps the shares that are in it or on their way to it, but
\* for what is lost.
LEMMA PersistKeepsShares ==
    ASSUME StoreInv, UserInv, NEW i \in Processes, Persist(i)
    PROVE  OnlyOverlapsLoseShares'
<1>. DEFINE p == proc[i]
<1>1. TypeOK /\ HeldOK
  BY DEF StoreInv
<1>2. PICK c, d, seen, cmd, path :
          /\ c = files[p.path] /\ d = temp[i] /\ seen = p.seen
          /\ cmd = p.cmd /\ path = p.path
  OBVIOUS
<1>3. /\ p \in Windows /\ p # Idle /\ p.pc = "written"
      /\ cmd \in Command /\ Changed(cmd, seen, d) /\ c \in Config
      /\ \A f \in Paths : files'[f] = IF f = path THEN d ELSE files[f]
      /\ lost' = lost \cup Overwritten(path, seen, d)
      /\ seen \in Config /\ d \in Config
  BY <1>2, PersistReplaces DEF Changed
<1>4. /\ produced' = produced
      /\ gone' = IF cmd.type = "remove_group"
                 THEN gone \cup {<<path, cmd.group>>} ELSE gone
  BY <1>2 DEF Persist
<1>5. /\ \A j \in Processes \ {i} : proc'[j] = proc[j]
      /\ p.todo # {} =>
            proc'[i] = [pc |-> "next", cmd |-> cmd, todo |-> p.todo]
  BY <1>1, <1>2 DEF Persist, Become, TypeOK
<1>6. SUFFICES ASSUME NEW s \in produced' \ (gone' \cup lost')
               PROVE  \/ s[2] \in DOMAIN files'[s[1]].group
                      \/ \E j \in Processes : s \in Owed(proc'[j])
  BY PendingIsOwed DEF OnlyOverlapsLoseShares
<1>7. PICK f \in Paths, g \in Groups : s = <<f, g>>
  BY <1>1, <1>4 DEF TypeOK
<1>8. /\ <<f, g>> \in produced \ (gone \cup lost)
      /\ cmd.type = "remove_group" => ~(f = path /\ g = cmd.group)
      /\ <<f, g>> \notin Overwritten(path, seen, d)
  BY <1>3, <1>4, <1>6, <1>7
<1>9. \/ g \in DOMAIN files[f].group
      \/ \E j \in Processes : <<f, g>> \in Owed(proc[j])
  <2>1. \/ s[2] \in DOMAIN files[s[1]].group
        \/ \E j \in Processes : s \in Owed(proc[j])
    BY <1>7, <1>8, PendingIsOwed DEF UserInv, OnlyOverlapsLoseShares
  <2>. QED
    BY <1>7, <2>1
<1>10. SUFFICES \/ g \in DOMAIN files'[f].group
                \/ \E j \in Processes : <<f, g>> \in Owed(proc'[j])
  BY <1>7
<1>11. CASE g \in DOMAIN files[f].group
  <2>1. CASE f # path
    BY <1>3, <1>11, <2>1
  <2>2. CASE f = path
    <3>1. g \in Items(c)
      BY <1>2, <1>11, <2>2 DEF Items
    <3>2. g \in Items(seen) \/ g \in Items(d)
      BY <1>2, <1>8, <2>2, <3>1 DEF Overwritten
    <3>3. g \in DOMAIN seen.group \/ g \in DOMAIN d.group
      <4>1. seen.communication_key # g \/ seen.communication_key = NoKey
        BY <1>3, ConfigsAre, KindsAssumption
      <4>2. d.communication_key # g \/ d.communication_key = NoKey
        BY <1>3, ConfigsAre, KindsAssumption
      <4>. QED
        BY <3>2, <4>1, <4>2 DEF Items
    <3>4. g \in DOMAIN d.group
      BY <1>3, <1>8, <2>2, <3>3, CommandsAre DEF Changed, With, Without
    <3>. QED
      BY <1>3, <2>2, <3>4
  <2>. QED
    BY <2>1, <2>2
<1>12. ASSUME NEW j \in Processes, <<f, g>> \in Owed(proc[j])
       PROVE  \/ g \in DOMAIN files'[f].group
              \/ \E k \in Processes : <<f, g>> \in Owed(proc'[k])
  <2>1. CASE j # i
    BY <1>5, <1>12, <2>1
  <2>2. CASE j = i
    <3>1. <<f, g>> \in Owed(p) /\ p.pc \in Window
      BY <1>3, <1>12, <2>2 DEF Window
    <3>2. CASE cmd.type = "dkg"
      <4>1. f = path /\ g = cmd.group
        BY <1>2, <1>3, <3>1, <3>2 DEF Owed
      <4>. QED
        BY <1>3, <3>2, <4>1 DEF Changed, With
    <3>3. CASE cmd.type = "trusted_dealer"
      <4>1. f \in p.todo \cup {path} /\ g = cmd.group
        BY <1>2, <1>3, <3>1, <3>3 DEF Owed
      <4>2. CASE f = path
        BY <1>3, <3>3, <4>1, <4>2 DEF Changed, With
      <4>3. CASE f \in p.todo
        <5>1. PICK q : q = [pc |-> "next", cmd |-> cmd, todo |-> p.todo]
          OBVIOUS
        <5>2. q \in Busy
          BY <1>3, <5>1, BusyOfKinds DEF SecondPass, Windows
        <5>3. <<f, g>> \in Owed(q)
          BY <3>3, <4>1, <4>3, <5>1, <5>2, BusyOfKinds DEF Owed
        <5>. QED
          BY <1>5, <4>3, <5>1, <5>3
      <4>. QED
        BY <4>1, <4>2, <4>3
    <3>4. cmd.type \in {"dkg", "trusted_dealer"}
      BY <1>2, <1>3, <3>1 DEF Owed, Window
    <3>. QED
      BY <3>2, <3>3, <3>4
  <2>. QED
    BY <2>1, <2>2
<1>. QED
  BY <1>9, <1>11, <1>12

\* Replacing a file leaves the users their keys, in the file or lost.
LEMMA PersistKeepsKeys ==
    ASSUME StoreInv, NEW i \in Processes, Persist(i),
           NEW f \in Paths, NEW key, Own(f, key, files, lost)
    PROVE  Own(f, key, files', lost')
<1>. DEFINE p == proc[i]
<1>1. PICK c, d, seen, cmd, path :
          /\ c = files[p.path] /\ d = temp[i] /\ seen = p.seen
          /\ cmd = p.cmd /\ path = p.path
  OBVIOUS
<1>2. /\ Changed(cmd, seen, d) /\ seen \in Config /\ d \in Config
      /\ \A h \in Paths : files'[h] = IF h = path THEN d ELSE files[h]
      /\ lost' = lost \cup Overwritten(path, seen, d)
  BY <1>1, PersistReplaces DEF Changed
<1>3. key \in PublicKeys
  BY DEF Own
<1>4. CASE <<f, key>> \in lost
  BY <1>2, <1>3, <1>4 DEF Own
<1>5. CASE f # path /\ key = files[f].communication_key
  BY <1>2, <1>3, <1>5 DEF Own
<1>6. CASE f = path /\ key = files[f].communication_key
  <2>1. CASE key = d.communication_key
    BY <1>2, <1>3, <1>6, <2>1 DEF Own
  <2>2. CASE key # d.communication_key
    <3>1. key # seen.communication_key
      BY <1>2, <1>3, <2>2, NoKeyAssumption DEF Changed
    <3>2. key \notin DOMAIN seen.group /\ key \notin DOMAIN d.group
      BY <1>2, <1>3, ConfigsAre, KindsAssumption
    <3>3. key \in Items(files[path])
      BY <1>3, <1>6, NoKeyAssumption DEF Items
    <3>4. key \notin Items(seen) \cup Items(d)
      BY <2>2, <3>1, <3>2 DEF Items
    <3>5. <<f, key>> \in Overwritten(path, seen, d)
      BY <1>6, <3>3, <3>4 DEF Overwritten
    <3>. QED
      BY <1>2, <1>3, <3>5 DEF Own
  <2>. QED
    BY <2>1, <2>2
<1>. QED
  BY <1>4, <1>5, <1>6 DEF Own

\* Replacing a file keeps all that users keep.
LEMMA PersistKeepsUsers ==
    ASSUME StoreInv, UserInv, NEW i \in Processes, Persist(i)
    PROVE  UserInv'
<1>. DEFINE p == proc[i]
            q == IF p.todo = {} THEN Idle
                 ELSE [pc |-> "next", cmd |-> p.cmd, todo |-> p.todo]
<1>1. TypeOK
  BY DEF StoreInv
<1>2. PICK d, cmd, path : d = temp[i] /\ cmd = p.cmd /\ path = p.path
  OBVIOUS
<1>3. /\ p \in Windows /\ p # Idle /\ p.pc = "written" /\ path \in Paths
      /\ cmd \in Command /\ d = p.config
      /\ \A f \in Paths : files'[f] = IF f = path THEN d ELSE files[f]
  BY <1>2, PersistReplaces
<1>4. \A j \in Processes : proc'[j] = IF j = i THEN q ELSE proc[j]
  BY <1>1 DEF Persist, Become, TypeOK
<1>5. q = Idle \/ (q \in Busy /\ q.pc = "next" /\ q.cmd = cmd)
  <2>1. [pc |-> "next", cmd |-> p.cmd, todo |-> p.todo] \in Busy
    BY <1>3, BusyOfKinds DEF SecondPass, Windows
  <2>. QED
    BY <1>2, <2>1
<1>. HIDE DEF q
<1>6. \A f \in Paths : \A key :
          Own(f, key, files, lost) => Own(f, key, files', lost')
  BY PersistKeepsKeys
<1>7. Owner(p, files, lost)
  BY DEF UserInv, OwnerOK
<1>8. OwnedOK'
  <2>1. SUFFICES ASSUME NEW f \in Paths
                 PROVE  Owned(f, files'[f], files', lost')
    BY DEF OwnedOK
  <2>2. Owned(f, files'[f], files, lost)
    <3>1. CASE f = path
      BY <1>2, <1>3, <1>7, <3>1 DEF Owner, Window
    <3>2. CASE f # path
      BY <1>3, <3>2 DEF UserInv, OwnedOK
    <3>. QED
      BY <3>1, <3>2
  <2>. QED
    BY <1>6, <2>2, OwnedStays
<1>9. OwnerOK'
  <2>1. SUFFICES ASSUME NEW j \in Processes
                 PROVE  Owner(proc'[j], files', lost')
    BY DEF OwnerOK
  <2>2. PICK r : r = proc'[j]
    OBVIOUS
  <2>3. r \in Busy \cup {Idle} /\ Owner(r, files, lost)
    <3>1. Owner(proc[j], files, lost)
      BY DEF UserInv, OwnerOK
    <3>2. CASE j # i
      BY <1>1, <1>4, <2>2, <3>1, <3>2 DEF TypeOK
    <3>3. CASE j = i
      <4>1. r = q
        BY <1>4, <2>2, <3>3
      <4>2. CASE q = Idle
        BY <4>1, <4>2, IdleOwns
      <4>3. CASE q \in Busy /\ q.pc = "next" /\ q.cmd = cmd
        BY <1>2, <1>3, <1>7, <4>1, <4>3 DEF Owner, Window
      <4>. QED
        BY <1>5, <4>2, <4>3
    <3>. QED
      BY <3>2, <3>3
  <2>4. Owner(r, files', lost')
    BY <1>6, <2>3, OwnerStays, IdleOwns
  <2>. QED
    BY <2>2, <2>4
<1>. QED
  BY <1>8, <1>9, PersistKeepsShares DEF UserInv

\* A change in slot i that leaves files, and what is gone, alone.
LEMMA OutsideKeepsUsers ==
    ASSUME TypeOK, UserInv, NEW i \in Processes, NEW q \in Busy,
           Become(i, q), UNCHANGED <<files, gone, lost>>, Owner(q, files, lost),
           produced' \subseteq produced \cup Owed(q), Owed(proc[i]) = {}
    PROVE  UserInv'
BY UserKept

\* A DKG works with the key that is in the file.
LEMMA StartDkgKeepsUsers ==
    ASSUME TypeOK, UserInv, NEW i \in Processes, NEW path \in Paths,
           StartDkg(i, path)
    PROVE  UserInv'
<1>1. PICK q : q = [pc |-> "dkg", path |-> path, config |-> files[path]]
  OBVIOUS
<1>2. /\ q.pc = "dkg" /\ q.path = path /\ q.config = files[path]
      /\ q \in Busy /\ files[path] \in Config
  BY <1>1, BusyOfKinds DEF Generating, TypeOK
<1>3. Own(path, files[path].communication_key, files, lost)
  BY <1>2, ConfigsAre DEF StartDkg, Own
<1>4. Owner(q, files, lost)
  BY <1>2, <1>3 DEF Owner, Window
<1>5. Owed(proc[i]) = {}
  BY DEF StartDkg, Started, Owed
<1>6. /\ Become(i, q) /\ UNCHANGED <<files, gone, lost>>
      /\ produced' \subseteq produced \cup Owed(q)
  BY <1>1 DEF StartDkg, history
<1>. QED
  BY <1>2, <1>4, <1>5, <1>6, OutsideKeepsUsers

\* The key is one of the participants the DKG ends with.
LEMMA DkgResultKeepsUsers ==
    ASSUME TypeOK, UserInv, NEW i \in Processes, NEW group \in Groups,
           NEW participants \in SUBSET PublicKeys,
           DkgResult(i, group, participants)
    PROVE  UserInv'
<1>. DEFINE p == proc[i]
<1>1. p # Idle /\ p.pc = "dkg" /\ p \in Busy
  BY DEF DkgResult, Started, TypeOK
<1>2. p \in Generating
  BY <1>1, KindsOfBusy
<1>3. PICK cmd : cmd = [type |-> "dkg", group |-> group,
                        participants |-> participants]
  OBVIOUS
<1>4. /\ cmd \in Command /\ cmd.type = "dkg" /\ cmd.group = group
      /\ cmd.participants = participants
  BY <1>3 DEF Command
<1>5. PICK q : q = [pc |-> "result", path |-> p.path, config |-> p.config,
                    cmd |-> cmd]
  OBVIOUS
<1>6. /\ q.pc = "result" /\ q.path = p.path /\ q.cmd = cmd
      /\ q \in Generated
  BY <1>2, <1>4, <1>5 DEF Generating, Generated
<1>7. Owner(p, files, lost)
  BY DEF UserInv, OwnerOK
<1>8. Participates(p.path, participants, files, lost)
  BY <1>1, <1>7 DEF Owner, DkgResult, Participates
<1>9. Owner(q, files, lost)
  BY <1>4, <1>6, <1>8 DEF Owner, Window
<1>10. Owed(p) = {}
  BY <1>1 DEF Owed
<1>11. /\ Become(i, q) /\ UNCHANGED <<files, gone, lost>>
       /\ produced' = produced \cup {<<p.path, group>>}
  BY <1>3, <1>5 DEF DkgResult
<1>12. <<p.path, group>> \in Owed(q)
  BY <1>4, <1>6, BusyOfKinds DEF Owed
<1>13. produced' \subseteq produced \cup Owed(q)
  BY <1>11, <1>12
<1>. QED
  BY <1>6, <1>9, <1>10, <1>11, <1>13, BusyOfKinds, OutsideKeepsUsers

\* What a DKG changes is the file as it is after it.
LEMMA ReadAgainKeepsUsers ==
    ASSUME StoreInv, UserInv, NEW i \in Processes, ReadAgain(i)
    PROVE  UserInv'
<1>. DEFINE p == proc[i]
<1>1. TypeOK /\ HeldOK
  BY DEF StoreInv
<1>2. p # Idle /\ p \in Busy /\ p.pc = "result"
  BY <1>1 DEF ReadAgain, Started, TypeOK
<1>3. p.path \in Paths /\ p.cmd \in Command
  BY <1>2, KindsOfBusy DEF Generated
<1>4. p.cmd.type = "dkg"
  BY <1>1, <1>2 DEF HeldOK, Held
<1>5. Participates(p.path, p.cmd.participants, files, lost)
  BY <1>2, <1>4 DEF UserInv, OwnerOK, Owner
<1>6. Loaded(p.path, p.cmd, {}, files[p.path]) \in Windows
  BY <1>1, <1>3 DEF Loaded, Windows, Window, TypeOK
<1>7. Owed(p) \subseteq Owed(Loaded(p.path, p.cmd, {}, files[p.path]))
  <2>1. PICK q \in Windows : q = Loaded(p.path, p.cmd, {}, files[p.path])
    BY <1>6
  <2>2. q.pc = "loaded" /\ q.path = p.path /\ q.cmd = p.cmd /\ q # Idle
    BY <2>1, BusyOfKinds DEF Loaded
  <2>. QED
    BY <1>2, <1>4, <2>1, <2>2 DEF Owed
<1>8. /\ Load(i, p.path, p.cmd, {})
      /\ UNCHANGED <<files, produced, gone, lost>>
  BY DEF ReadAgain, history
<1>. QED
  BY <1>1, <1>3, <1>4, <1>5, <1>7, <1>8, LoadKeepsUsers

\* The dealer begins, and has no key yet.
LEMMA StartDealerKeepsUsers ==
    ASSUME TypeOK, UserInv, NEW i \in Processes, StartDealer(i)
    PROVE  UserInv'
<1>1. PICK m : m = [path \in {} |-> NoKey]
  OBVIOUS
<1>2. m \in Maps(Paths, PublicKeys) /\ DOMAIN m = {}
  BY <1>1, MapsAre
<1>3. PICK q : q = [pc |-> "deal", keys |-> m]
  OBVIOUS
<1>4. q.pc = "deal" /\ q.keys = m /\ q \in Busy
  BY <1>2, <1>3, BusyOfKinds DEF FirstPass
<1>5. Owner(q, files, lost)
  BY <1>2, <1>4 DEF Owner, Window
<1>6. Owed(proc[i]) = {}
  BY DEF StartDealer, Started, Owed
<1>7. /\ Become(i, q) /\ UNCHANGED <<files, gone, lost>>
      /\ produced' \subseteq produced \cup Owed(q)
  BY <1>1, <1>3 DEF StartDealer, history
<1>. QED
  BY <1>4, <1>5, <1>6, <1>7, OutsideKeepsUsers

\* The keys the dealer has read are, or were, the keys in the files.
LEMMA DealerReadsKeepsUsers ==
    ASSUME TypeOK, UserInv, NEW i \in Processes, NEW path \in Paths,
           DealerReads(i, path)
    PROVE  UserInv'
<1>. DEFINE p == proc[i]
            key == files[path].communication_key
<1>1. /\ p # Idle /\ p.pc = "deal" /\ p \in FirstPass
      /\ p.keys \in Maps(Paths, PublicKeys)
  BY DealerKnows DEF DealerReads, Started
<1>2. Owed(p) = {} /\ UNCHANGED <<files, produced, gone, lost>>
  BY <1>1 DEF Owed, DealerReads, history
<1>3. CASE key = NoKey
  BY <1>2, <1>3, FreeKeepsUsers DEF DealerReads
<1>4. CASE key # NoKey
  <2>1. key \in PublicKeys /\ Own(path, key, files, lost)
    <3>1. files[path] \in Config
      BY DEF TypeOK
    <3>. QED
      BY <3>1, <1>4, ConfigsAre DEF Own
  <2>2. PICK keys \in Maps(Paths, PublicKeys) : keys = p.keys
    BY <1>1
  <2>3. PICK m : m = Put(keys, path, key)
    OBVIOUS
  <2>4. m \in Maps(Paths, PublicKeys) /\ With(m, keys, path, key)
    BY <2>1, <2>3, PutIsMap
  <2>5. PICK q : q = [p EXCEPT !.keys = m]
    OBVIOUS
  <2>6. q \in FirstPass /\ q.pc = "deal" /\ q.keys = m
    BY <1>1, <2>4, <2>5 DEF FirstPass
  <2>7. \A f \in DOMAIN keys : Own(f, keys[f], files, lost)
    BY <1>1, <2>2 DEF UserInv, OwnerOK, Owner
  <2>8. \A f \in DOMAIN m : Own(f, m[f], files, lost)
    BY <2>1, <2>4, <2>7 DEF With
  <2>9. Owner(q, files, lost)
    BY <2>6, <2>8 DEF Owner, Window
  <2>10. Become(i, q)
    BY <1>4, <2>2, <2>3, <2>5 DEF DealerReads
  <2>11. produced' \subseteq produced \cup Owed(q)
    BY <1>2
  <2>. QED
    BY <1>2, <2>6, <2>9, <2>10, <2>11, BusyOfKinds, OutsideKeepsUsers
<1>. QED
  BY <1>3, <1>4

\* The participants of the group are the users of all files.
LEMMA DealerDealsKeepsUsers ==
    ASSUME TypeOK, UserInv, NEW i \in Processes, NEW group \in Groups,
           DealerDeals(i, group)
    PROVE  UserInv'
<1>. DEFINE p == proc[i]
<1>1. p # Idle /\ p.pc = "deal" /\ p.keys \in Maps(Paths, PublicKeys)
  BY DealerKnows DEF DealerDeals, Started
<1>2. PICK keys \in Maps(Paths, PublicKeys) : keys = p.keys
  BY <1>1
<1>3. PICK contacts \in DealtContacts(keys) :
          Become(i, [pc   |-> "next", todo |-> Paths,
                     cmd  |-> [type |-> "trusted_dealer", group |-> group,
                               participants |-> Range(keys),
                               contacts |-> contacts]])
  BY <1>2 DEF DealerDeals
<1>4. PICK cmd : cmd = [type |-> "trusted_dealer", group |-> group,
                        participants |-> Range(keys),
                        contacts |-> contacts]
  OBVIOUS
<1>5. cmd \in Command
  BY <1>4, DealtIsCommand
<1>6. /\ cmd.type = "trusted_dealer" /\ cmd.group = group
      /\ cmd.participants = Range(keys)
  BY <1>4
<1>7. PICK q : q = [pc |-> "next", todo |-> Paths, cmd |-> cmd]
  OBVIOUS
<1>8. /\ q \in SecondPass /\ q.pc = "next" /\ q.cmd = cmd /\ q.todo = Paths
      /\ q # Idle
  BY <1>5, <1>7, BusyOfKinds DEF SecondPass
<1>9. \A f \in Paths : Participates(f, cmd.participants, files, lost)
  <2>1. DOMAIN keys = Paths
    BY <1>2 DEF DealerDeals
  <2>2. \A f \in DOMAIN keys : Own(f, keys[f], files, lost)
    BY <1>1, <1>2 DEF UserInv, OwnerOK, Owner
  <2>. QED
    BY <1>6, <2>1, <2>2 DEF Range, Participates
<1>10. Owner(q, files, lost)
  BY <1>6, <1>8, <1>9 DEF Owner, Window
<1>11. Owed(q) = Paths \X {group}
  BY <1>6, <1>8 DEF Owed, Window
<1>12. Owed(p) = {}
  BY <1>1 DEF Owed
<1>13. /\ Become(i, q) /\ UNCHANGED <<files, gone, lost>>
       /\ produced' \subseteq produced \cup Owed(q)
  BY <1>3, <1>4, <1>7, <1>11 DEF DealerDeals
<1>. QED
  BY <1>8, <1>10, <1>12, <1>13, BusyOfKinds, OutsideKeepsUsers

\* The dealer reads the next file it is to change.
LEMMA DealerNextKeepsUsers ==
    ASSUME StoreInv, UserInv, NEW i \in Processes, NEW path \in Paths,
           DealerNext(i, path)
    PROVE  UserInv'
<1>. DEFINE p == proc[i]
<1>1. TypeOK /\ HeldOK
  BY DEF StoreInv
<1>2. p # Idle /\ p \in Busy /\ p.pc = "next" /\ path \in p.todo
  BY <1>1 DEF DealerNext, Started, TypeOK
<1>3. p.cmd \in Command /\ p.todo \in SUBSET Paths
  BY <1>2, KindsOfBusy DEF SecondPass
<1>4. p.cmd.type = "trusted_dealer"
  BY <1>1, <1>2 DEF HeldOK, Held
<1>5. \A f \in Paths : Participates(f, p.cmd.participants, files, lost)
  BY <1>2, <1>4 DEF UserInv, OwnerOK, Owner
<1>6. PICK todo \in SUBSET Paths : todo = p.todo \ {path}
  BY <1>3
<1>7. Loaded(path, p.cmd, todo, files[path]) \in Windows
  BY <1>1, <1>3 DEF Loaded, Windows, Window, TypeOK
<1>8. Owed(p) \subseteq Owed(Loaded(path, p.cmd, todo, files[path]))
  <2>1. PICK q \in Windows : q = Loaded(path, p.cmd, todo, files[path])
    BY <1>7
  <2>2. /\ q.pc = "loaded" /\ q.path = path /\ q.cmd = p.cmd
        /\ q.todo = todo /\ q # Idle
    BY <2>1, BusyOfKinds DEF Loaded
  <2>3. Owed(q) = (todo \cup {path}) \X {p.cmd.group}
    BY <1>4, <2>2 DEF Owed, Window
  <2>4. Owed(p) = p.todo \X {p.cmd.group}
    BY <1>2, <1>4 DEF Owed, Window
  <2>. QED
    BY <1>6, <2>1, <2>3, <2>4
<1>9. Load(i, path, p.cmd, todo) /\ UNCHANGED <<files, produced, gone, lost>>
  BY <1>6 DEF DealerNext, history
<1>. QED
  BY <1>1, <1>2, <1>3, <1>4, <1>5, <1>8, <1>9, LoadKeepsUsers

\* All of it: UserInv is inductive relative to StoreInv.
LEMMA UserInvStep ==
    ASSUME StoreInv, UserInv, [Next]_vars
    PROVE  UserInv'
<1>1. TypeOK
  BY DEF StoreInv
<1>2. CASE UNCHANGED vars
  <2>1. OwnedOK' /\ OwnerOK'
    BY <1>2 DEF vars, UserInv, OwnedOK, OwnerOK
  <2>2. OnlyOverlapsLoseShares'
    BY <1>2, PendingIsOwed DEF vars, UserInv, OnlyOverlapsLoseShares
  <2>. QED
    BY <2>1, <2>2 DEF UserInv
<1>3. ASSUME NEW i \in Processes, NEW path \in Paths, NEW cmd \in UserCommand,
             Start(i, path, cmd)
      PROVE  UserInv'
  BY <1>1, <1>3, StartKeepsUsers
<1>4. ASSUME NEW i \in Processes, NEW path \in Paths,
             \/ StartDkg(i, path)
             \/ DealerReads(i, path)
             \/ DealerNext(i, path)
      PROVE  UserInv'
  BY <1>1, <1>4, StartDkgKeepsUsers, DealerReadsKeepsUsers, DealerNextKeepsUsers
<1>5. ASSUME NEW i \in Processes, NEW group \in Groups, DealerDeals(i, group)
      PROVE  UserInv'
  BY <1>1, <1>5, DealerDealsKeepsUsers
<1>6. ASSUME NEW i \in Processes, NEW group \in Groups,
             NEW participants \in SUBSET PublicKeys,
             DkgResult(i, group, participants)
      PROVE  UserInv'
  BY <1>1, <1>6, DkgResultKeepsUsers
<1>7. ASSUME NEW i \in Processes,
             Refuse(i) \/ CreateTemp(i) \/ WriteAll(i) \/ Persist(i)
      PROVE  UserInv'
  BY <1>1, <1>7, RefuseKeepsUsers, CreateTempKeepsUsers, WriteAllKeepsUsers,
     PersistKeepsUsers
<1>8. ASSUME NEW i \in Processes, Stop(i) \/ ReadAgain(i) \/ StartDealer(i)
      PROVE  UserInv'
  BY <1>1, <1>8, StopKeepsUsers, ReadAgainKeepsUsers, StartDealerKeepsUsers
<1>. QED
  BY <1>2, <1>3, <1>4, <1>5, <1>6, <1>7, <1>8 DEF Next

\* No process runs in the beginning, and nothing was produced.
LEMMA UserInvInit ==
    Init => UserInv
<1>. SUFFICES ASSUME Init PROVE UserInv
  OBVIOUS
<1>1. OwnerOK
  BY IdleOwns DEF Init, OwnerOK
<1>2. OnlyOverlapsLoseShares
  BY DEF Init, OnlyOverlapsLoseShares
<1>3. OwnedOK
  <2>1. DOMAIN Default.group = {}
    BY DEF Default
  <2>. QED
    BY <2>1 DEF Init, OwnedOK, Owned
<1>. QED
  BY <1>1, <1>2, <1>3 DEF UserInv

\* Both invariants together.
LEMMA StoreAndUsers ==
    Spec => [](StoreInv /\ UserInv)
<1>1. Init => StoreInv /\ UserInv
  BY StoreInvInit, UserInvInit
<1>2. StoreInv /\ UserInv /\ [Next]_vars => (StoreInv /\ UserInv)'
  BY StoreInvStep, UserInvStep
<1>. QED
  BY <1>1, <1>2, PTL DEF Spec

\* A key share that `dkg' or `trusted-dealer' produced is stored, unless its
\* command is stopped, and is then removed by `remove-group' or lost because it
\* was stored in the window of another command: a DKG reads the file again
\* (dkg.rs:139), so that its window does not begin before the key generation.
THEOREM SharesAreLostToOverlapsOnly == Spec => []OnlyOverlapsLoseShares
<1>1. StoreInv /\ UserInv => OnlyOverlapsLoseShares
  BY DEF UserInv
<1>. QED
  BY <1>1, StoreAndUsers, PTL

\* The user is a participant of every group in the file, under the key in the
\* file or one that a command with an overlapping window took away: `init' keeps
\* the key that it has read (init.rs), and so does every other command.
THEOREM OwnersAreParticipants == Spec => []GroupsIncludeOwner
<1>1. OwnedOK => GroupsIncludeOwner
  BY DEF OwnedOK, Owned, Participates, Own, GroupsIncludeOwner, OwnKey
<1>2. StoreInv /\ UserInv => GroupsIncludeOwner
  BY <1>1 DEF UserInv
<1>. QED
  BY <1>2, StoreAndUsers, PTL

-----------------------------------------------------------------------------
(* ConfigStore implements ConfigSnapshot.                                  *)

\* What a command at p is to do: what ImplementsSnapshot makes of a slot.
Run(p) ==
    IF p # Idle /\ p.pc \in Window
    THEN [path |-> p.path, cmd |-> p.cmd, seen |-> p.seen]
    ELSE Idle

Running ==
    [i \in Processes |->
        IF InWindow(i) THEN [path |-> proc[i].path, cmd |-> proc[i].cmd,
                             seen |-> proc[i].seen]
        ELSE Idle]

\* The commands mean the same in both modules.
LEMMA SnapshotMeansTheSame ==
    /\ Snapshot!Command = Command
    /\ Snapshot!Default = Default
    /\ \A cmd, c : Snapshot!Outcomes(cmd, c) = Outcomes(cmd, c)
<1>1. Snapshot!Command = Command
  BY DEF Command, UserCommand, Maps, Snapshot!Command, Snapshot!UserCommand,
         Snapshot!Maps
<1>2. Snapshot!Default = Default
  BY DEF Default, Snapshot!Default
<1>3. ASSUME NEW cmd, NEW c
      PROVE  Snapshot!Outcomes(cmd, c) = Outcomes(cmd, c)
  BY DEF Outcomes, InitUser, Import, RemoveContact, RemoveGroup, Dkg,
         TrustedDealer, Put, Drop, Restrict, Range,
         Snapshot!Outcomes, Snapshot!InitUser, Snapshot!Import,
         Snapshot!RemoveContact, Snapshot!RemoveGroup, Snapshot!Dkg,
         Snapshot!TrustedDealer, Snapshot!Put, Snapshot!Drop, Snapshot!Restrict,
         Snapshot!Range
<1>. QED
  BY <1>1, <1>2, <1>3

\* A command is to do nothing or something that is not nothing.
LEMMA RunsAre ==
    ASSUME NEW path \in Paths, NEW cmd \in Command, NEW seen \in Config
    PROVE  /\ [path |-> path, cmd |-> cmd, seen |-> seen] \in
                  [path : {path}, cmd : Command, seen : {seen}]
           /\ [path |-> path, cmd |-> cmd, seen |-> seen] # Idle
BY IdleAssumption

\* What happens to the commands when one slot changes.
LEMMA RunningChanges ==
    ASSUME TypeOK, NEW i \in Processes, NEW q, Become(i, q)
    PROVE  /\ Running[i] = Run(proc[i])
           /\ Running' = [Running EXCEPT ![i] = Run(q)]
<1>1. \A j \in Processes : Running[j] = Run(proc[j])
  BY DEF Running, Run, InWindow, Started
<1>2. \A j \in Processes : Running'[j] = Run(proc'[j])
  BY DEF Running, Run, InWindow, Started
<1>3. \A j \in Processes : proc'[j] = IF j = i THEN q ELSE proc[j]
  BY DEF TypeOK, Become
<1>4. Running' = [j \in Processes |-> IF j = i THEN Run(q) ELSE Run(proc[j])]
  BY <1>2, <1>3 DEF Running
<1>5. Running = [j \in Processes |-> Run(proc[j])]
  BY <1>1 DEF Running
<1>. QED
  BY <1>1, <1>4, <1>5

\* A change of a slot that leaves what its command is to do alone, or ends it
\* without effect.
LEMMA NoEffect ==
    ASSUME TypeOK, NEW i \in Processes, NEW q, Become(i, q), files' = files,
           Run(q) \in {Run(proc[i]), Idle}
    PROVE  [Snapshot!Next]_(Snapshot!vars)
<1>1. /\ Running[i] = Run(proc[i])
      /\ Running' = [Running EXCEPT ![i] = Run(q)]
  BY RunningChanges
<1>2. CASE Run(q) = Run(proc[i])
  <2>1. Running' = Running
    BY <1>1, <1>2 DEF Running
  <2>. QED
    BY <2>1 DEF Snapshot!vars, Running
<1>3. CASE Run(q) = Idle /\ Run(proc[i]) # Idle
  <2>1. Snapshot!Abandon(i)
    BY <1>1, <1>3 DEF Snapshot!Abandon, Running
  <2>. QED
    BY <2>1 DEF Snapshot!Next
<1>. QED
  BY <1>2, <1>3

\* Reading the file to change it is the beginning of a command.
LEMMA LoadBegins ==
    ASSUME TypeOK, NEW i \in Processes, NEW path \in Paths,
           NEW cmd \in Command, NEW todo, Load(i, path, cmd, todo),
           Run(proc[i]) = Idle, files' = files
    PROVE  [Snapshot!Next]_(Snapshot!vars)
<1>1. PICK q : q = Loaded(path, cmd, todo, files[path])
  OBVIOUS
<1>2. Become(i, q)
  BY <1>1 DEF Load, Loaded
<1>3. CASE q = Idle
  BY <1>2, <1>3, NoEffect DEF Run
<1>4. CASE q # Idle
  <2>1. Run(q) = [path |-> path, cmd |-> cmd, seen |-> files[path]]
    BY <1>1, <1>4 DEF Run, Loaded, Window
  <2>2. /\ Running[i] = Idle
        /\ Running' = [Running EXCEPT ![i] = Run(q)]
    BY <1>2, RunningChanges
  <2>3. /\ Running'[i] = Run(q)
        /\ Run(q) \in [path : {path}, cmd : Command, seen : {files[path]}]
    <3>1. files[path] \in Config
      BY DEF TypeOK
    <3>. QED
      BY <2>1, <2>2, <3>1, RunsAre DEF Running
  <2>4. Snapshot!Begin(i)
    BY <2>2, <2>3, SnapshotMeansTheSame DEF Snapshot!Begin, Running
  <2>. QED
    BY <2>4 DEF Snapshot!Next
<1>. QED
  BY <1>3, <1>4

\* Replacing the file is the effect of the command.
LEMMA PersistTakesEffect ==
    ASSUME StoreInv, NEW i \in Processes, Persist(i)
    PROVE  [Snapshot!Next]_(Snapshot!vars)
<1>. DEFINE p == proc[i]
            q == IF p.todo = {} THEN Idle
                 ELSE [pc |-> "next", cmd |-> p.cmd, todo |-> p.todo]
<1>1. TypeOK
  BY DEF StoreInv
<1>2. /\ p # Idle /\ p.pc = "written" /\ p.path \in Paths /\ p.cmd \in Command
      /\ p.seen \in Config /\ temp[i] \in Outcomes(p.cmd, p.seen)
      /\ files' = [files EXCEPT ![p.path] = temp[i]]
  BY PersistReplaces
<1>3. /\ Run(p) = [path |-> p.path, cmd |-> p.cmd, seen |-> p.seen]
      /\ Run(p) # Idle
  BY <1>2, RunsAre DEF Run, Window
<1>4. Become(i, q)
  BY DEF Persist
<1>5. Run(q) = Idle
  BY DEF Run, Window
<1>. HIDE DEF q
<1>6. Running[i] = Run(p) /\ Running' = [Running EXCEPT ![i] = Idle]
  BY <1>1, <1>4, <1>5, RunningChanges
<1>7. /\ Running[i].path = p.path /\ Running[i].cmd = p.cmd
      /\ Running[i].seen = p.seen
  BY <1>3, <1>6
<1>8. \E config \in Snapshot!Outcomes(Running[i].cmd, Running[i].seen) :
          files' = [files EXCEPT ![Running[i].path] = config]
  BY <1>2, <1>7, SnapshotMeansTheSame
<1>9. Snapshot!TakeEffect(i)
  BY <1>3, <1>6, <1>8 DEF Snapshot!TakeEffect, Running
<1>. QED
  BY <1>9 DEF Snapshot!Next

\* Creating and writing the temporary file changes nothing that others see.
LEMMA WritingHasNoEffect ==
    ASSUME TypeOK, NEW i \in Processes, CreateTemp(i) \/ WriteAll(i)
    PROVE  [Snapshot!Next]_(Snapshot!vars)
<1>. DEFINE p == proc[i]
<1>1. /\ Started(i) /\ p # Idle /\ p.pc \in Window
      /\ files' = files
  BY DEF CreateTemp, WriteAll, Started, Window, history
<1>2. p \in Windows
  BY <1>1, InWindowKnows
<1>3. PICK q, pc, config :
          /\ Become(i, q) /\ q = [p EXCEPT !.pc = pc, !.config = config]
          /\ pc \in {"writing", "written"}
  <2>1. CASE CreateTemp(i)
    BY <2>1 DEF CreateTemp
  <2>2. CASE WriteAll(i)
    <3>1. [p EXCEPT !.pc = "written"] =
              [p EXCEPT !.pc = "written", !.config = p.config]
      BY <1>2 DEF Windows
    <3>. QED
      BY <2>2, <3>1 DEF WriteAll
  <2>. QED
    BY <2>1, <2>2
<1>4. /\ q.pc \in Window /\ q.path = p.path /\ q.cmd = p.cmd
      /\ q.seen = p.seen
  BY <1>2, <1>3 DEF Windows, Window
<1>5. Run(q) \in {Run(p), Idle}
  BY <1>1, <1>4 DEF Run
<1>. QED
  BY <1>1, <1>3, <1>5, NoEffect

\* Outside a window nothing happens to a file.
LEMMA OutsideHasNoEffect ==
    ASSUME TypeOK, NEW i \in Processes, NEW q, Become(i, q), files' = files,
           q = Idle \/ q.pc \notin Window
    PROVE  [Snapshot!Next]_(Snapshot!vars)
<1>1. Run(q) = Idle
  BY DEF Run
<1>. QED
  BY <1>1, NoEffect

\* The initial states are those of ConfigSnapshot.
LEMMA SnapshotInit ==
    Init => Snapshot!Init
<1>. SUFFICES ASSUME Init PROVE Snapshot!Init
  OBVIOUS
<1>1. \A i \in Processes : ~InWindow(i)
  BY DEF Init, InWindow, Started
<1>2. Running = [i \in Processes |-> Idle]
  BY <1>1 DEF Running
<1>. QED
  BY <1>2, SnapshotMeansTheSame DEF Init, Snapshot!Init, Running

\* Every step is a step of ConfigSnapshot or leaves its variables alone.
LEMMA SnapshotStep ==
    ASSUME StoreInv, [Next]_vars
    PROVE  [Snapshot!Next]_(Snapshot!vars)
<1>1. TypeOK /\ HeldOK
  BY DEF StoreInv
<1>2. CASE UNCHANGED vars
  BY <1>2 DEF vars, Snapshot!vars, InWindow, Started
<1>3. ASSUME NEW i \in Processes, NEW path \in Paths, NEW cmd \in UserCommand,
             Start(i, path, cmd)
      PROVE  [Snapshot!Next]_(Snapshot!vars)
  <2>1. cmd \in Command /\ Load(i, path, cmd, {}) /\ files' = files
    BY <1>3 DEF Command, Start
  <2>2. Run(proc[i]) = Idle
    BY <1>3 DEF Start, Started, Run
  <2>. QED
    BY <1>1, <2>1, <2>2, LoadBegins
<1>4. ASSUME NEW i \in Processes, NEW path \in Paths, DealerNext(i, path)
      PROVE  [Snapshot!Next]_(Snapshot!vars)
  <2>1. proc[i] \in Busy /\ proc[i].pc = "next"
    BY <1>1, <1>4 DEF DealerNext, Started, TypeOK
  <2>2. proc[i].cmd \in Command
    BY <2>1, KindsOfBusy DEF SecondPass
  <2>3. Run(proc[i]) = Idle
    BY <2>1 DEF Run, Window
  <2>4. PICK todo : Load(i, path, proc[i].cmd, todo) /\ files' = files
    BY <1>4 DEF DealerNext
  <2>. QED
    BY <1>1, <2>2, <2>3, <2>4, LoadBegins
<1>5. ASSUME NEW i \in Processes, ReadAgain(i)
      PROVE  [Snapshot!Next]_(Snapshot!vars)
  <2>1. proc[i] \in Busy /\ proc[i].pc = "result"
    BY <1>1, <1>5 DEF ReadAgain, Started, TypeOK
  <2>2. proc[i].cmd \in Command /\ proc[i].path \in Paths
    BY <2>1, KindsOfBusy DEF Generated
  <2>3. Run(proc[i]) = Idle
    BY <2>1 DEF Run, Window
  <2>4. Load(i, proc[i].path, proc[i].cmd, {}) /\ files' = files
    BY <1>5 DEF ReadAgain
  <2>. QED
    BY <1>1, <2>2, <2>3, <2>4, LoadBegins
<1>6. ASSUME NEW i \in Processes, Refuse(i) \/ Stop(i)
      PROVE  [Snapshot!Next]_(Snapshot!vars)
  BY <1>1, <1>6, OutsideHasNoEffect DEF Refuse, Stop
<1>7. ASSUME NEW i \in Processes, CreateTemp(i) \/ WriteAll(i)
      PROVE  [Snapshot!Next]_(Snapshot!vars)
  BY <1>1, <1>7, WritingHasNoEffect
<1>8. ASSUME NEW i \in Processes, Persist(i)
      PROVE  [Snapshot!Next]_(Snapshot!vars)
  BY <1>8, PersistTakesEffect
<1>9. ASSUME NEW i \in Processes, NEW path \in Paths, StartDkg(i, path)
      PROVE  [Snapshot!Next]_(Snapshot!vars)
  BY <1>1, <1>9, OutsideHasNoEffect DEF StartDkg, Window
<1>10. ASSUME NEW i \in Processes, NEW group \in Groups,
              NEW participants \in SUBSET PublicKeys,
              DkgResult(i, group, participants)
       PROVE  [Snapshot!Next]_(Snapshot!vars)
  BY <1>1, <1>10, OutsideHasNoEffect DEF DkgResult, Window
<1>11. ASSUME NEW i \in Processes, StartDealer(i)
       PROVE  [Snapshot!Next]_(Snapshot!vars)
  BY <1>1, <1>11, OutsideHasNoEffect DEF StartDealer, Window
<1>12. ASSUME NEW i \in Processes, NEW path \in Paths, DealerReads(i, path)
       PROVE  [Snapshot!Next]_(Snapshot!vars)
  <2>1. proc[i] \in FirstPass /\ files' = files
    BY <1>1, <1>12, DealerKnows DEF DealerReads
  <2>2. PICK q : Become(i, q) /\ (q = Idle \/ q.pc = "deal")
    <3>1. \A m : [proc[i] EXCEPT !.keys = m].pc = "deal"
      BY <2>1 DEF FirstPass
    <3>. QED
      BY <1>12, <3>1 DEF DealerReads
  <2>. QED
    BY <1>1, <2>1, <2>2, OutsideHasNoEffect DEF Window
<1>13. ASSUME NEW i \in Processes, NEW group \in Groups, DealerDeals(i, group)
       PROVE  [Snapshot!Next]_(Snapshot!vars)
  BY <1>1, <1>13, OutsideHasNoEffect DEF DealerDeals, Window
<1>. QED
  BY <1>2, <1>3, <1>4, <1>5, <1>6, <1>7, <1>8, <1>9, <1>10, <1>11, <1>12,
     <1>13 DEF Next

\* A command takes effect at once, and makes of the file what it should have
\* made of what it last read of it, and nothing else changes a file, whatever
\* key generations, dealers and other commands run beside it and whenever
\* commands are killed (Config::read, Config::write, write_atomic::write_file).
THEOREM CommandsActOnSnapshots == Spec => ImplementsSnapshot
<1>1. Init => Snapshot!Init
  BY SnapshotInit
<1>2. StoreInv /\ [Next]_vars => [Snapshot!Next]_(Snapshot!vars)
  BY SnapshotStep
<1>. QED
  BY <1>1, <1>2, StoreAndUsers, PTL
     DEF Spec, ImplementsSnapshot, Snapshot!Spec

=============================================================================
