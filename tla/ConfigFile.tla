----------------------------- MODULE ConfigFile -----------------------------
(***************************************************************************)
(* The content of a user's configuration file and what the commands of     *)
(* frost-client make of it (frost-client/src/cli/config.rs, init.rs,       *)
(* contact.rs, group.rs, dkg.rs, trusted_dealer.rs).                       *)
(*                                                                         *)
(* A communication key pair is its public key.  A group is what its        *)
(* participants are to the user: their public keys; the key share of the   *)
(* user comes and goes with the group.                                     *)
(***************************************************************************)
EXTENDS Naturals, Functions

CONSTANTS
    PublicKeys,  \* communication public keys
    NoKey,       \* a file without a communication key
    Names,       \* names of contacts
    Groups       \* groups, by their verifying key

ASSUME NoKeyAssumption == NoKey \notin PublicKeys

Maps(K, V) == UNION {[S -> V] : S \in SUBSET K}

Config == [communication_key : PublicKeys \cup {NoKey},
           contact           : Maps(Names, PublicKeys),
           group             : Maps(Groups, SUBSET PublicKeys)]

\* What Config::read returns when there is no file.
Default == [communication_key |-> NoKey,
            contact           |-> [n \in {} |-> n],
            group             |-> [g \in {} |-> g]]

\* The commands that write the file, with what they need to do so: the key a
\* first `init' generates, the group that a DKG or the dealer produced, the
\* contacts that the dealer makes of all participants.
UserCommand ==
    [type : {"init"}, key : PublicKeys]
    \cup [type : {"import"}, name : Names, key : PublicKeys]
    \cup [type : {"remove_contact"}, key : PublicKeys]
    \cup [type : {"remove_group"}, group : Groups]

Command ==
    UserCommand
    \cup [type : {"dkg"}, group : Groups, participants : SUBSET PublicKeys]
    \cup [type : {"trusted_dealer"}, group : Groups,
          participants : SUBSET PublicKeys, contacts : Maps(Names, PublicKeys)]

Put(map, key, value) ==
    [k \in DOMAIN map \cup {key} |-> IF k = key THEN value ELSE map[k]]

Drop(map, key) == Restrict(map, DOMAIN map \ {key})

-----------------------------------------------------------------------------
(* What a command makes of a configuration: the possible results, none if  *)
(* it refuses.                                                             *)

\* Mutant: a new key pair, whether there is one or not.
InitUserAlways(config, key) == {[config EXCEPT !.communication_key = key]}

InitUser(config, key) ==
    {IF config.communication_key # NoKey THEN config
     ELSE [config EXCEPT !.communication_key = key]}

Import(config, name, key) ==
    IF \/ name \in DOMAIN config.contact
       \/ key \in Range(config.contact)
       \/ key = config.communication_key
    THEN {} ELSE {[config EXCEPT !.contact = Put(@, name, key)]}

\* One contact with the key is removed, even if the dealer made it two.
RemoveContact(config, key) ==
    {[config EXCEPT !.contact = Drop(@, name)] :
        name \in {n \in DOMAIN config.contact : config.contact[n] = key}}

RemoveGroup(config, group) ==
    IF group \notin DOMAIN config.group THEN {}
    ELSE {[config EXCEPT !.group = Drop(@, group)]}

Dkg(config, group, participants) ==
    {[config EXCEPT !.group = Put(@, group, participants)]}

\* The dealer's contacts overwrite those with the same names.
TrustedDealer(config, group, participants, contacts) ==
    {[config EXCEPT
        !.group   = Put(@, group, participants),
        !.contact = [n \in DOMAIN @ \cup DOMAIN contacts |->
                        IF n \in DOMAIN contacts THEN contacts[n] ELSE @[n]]]}

Outcomes(cmd, config) ==
    CASE cmd.type = "init"           -> InitUser(config, cmd.key)
      [] cmd.type = "import"         -> Import(config, cmd.name, cmd.key)
      [] cmd.type = "remove_contact" -> RemoveContact(config, cmd.key)
      [] cmd.type = "remove_group"   -> RemoveGroup(config, cmd.group)
      [] cmd.type = "dkg"            -> Dkg(config, cmd.group, cmd.participants)
      [] cmd.type = "trusted_dealer" ->
            TrustedDealer(config, cmd.group, cmd.participants, cmd.contacts)

\* contact_by_pubkey finds the key: the user's own, or a contact's.
ContactByPubkey(config, key) ==
    key = config.communication_key \/ key \in Range(config.contact)

=============================================================================
