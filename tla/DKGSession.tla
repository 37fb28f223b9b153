----------------------------- MODULE DKGSession -----------------------------
(***************************************************************************)
(* DKGSessionState, the state machine with which a DKG participant handles *)
(* the messages of the others (frost-client/src/session.rs), as operators  *)
(* on its state.  A participant's identifier is derived from the session   *)
(* id and its public key, one to one, so a participant stands for both.    *)
(*                                                                         *)
(* Messages are what the JSON of each round parses as: a message of one    *)
(* round never parses as one of another.                                   *)
(***************************************************************************)
EXTENDS Naturals, FiniteSets

CONSTANTS
    Participants,  \* the public keys of the session, as identifiers too
    Versions       \* a participant's possible Round 1 Packages

Round1Package == [from : Participants, version : Versions]
Round2Package == [from : Participants, version : Versions, to : Participants]

Message ==
    [type : {"round1"}, sender : Participants, package : Round1Package]
    \cup [type : {"broadcast"}, sender : Participants,
          original : Participants, package : Round1Package]
    \cup [type : {"round2"}, sender : Participants, package : Round2Package]

\* The states of the enum, in the order in which a session goes through them.
Tags == {"WaitingForRound1Packages", "WaitingForRound1PackagesBroadcast",
         "WaitingForRound2Packages", "Round2PackagesReady"}

\* A map with keys in K and values in V.
IsMap(map, K, V) == DOMAIN map \subseteq K /\ map \in [DOMAIN map -> V]

\* The maps of the state: Round 1 Packages by sender, broadcast ones by
\* original sender and broadcaster, Round 2 Packages by sender.
IsDKGSessionState(st) ==
    /\ st = [tag |-> st.tag, round1 |-> st.round1,
             echoed |-> st.echoed, round2 |-> st.round2]
    /\ st.tag \in Tags
    /\ IsMap(st.round1, Participants, Round1Package)
    /\ IsMap(st.echoed, Participants \X Participants, Round1Package)
    /\ IsMap(st.round2, Participants, Round2Package)

EmptyMap == [x \in {} |-> x]

Default == [tag    |-> "WaitingForRound1Packages",
            round1 |-> EmptyMap, echoed |-> EmptyMap, round2 |-> EmptyMap]

\* BTreeMap::insert: adds the key or overwrites its value.
Insert(map, key, value) ==
    [k \in DOMAIN map \cup {key} |-> IF k = key THEN value ELSE map[k]]

-----------------------------------------------------------------------------
(* What a message meets in a state: "Ok", or why it ends the protocol.     *)

\* The type a message must have to parse in a state.
Expected(tag) ==
    CASE tag = "WaitingForRound1Packages"          -> "round1"
      [] tag = "WaitingForRound1PackagesBroadcast" -> "broadcast"
      [] tag = "WaitingForRound2Packages"          -> "round2"
      [] OTHER                                     -> "none"

\* handle_round1_package_broadcast, up to the insertion.
BroadcastResult(st, self, msg) ==
    IF msg.original \notin Participants THEN "unknown participant"
    ELSE IF msg.original = self THEN "received own broadcast"
    ELSE IF msg.original = msg.sender THEN "redundant broadcast"
    ELSE IF msg.original \notin DOMAIN st.round1 THEN "Round 1 Package not found"
    ELSE IF st.round1[msg.original] # msg.package THEN "broadcast mismatch"
    ELSE IF <<msg.original, msg.sender>> \in DOMAIN st.echoed THEN "duplicated broadcast"
    ELSE "Ok"

RecvResult(st, self, msg) ==
    IF Expected(st.tag) = "none" THEN "wrong state"
    ELSE IF msg.type # Expected(st.tag) THEN "parse error"
    ELSE IF msg.sender \notin Participants THEN "unknown participant"
    ELSE IF msg.type = "broadcast" THEN BroadcastResult(st, self, msg)
    ELSE IF msg.type = "round2" /\ msg.sender \notin DOMAIN st.round1
         THEN "unknown participant"
    ELSE "Ok"

-----------------------------------------------------------------------------
(* The state after a message that is "Ok".                                 *)

\* Mutant: the participant itself is taken to be among those who have sent their
\* packages, so one package too few is enough.
HandleRound1PackageEarly(st, msg) ==
    LET packages == Insert(st.round1, msg.sender, msg.package)
        complete == Cardinality(DOMAIN packages) + 1 = Cardinality(Participants) - 1
    IN  [tag    |-> IF ~complete THEN "WaitingForRound1Packages"
                    ELSE IF Cardinality(Participants) > 2
                    THEN "WaitingForRound1PackagesBroadcast"
                    ELSE "WaitingForRound2Packages",
         round1 |-> packages, echoed |-> EmptyMap, round2 |-> EmptyMap]

HandleRound1Package(st, msg) ==
    LET packages == Insert(st.round1, msg.sender, msg.package)
        complete == Cardinality(DOMAIN packages) = Cardinality(Participants) - 1
    IN  [tag    |-> IF ~complete THEN "WaitingForRound1Packages"
                    ELSE IF Cardinality(Participants) > 2
                    THEN "WaitingForRound1PackagesBroadcast"
                    ELSE "WaitingForRound2Packages",
         round1 |-> packages, echoed |-> EmptyMap, round2 |-> EmptyMap]

\* Every other participant's package was echoed by all the others but its
\* sender, and every echo equals the original.
EchoesComplete(round1, echoed) ==
    LET others == DOMAIN round1 IN
    /\ {k[1] : k \in DOMAIN echoed} = others
    /\ \A o \in others :
          /\ {k[2] : k \in {x \in DOMAIN echoed : x[1] = o}} \cup {o} = others
          /\ \A k \in DOMAIN echoed : k[1] = o => echoed[k] = round1[o]

HandleRound1PackageBroadcast(st, msg) ==
    LET echoes == Insert(st.echoed, <<msg.original, msg.sender>>, msg.package)
        done   == EchoesComplete(st.round1, echoes)
    IN  [tag    |-> IF done THEN "WaitingForRound2Packages"
                    ELSE "WaitingForRound1PackagesBroadcast",
         round1 |-> st.round1,
         echoed |-> IF done THEN EmptyMap ELSE echoes,
         round2 |-> EmptyMap]

HandleRound2Package(st, msg) ==
    LET packages == Insert(st.round2, msg.sender, msg.package)
        complete == DOMAIN packages = DOMAIN st.round1
    IN  [tag    |-> IF complete THEN "Round2PackagesReady"
                    ELSE "WaitingForRound2Packages",
         round1 |-> IF complete THEN EmptyMap ELSE st.round1,
         echoed |-> EmptyMap,
         round2 |-> packages]

Recv(st, msg) ==
    CASE msg.type = "round1"    -> HandleRound1Package(st, msg)
      [] msg.type = "broadcast" -> HandleRound1PackageBroadcast(st, msg)
      [] msg.type = "round2"    -> HandleRound2Package(st, msg)

-----------------------------------------------------------------------------

HasRound1Packages(st) ==
    st.tag \in {"WaitingForRound1PackagesBroadcast", "WaitingForRound2Packages"}

HasRound1BroadcastPackages(st) == st.tag = "WaitingForRound2Packages"

HasRound2Packages(st) == st.tag = "Round2PackagesReady"

=============================================================================
