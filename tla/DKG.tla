-------------------------------- MODULE DKG ---------------------------------
(***************************************************************************)
(* Distributed key generation over the frostd server: the participants run *)
(* `frost-client dkg' (frost-client/src/dkg/cli.rs, dkg/comms/http.rs) and *)
(* talk through one session of the server.                                 *)
(*                                                                         *)
(* The calls with which a participant enters (login, create or list and    *)
(* get the session) are one step, and from there on every HTTP call is a   *)
(* step; what a participant does between two calls is not observable,      *)
(* except that the messages of one receive are handled one by one, which   *)
(* is a step per message.  The session is what FrostdSessions shows of it: *)
(* a FIFO queue per participant, emptied by each receive and dropped when  *)
(* the coordinator closes the session.  A call of a client whose token has *)
(* expired, or to a closed session, returns an error, and every error ends *)
(* the run through cleanup_on_error.                                       *)
(*                                                                         *)
(* The messages are encrypted pairwise; queues are FIFO, so decryption     *)
(* succeeds and is left out.                                               *)
(***************************************************************************)
EXTENDS DKGSession, Sequences, Functions

CONSTANTS
    Creator,         \* the participant who creates the session
    OwnVersion,      \* the version of a participant's own Round 1 Package
    Inconsistent,    \* participants who may send different Round 1 Packages
                     \* to different peers, which echo broadcast is to detect
    ExpiringTokens,  \* participants whose access token may expire in the run
    MaxFaults        \* bound on lost connections and crashes

ASSUME CreatorAssumption == Creator \in Participants
ASSUME SizeAssumption == IsFiniteSet(Participants) /\ Cardinality(Participants) >= 2
ASSUME VersionAssumption == OwnVersion \in Versions
ASSUME RolesAssumption ==
    /\ Inconsistent \subseteq Participants
    /\ ExpiringTokens \subseteq Participants
    /\ MaxFaults \in Nat

VARIABLES
    session,         \* the server's session: "none", "open" or "closed"
    queue,           \* the server's queue for each participant
    token,           \* whether the participant has a valid access token
    pc,              \* where the participant is in its run
    todo,            \* what the current send loop has left to send
    inbox,           \* messages of the last receive not yet handled
    state,           \* the participant's DKGSessionState
    round1_packages, \* what get_round1_packages returned, by participant
    why,             \* why the participant's run failed
    faults,          \* how many faults have happened
    collected,       \* history: the Round 1 Packages a participant had when
                     \* it first had those of all the others
    published        \* history: the versions of its packages that each
                     \* participant has sent

vars == <<session, queue, token, pc, todo, inbox, state, round1_packages,
          why, faults, collected, published>>

Waiting == {"wait1", "waitb", "wait2"}
Sending == {"send1", "sendb", "send2"}
Ended   == {"done", "failed"}
Running == Waiting \cup Sending \cup {"close", "logout"}
Stages  == {"start", "cleanup"} \cup Running \cup Ended

\* Why a run may end: what CallResult and RecvResult return, part3, and what
\* happens outside the protocol.
Reasons ==
    {"", "Unauthorized", "SessionNotFound", "part3", "fault", "crash",
     "wrong state", "parse error", "unknown participant", "received own broadcast",
     "redundant broadcast", "Round 1 Package not found", "broadcast mismatch",
     "duplicated broadcast"}

Others(p) == Participants \ {p}

\* What the state of p holds at its stage.  The code counts packages and does not
\* look whose they are: those counted are of all the others, none of its own.
StageFits(p) ==
    LET st == state[p] IN
    /\ st.tag = "WaitingForRound1Packages" =>
          /\ DOMAIN st.round1 \subseteq Others(p) /\ DOMAIN st.round1 # Others(p)
          /\ st.echoed = EmptyMap
    /\ st.tag = "WaitingForRound1PackagesBroadcast" =>
          /\ Cardinality(Participants) > 2
          /\ DOMAIN st.round1 = Others(p)
          /\ \A k \in DOMAIN st.echoed :
                k \in Others(p) \X Others(p) /\ k[1] # k[2]
    /\ st.tag = "WaitingForRound2Packages" =>
          DOMAIN st.round1 = Others(p) /\ DOMAIN st.round2 \subseteq Others(p)
    /\ st.tag = "Round2PackagesReady" => DOMAIN st.round2 = Others(p)

TypeOK ==
    /\ session \in {"none", "open", "closed"}
    /\ queue \in [Participants -> Seq(Message)]
    /\ token \in [Participants -> BOOLEAN]
    /\ pc \in [Participants -> Stages]
    /\ todo \in [Participants -> SUBSET (Participants \X Participants)]
    /\ inbox \in [Participants -> Seq(Message)]
    /\ DOMAIN state = Participants
    /\ DOMAIN round1_packages = Participants
    /\ DOMAIN collected = Participants
    /\ \A p \in Participants :
          /\ IsDKGSessionState(state[p]) /\ StageFits(p)
          /\ IsMap(round1_packages[p], Participants, Round1Package)
          /\ IsMap(collected[p], Participants, Round1Package)
    /\ why \in [Participants -> Reasons]
    /\ faults \in 0..MaxFaults
    /\ published \in [Participants -> SUBSET Versions]

Init ==
    /\ session = "none"
    /\ queue = [p \in Participants |-> <<>>]
    /\ token = [p \in Participants |-> FALSE]
    /\ pc = [p \in Participants |-> "start"]
    /\ todo = [p \in Participants |-> {}]
    /\ inbox = [p \in Participants |-> <<>>]
    /\ state = [p \in Participants |-> Default]
    /\ round1_packages = [p \in Participants |-> EmptyMap]
    /\ why = [p \in Participants |-> ""]
    /\ faults = 0
    /\ collected = [p \in Participants |-> EmptyMap]
    /\ published = [p \in Participants |-> {}]

-----------------------------------------------------------------------------
(* get_identifier_and_max_signers.                                         *)

\* What the send loop of a round has to send: <<recipient, subject>>.  In the
\* rounds 1 and 2 the subject is the sender itself; in the echo broadcast it
\* is whose package is passed on (never back to whom it came from).
ToAll(p) == Others(p) \X {p}

\* Mutant: packages are also passed back to whom they came from.
ToEchoAll(p) == Others(p) \X Others(p)

ToEcho(p) == {e \in Others(p) \X Others(p) : e[1] # e[2]}

Enter(p) ==
    /\ token' = [token EXCEPT ![p] = TRUE]
    /\ pc' = [pc EXCEPT ![p] = "send1"]
    /\ todo' = [todo EXCEPT ![p] = ToAll(p)]
    /\ UNCHANGED <<queue, inbox, state, round1_packages,
                   why, faults, collected, published>>

Create(p) ==
    /\ p = Creator
    /\ pc[p] = "start"
    /\ session = "none"
    /\ session' = "open"
    /\ Enter(p)

Join(p) ==
    /\ p # Creator
    /\ pc[p] = "start"
    /\ session = "open"
    /\ UNCHANGED session
    /\ Enter(p)

\* A participant who finds no session stops with an error before anything of
\* the run is changed, and may be started again.
JoinFails(p) ==
    /\ p # Creator
    /\ pc[p] = "start"
    /\ session # "open"
    /\ UNCHANGED vars

-----------------------------------------------------------------------------
(* Calls that fail, and cleanup_on_error.                                  *)

\* Mutant: an expired token is not noticed.
CallResultAnyToken(p) == IF session # "open" THEN "SessionNotFound" ELSE "Ok"

\* Mutant: a closed session is polled like an empty one.
CallResultAnySession(p) == IF ~token[p] THEN "Unauthorized" ELSE "Ok"

CallResult(p) ==
    IF ~token[p] THEN "Unauthorized"
    ELSE IF session # "open" THEN "SessionNotFound" ELSE "Ok"

Abort(p, reason) ==
    /\ pc' = [pc EXCEPT ![p] = "cleanup"]
    /\ why' = [why EXCEPT ![p] = reason]
    /\ inbox' = [inbox EXCEPT ![p] = <<>>]
    /\ todo' = [todo EXCEPT ![p] = {}]
    /\ UNCHANGED <<session, queue, token, state, round1_packages,
                   faults, collected, published>>

\* The next call of p returns an error.
CallFails(p) ==
    /\ pc[p] \in Sending \cup {"close"} \/ (pc[p] \in Waiting /\ inbox[p] = <<>>)
    /\ CallResult(p) # "Ok"
    /\ Abort(p, CallResult(p))

\* close_session: only the coordinator's call closes the session; the answer
\* to cleanup_on_error is ignored.
Cleanup(p) ==
    /\ pc[p] = "cleanup"
    /\ session' = IF CallResult(p) = "Ok" /\ p = Creator THEN "closed" ELSE session
    /\ queue' = IF session' = "closed" THEN [q \in Participants |-> <<>>] ELSE queue
    /\ pc' = [pc EXCEPT ![p] = "failed"]
    /\ UNCHANGED <<token, todo, inbox, state, round1_packages,
                   why, faults, collected, published>>

-----------------------------------------------------------------------------
(* The send loops.                                                         *)

\* Mutant: a Round 2 Package is made out to its sender.
OutgoingMisaddressed(p, recipient, subject, version) ==
    CASE pc[p] = "send1" ->
            [type |-> "round1", sender |-> p,
             package |-> [from |-> p, version |-> version]]
      [] pc[p] = "sendb" ->
            [type |-> "broadcast", sender |-> p, original |-> subject,
             package |-> state[p].round1[subject]]
      [] pc[p] = "send2" ->
            [type |-> "round2", sender |-> p,
             package |-> [from |-> p, version |-> version, to |-> subject]]

\* The message for one entry of todo.  A participant in Inconsistent may put
\* any version of its own packages into it.
Outgoing(p, recipient, subject, version) ==
    CASE pc[p] = "send1" ->
            [type |-> "round1", sender |-> p,
             package |-> [from |-> p, version |-> version]]
      [] pc[p] = "sendb" ->
            [type |-> "broadcast", sender |-> p, original |-> subject,
             package |-> state[p].round1[subject]]
      [] pc[p] = "send2" ->
            [type |-> "round2", sender |-> p,
             package |-> [from |-> p, version |-> version, to |-> recipient]]

NextStage(stage) ==
    CASE stage = "send1" -> "wait1"
      [] stage = "sendb" -> "waitb"
      [] stage = "send2" -> "wait2"

\* One send call; the maps the loops run over are unordered.
SendOne(p, recipient, subject, version) ==
    /\ pc[p] \in Sending
    /\ <<recipient, subject>> \in todo[p]
    /\ version = OwnVersion \/ p \in Inconsistent
    /\ CallResult(p) = "Ok"
    /\ queue' = [queue EXCEPT ![recipient] =
         Append(@, Outgoing(p, recipient, subject, version))]
    /\ todo' = [todo EXCEPT ![p] = @ \ {<<recipient, subject>>}]
    /\ pc' = [pc EXCEPT ![p] =
         IF todo[p] = {<<recipient, subject>>} THEN NextStage(@) ELSE @]
    /\ published' = [published EXCEPT ![p] =
         IF pc[p] = "sendb" THEN @ ELSE @ \cup {version}]
    /\ UNCHANGED <<session, token, inbox, state, round1_packages, why, faults, collected>>

-----------------------------------------------------------------------------
(* The receive loops.                                                      *)

\* One receive call.  If it returns no messages the loop goes round again.
Receive(p) ==
    /\ pc[p] \in Waiting
    /\ inbox[p] = <<>>
    /\ CallResult(p) = "Ok"
    /\ inbox' = [inbox EXCEPT ![p] = queue[p]]
    /\ queue' = [queue EXCEPT ![p] = <<>>]
    /\ UNCHANGED <<session, token, pc, todo, state, round1_packages,
                   why, faults, collected, published>>

\* Mutant: nobody echoes.
AfterBatchWithoutEcho(p, st) ==
    CASE pc[p] = "wait1" /\ HasRound1Packages(st) -> "send2"
      [] pc[p] = "wait2" /\ HasRound2Packages(st) ->
            IF p = Creator THEN "close" ELSE "logout"
      [] OTHER -> pc[p]

\* Where the loop of p goes when the last message of a receive is handled and
\* leaves state st.
AfterBatch(p, st) ==
    CASE pc[p] = "wait1" /\ HasRound1Packages(st) ->
            IF HasRound1BroadcastPackages(st) THEN "send2" ELSE "sendb"
      [] pc[p] = "waitb" /\ HasRound1BroadcastPackages(st) -> "send2"
      [] pc[p] = "wait2" /\ HasRound2Packages(st) ->
            IF p = Creator THEN "close" ELSE "logout"
      [] OTHER -> pc[p]

\* One message of the last receive is handled; after the last one the loop
\* condition is evaluated.
HandleOne(p) ==
    LET msg == Head(inbox[p])
        st  == Recv(state[p], msg)
        to  == IF Len(inbox[p]) = 1 THEN AfterBatch(p, st) ELSE pc[p]
    IN
    /\ pc[p] \in Waiting
    /\ inbox[p] # <<>>
    /\ RecvResult(state[p], p, msg) = "Ok"
    /\ inbox' = [inbox EXCEPT ![p] = Tail(@)]
    /\ state' = [state EXCEPT ![p] = st]
    /\ pc' = [pc EXCEPT ![p] = to]
    /\ todo' = [todo EXCEPT ![p] =
         IF to = "sendb" THEN ToEcho(p) ELSE IF to = "send2" THEN ToAll(p) ELSE {}]
    /\ round1_packages' = [round1_packages EXCEPT ![p] =
         IF to = "send2" THEN st.round1 ELSE @]
    /\ collected' = [collected EXCEPT ![p] =
         IF /\ state[p].tag = "WaitingForRound1Packages"
            /\ st.tag # "WaitingForRound1Packages"
         THEN st.round1 ELSE @]
    /\ UNCHANGED <<session, queue, token, why, faults, published>>

HandleFails(p) ==
    /\ pc[p] \in Waiting
    /\ inbox[p] # <<>>
    /\ RecvResult(state[p], p, Head(inbox[p])) # "Ok"
    /\ Abort(p, RecvResult(state[p], p, Head(inbox[p])))

-----------------------------------------------------------------------------
(* The end of get_round2_packages, and part3.                              *)

\* The creator's close_session.
Close(p) ==
    /\ pc[p] = "close"
    /\ CallResult(p) = "Ok"
    /\ session' = "closed"
    /\ queue' = [q \in Participants |-> <<>>]
    /\ pc' = [pc EXCEPT ![p] = "logout"]
    /\ UNCHANGED <<token, todo, inbox, state, round1_packages,
                   why, faults, collected, published>>

\* frost_core's dkg::part3: every share must fit the Round 1 Package of its
\* sender.
Part3Ok(p) ==
    \A q \in Others(p) :
        state[p].round2[q].version = round1_packages[p][q].version

\* logout, which needs a token and no session; then part3 and the result.
\* After the logout cleanup_on_error has no token to close the session with.
LogoutAndFinish(p) ==
    /\ pc[p] = "logout"
    /\ token' = [token EXCEPT ![p] = FALSE]
    /\ LET result == IF ~token[p] THEN "Unauthorized"
                     ELSE IF ~Part3Ok(p) THEN "part3" ELSE "Ok"
       IN /\ pc' = [pc EXCEPT ![p] = IF result = "Ok" THEN "done" ELSE "failed"]
          /\ why' = [why EXCEPT ![p] = IF result = "Ok" THEN @ ELSE result]
    /\ UNCHANGED <<session, queue, todo, inbox, state, round1_packages,
                   faults, collected, published>>

-----------------------------------------------------------------------------
(* What can go wrong outside the protocol.                                 *)

\* The access token reaches the end of its hour.
TokenExpires(p) ==
    /\ p \in ExpiringTokens
    /\ pc[p] \in Running
    /\ token[p]
    /\ token' = [token EXCEPT ![p] = FALSE]
    /\ UNCHANGED <<session, queue, pc, todo, inbox, state, round1_packages,
                   why, faults, collected, published>>

\* A call fails for a reason of its own (connection lost, peer missing from
\* the address book): the run ends through cleanup_on_error.
Fault(p) ==
    /\ pc[p] \in Running
    /\ faults < MaxFaults
    /\ faults' = faults + 1
    /\ pc' = [pc EXCEPT ![p] = "cleanup"]
    /\ why' = [why EXCEPT ![p] = "fault"]
    /\ inbox' = [inbox EXCEPT ![p] = <<>>]
    /\ todo' = [todo EXCEPT ![p] = {}]
    /\ UNCHANGED <<session, queue, token, state, round1_packages,
                   collected, published>>

\* The process dies, or its cleanup call is lost: nothing is cleaned up.
Crash(p) ==
    /\ pc[p] \in Running \cup {"cleanup"}
    /\ faults < MaxFaults
    /\ faults' = faults + 1
    /\ pc' = [pc EXCEPT ![p] = "failed"]
    /\ why' = [why EXCEPT ![p] = "crash"]
    /\ inbox' = [inbox EXCEPT ![p] = <<>>]
    /\ todo' = [todo EXCEPT ![p] = {}]
    /\ UNCHANGED <<session, queue, token, state, round1_packages,
                   collected, published>>

-----------------------------------------------------------------------------

Send(p) ==
    \E r \in Others(p), s \in Participants, v \in Versions : SendOne(p, r, s, v)

\* The steps p's process takes by itself once it runs.
Step(p) ==
    \/ Send(p)
    \/ Receive(p)
    \/ HandleOne(p)
    \/ HandleFails(p)
    \/ CallFails(p)
    \/ Cleanup(p)
    \/ Close(p)
    \/ LogoutAndFinish(p)

\* Every process has ended.
Finished ==
    /\ \A p \in Participants : pc[p] \in Ended
    /\ UNCHANGED vars

Next ==
    \/ \E p \in Participants :
          \/ Create(p) \/ Join(p) \/ JoinFails(p)
          \/ Step(p)
          \/ TokenExpires(p) \/ Fault(p) \/ Crash(p)
    \/ Finished

Spec == Init /\ [][Next]_vars

\* A running process goes on.
Fairness == \A p \in Participants : WF_vars(Step(p))

FairSpec == Spec /\ Fairness

-----------------------------------------------------------------------------
(* Properties.                                                             *)

Consistent == Participants \ Inconsistent

\* p has returned from get_round1_packages.
Validated(p) == round1_packages[p] # EmptyMap

\* The echo broadcast does what it is for: two participants who passed it hold
\* the same Round 1 Package of every third one, even of one that sent them
\* different ones, and hold each other's own packages.
EchoAgreement ==
    Cardinality(Participants) > 2 =>
        \A p, q \in Consistent : Validated(p) /\ Validated(q) /\ p # q =>
            /\ \A x \in Participants \ {p, q} :
                  round1_packages[p][x] = round1_packages[q][x]
            /\ round1_packages[p][q] = [from |-> q, version |-> OwnVersion]

\* Nobody has a key share before everybody has passed the echo broadcast (or,
\* with two participants, has the other's Round 1 Package), and the shares it
\* is made of were all sent to it and nobody else.
KeyOnlyAfterAllValidated ==
    \A p \in Participants : pc[p] = "done" =>
        \A q \in Others(p) :
            /\ Validated(q)
            /\ state[p].round2[q].from = q
            /\ state[p].round2[q].to = p

\* q has finished a round in which p still waits.
Ahead(q, p) ==
    \/ collected[p] = EmptyMap /\ collected[q] # EmptyMap
    \/ ~Validated(p) /\ Validated(q)

\* Nobody is accused without cause, and no run ends without one: packages that
\* differ, are repeated or do not fit mean that somebody really sent packages
\* that differ, a closed session that its creator has finished or failed, and
\* a message that does not parse that some other participant is a round ahead,
\* which takes a third one; whatever the order in which messages arrive.
NoFalseAccusation ==
    \A p \in Participants :
        \/ why[p] \in {"", "Unauthorized", "fault", "crash"}
        \/ why[p] = "SessionNotFound" /\ pc[Creator] \in {"logout", "cleanup"} \cup Ended
        \/ /\ why[p] = "parse error"
           /\ Cardinality(Participants) > 2
           /\ \E q \in Others(p) : Ahead(q, p)
        \/ \E q \in Inconsistent : Cardinality(published[q]) > 1

\* Nobody runs longer than its access token: a participant whose peers have
\* gone, or who missed what it waits for, polls until the server refuses its
\* token (which the server does in the end: TokensExpire, FrostdAuth).
RunsEndWithToken ==
    \A p \in Participants :
        (pc[p] # "start" /\ ~token[p]) ~> (pc[p] \in Ended)

\* The creator's close stops everybody who has entered the session, without
\* waiting for tokens to expire.
ClosedSessionStopsAll ==
    (session = "closed") ~> (\A p \in Participants : pc[p] \in Ended \cup {"start"})

-----------------------------------------------------------------------------
(* What the comments of the code say, and the code does not do.            *)

\* "Returns if all participants sent their Round 1 Packages" (session.rs,
\* has_round1_packages): the loop that waits for them ends once it has them.
Round1LoopSeesPackages ==
    \A p \in Participants :
        /\ pc[p] = "wait1"
        /\ inbox[p] = <<>>
        /\ state[p].tag # "WaitingForRound1Packages"
        => HasRound1Packages(state[p])

=============================================================================
