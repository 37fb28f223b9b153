--------------------------- MODULE FrostdSessions ---------------------------
(***************************************************************************)
(* The session store of the frostd server: the sessions with their message *)
(* queues, the index of sessions by public key, and the task that removes  *)
(* timed-out sessions (frostd/src/state.rs, frostd/src/functions.rs).      *)
(*                                                                         *)
(* Every handler holds the lock on `sessions' (and, after it, the one on   *)
(* `sessions_by_pubkey') for its whole body, so a handler is one action.   *)
(* The expiry task is the exception: it takes a session out of `sessions', *)
(* releases that lock, and only then takes the lock on the index, so it is *)
(* two actions with `expiring' between them.                               *)
(*                                                                         *)
(* The caller of a handler is the parameter `user', the public key that    *)
(* the User extractor found for the request's token.  Here any user may    *)
(* call at any time; module Frostd adds the authentication in front.       *)
(***************************************************************************)
EXTENDS Naturals, FiniteSets, Sequences, SequencesExt

CONSTANTS
    PublicKeys,      \* communication public keys
    Coordinator,     \* the queue slot SessionParticipant::Coordinator
    SessionIds,      \* session Uuids
    MessageCounts,   \* values of the message_count argument (u8)
    Messages,        \* payloads of send
    Oversized,       \* the payloads longer than MAX_MSG_SIZE
    SESSION_TIMEOUT, \* in ticks of the clock
    MaxRecipients,   \* bound on the length of a recipients argument
    MaxSends         \* bound on the messages ever accepted for one queue

ASSUME SlotAssumption == Coordinator \notin PublicKeys
ASSUME CountAssumption == MessageCounts \subseteq 0..255
ASSUME OversizedAssumption == Oversized \subseteq Messages
ASSUME TimeoutAssumption == SESSION_TIMEOUT \in Nat \ {0}
ASSUME BoundAssumption == MaxRecipients \in Nat /\ MaxSends \in Nat

VARIABLES
    sessions,           \* the live sessions, by id
    sessions_by_pubkey, \* the ids listed for each public key
    expiring,           \* ids taken out of sessions by the expiry task, whose
                        \* index entries it has not yet removed
    \* History, which no guard but the freshness of ids reads:
    created,            \* id -> participants and coordinator it was created with
    timed_out,          \* the ids of the sessions that ended by timeout
    sent,               \* per id and queue: every message accepted, in order
    received,           \* per id and queue: every message handed out, in order
    idle                \* per id: ticks since creation or the last traffic

vars == <<sessions, sessions_by_pubkey, expiring,
          created, timed_out, sent, received, idle>>

\* SessionParticipant: the coordinator's queue or a participant's.
SessionParticipant == PublicKeys \cup {Coordinator}

Msg == [sender : PublicKeys, msg : Messages]

Session == [pubkeys            : SUBSET PublicKeys,
            coordinator_pubkey : PublicKeys,
            message_count      : 1..255,
            queue              : [SessionParticipant -> Seq(Msg)],
            ttl                : 0..SESSION_TIMEOUT]

Recipients == BoundedSeq(PublicKeys, MaxRecipients)

NoMessages == [s \in SessionParticipant |-> <<>>]

\* Everyone a session concerns: its participants and its coordinator.
Members(c) == c.pubkeys \cup {c.coordinator_pubkey}

TypeOK ==
    /\ DOMAIN sessions \subseteq SessionIds
    /\ sessions \in [DOMAIN sessions -> Session]
    /\ sessions_by_pubkey \in [PublicKeys -> SUBSET SessionIds]
    /\ expiring \subseteq SessionIds
    /\ DOMAIN created \subseteq SessionIds
    /\ created \in [DOMAIN created ->
            [pubkeys : SUBSET PublicKeys, coordinator_pubkey : PublicKeys]]
    /\ timed_out \subseteq SessionIds
    /\ sent \in [SessionIds -> [SessionParticipant -> Seq(Msg)]]
    /\ received \in [SessionIds -> [SessionParticipant -> Seq(Msg)]]
    /\ idle \in [SessionIds -> 0..SESSION_TIMEOUT]

Init ==
    /\ sessions = [id \in {} |-> {}]
    /\ sessions_by_pubkey = [pk \in PublicKeys |-> {}]
    /\ expiring = {}
    /\ created = [id \in {} |-> {}]
    /\ timed_out = {}
    /\ sent = [id \in SessionIds |-> NoMessages]
    /\ received = [id \in SessionIds |-> NoMessages]
    /\ idle = [id \in SessionIds |-> 0]

-----------------------------------------------------------------------------
(* The outcome of each handler, in the order in which the code checks.     *)

\* Mutant: the check of message_count is forgotten.
CreateNewSessionUnchecked(user, pubkeys, message_count) == "Ok"

CreateNewSessionResult(user, pubkeys, message_count) ==
    IF message_count = 0 THEN "InvalidArgument" ELSE "Ok"

GetSessionInfoResult(user, id) ==
    IF \/ id \notin sessions_by_pubkey[user]
       \/ id \notin DOMAIN sessions
    THEN "SessionNotFound" ELSE "Ok"

\* A participant of the session, or its coordinator, who need not be one.
InSession(user, id) ==
    \/ user \in sessions[id].pubkeys
    \/ user = sessions[id].coordinator_pubkey

\* Mutant: anyone may send, and to anyone.
SendResultUnchecked(user, id, recipients, msg) ==
    IF msg \in Oversized THEN "InvalidArgument"
    ELSE IF id \notin DOMAIN sessions THEN "SessionNotFound" ELSE "Ok"

SendResult(user, id, recipients, msg) ==
    IF msg \in Oversized THEN "InvalidArgument"
    ELSE IF id \notin DOMAIN sessions THEN "SessionNotFound"
    ELSE IF \/ ~InSession(user, id)
            \/ ~(Range(recipients) \subseteq sessions[id].pubkeys)
         THEN "NotInSession" ELSE "Ok"

ReceiveResult(user, id) ==
    IF id \notin DOMAIN sessions THEN "SessionNotFound"
    ELSE IF ~InSession(user, id) THEN "NotInSession" ELSE "Ok"

\* Mutant: any member may close.
CloseSessionByAnyMember(user, id) ==
    IF \/ id \notin sessions_by_pubkey[user]
       \/ id \notin DOMAIN sessions
    THEN "SessionNotFound" ELSE "Ok"

CloseSessionResult(user, id) ==
    IF \/ id \notin sessions_by_pubkey[user]
       \/ id \notin DOMAIN sessions
    THEN "SessionNotFound"
    ELSE IF sessions[id].coordinator_pubkey # user THEN "NotCoordinator"
    ELSE "Ok"

-----------------------------------------------------------------------------
(* The handlers that change the store.                                     *)

CreateNewSession(user, pubkeys, message_count, id) ==
    /\ CreateNewSessionResult(user, pubkeys, message_count) = "Ok"
    /\ id \notin DOMAIN created        \* Uuid::new_v4 never repeats
    /\ sessions_by_pubkey' =
         [pk \in PublicKeys |-> IF pk \in pubkeys \cup {user}
                                THEN sessions_by_pubkey[pk] \cup {id}
                                ELSE sessions_by_pubkey[pk]]
    /\ sessions' = [i \in DOMAIN sessions \cup {id} |->
         IF i = id THEN [pubkeys            |-> pubkeys,
                         coordinator_pubkey |-> user,
                         message_count      |-> message_count,
                         queue              |-> NoMessages,
                         ttl                |-> SESSION_TIMEOUT]
         ELSE sessions[i]]
    /\ created' = [i \in DOMAIN created \cup {id} |->
         IF i = id THEN [pubkeys |-> pubkeys, coordinator_pubkey |-> user]
         ELSE created[i]]
    /\ idle' = [idle EXCEPT ![id] = 0]
    /\ UNCHANGED <<expiring, timed_out, sent, received>>

\* Mutant: update_timeout is forgotten.
UpdatedWithoutRenewal(id, queue, ttl) ==
    [sessions[id] EXCEPT !.queue = queue,
                         !.ttl = IF ttl = SESSION_TIMEOUT THEN @ ELSE ttl]

\* Session id with new queues and a new timeout; the rest never changes.
Updated(id, queue, ttl) ==
    [pubkeys            |-> sessions[id].pubkeys,
     coordinator_pubkey |-> sessions[id].coordinator_pubkey,
     message_count      |-> sessions[id].message_count,
     queue              |-> queue,
     ttl                |-> ttl]

\* An empty list of recipients addresses the coordinator.
Slots(recipients) ==
    IF recipients = <<>> THEN <<Coordinator>> ELSE recipients

\* What one send appends to queue s: a copy for every time it is addressed.
Copies(recipients, s, m) ==
    [i \in 1..Cardinality({j \in DOMAIN Slots(recipients) :
                              Slots(recipients)[j] = s}) |-> m]

Send(user, id, recipients, msg) ==
    LET new(s) == Copies(recipients, s, [sender |-> user, msg |-> msg])
    IN
    /\ SendResult(user, id, recipients, msg) = "Ok"
    /\ \A s \in SessionParticipant :
           Len(sent[id][s]) + Len(new(s)) <= MaxSends
    /\ sessions' = [sessions EXCEPT ![id] = Updated(id,
         [s \in SessionParticipant |-> sessions[id].queue[s] \o new(s)],
         SESSION_TIMEOUT)]
    /\ sent' = [sent EXCEPT
         ![id] = [s \in SessionParticipant |-> sent[id][s] \o new(s)]]
    /\ idle' = [idle EXCEPT ![id] = 0]
    /\ UNCHANGED <<sessions_by_pubkey, expiring, created, timed_out, received>>

\* Mutant: whoever says so is the coordinator.
ReceiveSlotUnchecked(user, id, as_coordinator) ==
    IF as_coordinator THEN Coordinator ELSE user

\* The queue a receive call reads.
ReceiveSlot(user, id, as_coordinator) ==
    IF user = sessions[id].coordinator_pubkey /\ as_coordinator
    THEN Coordinator ELSE user

\* Mutant: the messages are copied, not drained.
ReceiveWithoutDrain(user, id, as_coordinator) ==
    LET s == ReceiveSlot(user, id, as_coordinator) IN
    /\ ReceiveResult(user, id) = "Ok"
    /\ Len(received[id][s]) < MaxSends
    /\ received' = [received EXCEPT ![id][s] = @ \o sessions[id].queue[s]]
    /\ UNCHANGED <<sessions, sessions_by_pubkey, expiring, created, timed_out,
                   sent, idle>>

\* Mutant: the timeout is renewed by every call.
ReceiveAlwaysRenews(user, id, as_coordinator) ==
    LET s == ReceiveSlot(user, id, as_coordinator) IN
    /\ ReceiveResult(user, id) = "Ok"
    /\ sessions' = [sessions EXCEPT ![id].queue[s] = <<>>,
                                    ![id].ttl = SESSION_TIMEOUT]
    /\ received' = [received EXCEPT ![id][s] = @ \o sessions[id].queue[s]]
    /\ idle' = [idle EXCEPT ![id] = 0]
    /\ UNCHANGED <<sessions_by_pubkey, expiring, created, timed_out, sent>>

\* Empties the queue; the timeout is renewed only if something was there.
Receive(user, id, as_coordinator) ==
    LET s    == ReceiveSlot(user, id, as_coordinator)
        msgs == sessions[id].queue[s]
    IN
    /\ ReceiveResult(user, id) = "Ok"
    /\ sessions' = [sessions EXCEPT ![id] = Updated(id,
         [sessions[id].queue EXCEPT ![s] = <<>>],
         IF msgs # <<>> THEN SESSION_TIMEOUT ELSE sessions[id].ttl)]
    /\ received' = [received EXCEPT
         ![id] = [received[id] EXCEPT ![s] = received[id][s] \o msgs]]
    /\ idle' = [idle EXCEPT ![id] = IF msgs # <<>> THEN 0 ELSE @]
    /\ UNCHANGED <<sessions_by_pubkey, expiring, created, timed_out, sent>>

\* Mutant: the session itself is not removed.
CloseSessionUnlistsOnly(user, id) ==
    /\ CloseSessionResult(user, id) = "Ok"
    /\ sessions_by_pubkey' = [pk \in PublicKeys |-> sessions_by_pubkey[pk] \ {id}]
    /\ UNCHANGED <<sessions, expiring, created, timed_out, sent, received, idle>>

\* Mutant: the session is not unlisted.
CloseSessionKeepsEntries(user, id) ==
    /\ CloseSessionResult(user, id) = "Ok"
    /\ sessions' = [i \in DOMAIN sessions \ {id} |-> sessions[i]]
    /\ UNCHANGED <<sessions_by_pubkey, expiring, created, timed_out,
                   sent, received, idle>>

\* Queued messages go with the session.
CloseSession(user, id) ==
    /\ CloseSessionResult(user, id) = "Ok"
    /\ sessions_by_pubkey' =
         [pk \in PublicKeys |-> IF pk \in sessions[id].pubkeys \cup {user}
                                THEN sessions_by_pubkey[pk] \ {id}
                                ELSE sessions_by_pubkey[pk]]
    /\ sessions' = [i \in DOMAIN sessions \ {id} |-> sessions[i]]
    /\ UNCHANGED <<expiring, created, timed_out, sent, received, idle>>

-----------------------------------------------------------------------------
(* The read-only handlers and the requests that are refused.               *)

ListSessions(user) == UNCHANGED vars

GetSessionInfo(user, id) ==
    /\ GetSessionInfoResult(user, id) = "Ok"
    /\ UNCHANGED vars

Refused(user) ==
    /\ \/ \E pks \in SUBSET PublicKeys, n \in MessageCounts :
             CreateNewSessionResult(user, pks, n) # "Ok"
       \/ \E id \in SessionIds :
             \/ GetSessionInfoResult(user, id) # "Ok"
             \/ ReceiveResult(user, id) # "Ok"
             \/ CloseSessionResult(user, id) # "Ok"
             \/ \E rs \in Recipients, m \in Messages :
                   SendResult(user, id, rs, m) # "Ok"
    /\ UNCHANGED vars

\* One request of `user' to the session store, whatever it asks for.
Request(user) ==
    \/ \E pks \in SUBSET PublicKeys, n \in MessageCounts, id \in SessionIds :
          CreateNewSession(user, pks, n, id)
    \/ \E id \in SessionIds, rs \in Recipients, m \in Messages :
          Send(user, id, rs, m)
    \/ \E id \in SessionIds, as_coordinator \in BOOLEAN :
          Receive(user, id, as_coordinator)
    \/ \E id \in SessionIds : CloseSession(user, id)
    \/ ListSessions(user)
    \/ \E id \in SessionIds : GetSessionInfo(user, id)
    \/ Refused(user)

-----------------------------------------------------------------------------
(* Time and the expiry task.                                               *)

\* One tick of the clock behind the delay map; a session whose time is up
\* stays usable until the expiry task polls the map.
Tick ==
    /\ \E id \in DOMAIN sessions : sessions[id].ttl > 0
    /\ sessions' = [id \in DOMAIN sessions |->
         Updated(id, sessions[id].queue,
                 IF sessions[id].ttl = 0 THEN 0 ELSE sessions[id].ttl - 1)]
    /\ idle' = [id \in SessionIds |->
         IF id \in DOMAIN sessions /\ idle[id] < SESSION_TIMEOUT
         THEN idle[id] + 1 ELSE idle[id]]
    /\ UNCHANGED <<sessions_by_pubkey, expiring, created, timed_out,
                   sent, received>>

\* The poll that yields a timed-out session: it leaves `sessions'.
ExpireSession(id) ==
    /\ expiring = {}                   \* the task handles one at a time
    /\ id \in DOMAIN sessions
    /\ sessions[id].ttl = 0
    /\ sessions' = [i \in DOMAIN sessions \ {id} |-> sessions[i]]
    /\ expiring' = {id}
    /\ timed_out' = timed_out \cup {id}
    /\ UNCHANGED <<sessions_by_pubkey, created, sent, received, idle>>

\* The body of the loop: the id leaves the lists of the participants (the
\* coordinator is not among session.pubkeys unless a participant too).
UnlistExpired(id) ==
    /\ id \in expiring
    /\ sessions_by_pubkey' =
         [pk \in PublicKeys |-> IF pk \in created[id].pubkeys
                                THEN sessions_by_pubkey[pk] \ {id}
                                ELSE sessions_by_pubkey[pk]]
    /\ expiring' = expiring \ {id}
    /\ UNCHANGED <<sessions, created, timed_out, sent, received, idle>>

Expiry == \E id \in SessionIds : ExpireSession(id) \/ UnlistExpired(id)

Next ==
    \/ \E user \in PublicKeys : Request(user)
    \/ Tick
    \/ Expiry

Spec == Init /\ [][Next]_vars

\* The clock advances and the expiry task, which loops forever, keeps polling.
Fairness == WF_vars(Tick) /\ WF_vars(Expiry)

FairSpec == Spec /\ Fairness

-----------------------------------------------------------------------------
(* Properties.                                                             *)

\* Every live session is listed for all its participants and its coordinator:
\* create_new_session and close_session update the two maps together, and the
\* expiry task, which does not, never unlists a session that is still there.
LiveSessionsListed ==
    \A id \in DOMAIN sessions :
        \A pk \in Members(sessions[id]) : id \in sessions_by_pubkey[pk]

\* An id listed for a key that no longer names a live session of that key is
\* one the expiry task is working on, or the entry of a coordinator who is not
\* a participant, which the expiry task never removes.
StaleEntriesExplained ==
    \A pk \in PublicKeys : \A id \in sessions_by_pubkey[pk] :
        /\ id \in DOMAIN created
        /\ pk \in Members(created[id])
        /\ \/ id \in DOMAIN sessions
           \/ id \in expiring
           \/ /\ id \in timed_out
              /\ pk = created[id].coordinator_pubkey
              /\ pk \notin created[id].pubkeys

\* What the queues hold is what send may put there: nothing is queued for a
\* key outside the session, every sender is a member, no payload is oversized.
QueuesBelong ==
    \A id \in DOMAIN sessions : \A s \in SessionParticipant :
        /\ s \notin sessions[id].pubkeys \cup {Coordinator} =>
              sessions[id].queue[s] = <<>>
        /\ \A i \in DOMAIN sessions[id].queue[s] :
              /\ sessions[id].queue[s][i].sender \in Members(sessions[id])
              /\ sessions[id].queue[s][i].msg \notin Oversized

\* Each queue delivers what was accepted for it once and in order: what was
\* handed out followed by what is still queued is exactly what was accepted.
\* After the session has ended, what was handed out is a prefix of it.
ExactlyOnceInOrder ==
    \A id \in SessionIds : \A s \in SessionParticipant :
        IF id \in DOMAIN sessions
        THEN received[id][s] \o sessions[id].queue[s] = sent[id][s]
        ELSE IsPrefix(received[id][s], sent[id][s])

\* A session is closed by timeout only after SESSION_TIMEOUT without any
\* accepted send or non-empty receive.
NoEarlyExpiry ==
    [][\A id \in SessionIds :
          id \in timed_out' \ timed_out => idle[id] = SESSION_TIMEOUT]_vars

\* A session that sees no more traffic ends, however often its members poll
\* the empty queues ("If there are no new messages, we don't want to renew
\* the timeout", functions.rs), and is then unlisted for its participants.
AbandonedSessionsEnd ==
    \A id \in SessionIds :
        (<>[][sent'[id] = sent[id] /\ received'[id] = received[id]]_vars)
            => <>[](\/ id \notin DOMAIN created
                    \/ /\ id \notin DOMAIN sessions
                       /\ \A pk \in created[id].pubkeys :
                             id \notin sessions_by_pubkey[pk])

=============================================================================
