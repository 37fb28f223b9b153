------------------------ MODULE FrostdSessionsProofs ------------------------
(***************************************************************************)
(* Proofs about the session store of frostd and about the session commands *)
(* of frost-client, for every set of keys, ids and messages and every      *)
(* value of the bounds.                                                    *)
(*                                                                         *)
(* The argument: what a session was created with (`created') ties the two  *)
(* maps of the store together, since close_session and the expiry task     *)
(* unlist an id for keys they read from different places; each queue,      *)
(* together with what was handed out of it, is what was accepted for it;   *)
(* and the time to live and the idle time of a live session add up to the  *)
(* timeout.  A command relies only on what no step of the store can undo:  *)
(* an id that is not live never is again, and who is in a session, and     *)
(* coordinates it, does not change.                                        *)
(***************************************************************************)
EXTENDS SessionCommands, TLAPS, SequenceTheorems, FiniteSetTheorems

-----------------------------------------------------------------------------
(* Lemmas about the operators of the model.                                *)

\* A recipients argument is a sequence of keys.
LEMMA RecipientsType ==
    ASSUME NEW rs \in Recipients
    PROVE  /\ rs \in Seq(PublicKeys)
           /\ DOMAIN rs = 1..Len(rs)
           /\ Len(rs) \in Nat
<1>1. PICK n \in 0..MaxRecipients : rs \in [1..n -> PublicKeys]
  BY DEF Recipients, BoundedSeq, SeqOf
<1>2. n \in Nat
  BY BoundAssumption
<1> QED
  BY <1>1, <1>2

\* The slots a send addresses: the coordinator's, or the recipients'.
LEMMA SlotsType ==
    ASSUME NEW rs \in Recipients
    PROVE  /\ Slots(rs) \in Seq(SessionParticipant)
           /\ \A j \in DOMAIN Slots(rs) : Slots(rs)[j] \in Range(rs) \cup {Coordinator}
<1>1. CASE rs = <<>>
  BY <1>1 DEF Slots, SessionParticipant
<1>2. CASE rs # <<>>
  BY <1>2, RecipientsType DEF Slots, SessionParticipant, Range
<1> QED
  BY <1>1, <1>2

\* What a send appends to a queue is a sequence of copies of the message, and
\* it is empty for a queue that is neither addressed nor the coordinator's.
LEMMA CopiesType ==
    ASSUME NEW rs \in Recipients, NEW s, NEW m \in Msg
    PROVE  /\ Copies(rs, s, m) \in Seq(Msg)
           /\ \A i \in DOMAIN Copies(rs, s, m) : Copies(rs, s, m)[i] = m
           /\ s \notin Range(rs) \cup {Coordinator} => Copies(rs, s, m) = <<>>
<1> DEFINE J == {j \in DOMAIN Slots(rs) : Slots(rs)[j] = s}
<1>1. DOMAIN Slots(rs) = 1..Len(Slots(rs)) /\ Len(Slots(rs)) \in Nat
  BY SlotsType
<1>2. IsFiniteSet(1..Len(Slots(rs)))
  BY <1>1, FS_Interval
<1>3. IsFiniteSet(J)
  BY <1>1, <1>2, FS_Subset
<1>4. Cardinality(J) \in Nat
  BY <1>3, FS_CardinalityType
<1>5. Copies(rs, s, m) = [i \in 1..Cardinality(J) |-> m]
  BY DEF Copies
<1>6. Copies(rs, s, m) \in Seq(Msg)
  BY <1>4, <1>5, IsASeq
<1>7. s \notin Range(rs) \cup {Coordinator} => J = {}
  BY SlotsType
<1>8. J = {} => Cardinality(J) = 0
  BY FS_EmptySet
<1>9. ASSUME s \notin Range(rs) \cup {Coordinator}
      PROVE  Copies(rs, s, m) = <<>>
  <2>1. DOMAIN Copies(rs, s, m) = 1..0
    BY <1>5, <1>7, <1>8, <1>9
  <2>2. Len(Copies(rs, s, m)) = 0
    BY <1>6, <2>1, LenProperties
  <2> QED
    BY <1>6, <2>2, EmptySeq
<1> QED
  BY <1>5, <1>6, <1>9

\* The first part of a concatenation is a prefix of it.
LEMMA PrefixOfConcat ==
    ASSUME NEW S, NEW r \in Seq(S), NEW q \in Seq(S)
    PROVE  IsPrefix(r, r \o q)
<1>1. Len(r \o q) = Len(r) + Len(q) /\ Len(r) \in Nat /\ Len(q) \in Nat
  BY ConcatProperties, LenProperties
<1>2. CASE Len(r) = 0
  BY <1>1, <1>2, SubSeqEmpty DEF IsPrefix
<1>3. CASE Len(r) > 0
  <2>1. Len(r) \in 1..Len(r) /\ 1 \in 1..Len(r)
    BY <1>1, <1>3
  <2>2. SubSeq(r \o q, 1, Len(r)) = SubSeq(r, 1, Len(r))
    BY <2>1, SubSeqOfConcat1
  <2> QED
    BY <1>1, <2>2 DEF IsPrefix
<1> QED
  BY <1>1, <1>2, <1>3

-----------------------------------------------------------------------------
(* Type correctness.                                                       *)

\* The empty store of AppState::new has the right types.
LEMMA InitType == Init => TypeOK
<1> SUFFICES ASSUME Init PROVE TypeOK
  OBVIOUS
<1>1. NoMessages \in [SessionParticipant -> Seq(Msg)]
  BY DEF NoMessages
<1>2. DOMAIN sessions = {} /\ DOMAIN created = {}
  BY DEF Init
<1>3. /\ sessions \in [DOMAIN sessions -> Session]
      /\ created \in [DOMAIN created ->
            [pubkeys : SUBSET PublicKeys, coordinator_pubkey : PublicKeys]]
  BY DEF Init
<1> QED
  BY <1>1, <1>2, <1>3, TimeoutAssumption DEF Init, TypeOK

\* Replacing the queues and the timeout of a session gives a session.
LEMMA UpdatedType ==
    ASSUME TypeOK, NEW id \in DOMAIN sessions,
           NEW q \in [SessionParticipant -> Seq(Msg)],
           NEW ttl \in 0..SESSION_TIMEOUT
    PROVE  Updated(id, q, ttl) \in Session
<1>1. sessions[id] \in Session
  BY DEF TypeOK
<1> QED
  BY <1>1 DEF Updated, Session

\* One case per action that changes the store.
LEMMA NextType == TypeOK /\ [Next]_vars => TypeOK'
<1> SUFFICES ASSUME TypeOK, [Next]_vars PROVE TypeOK'
  OBVIOUS
<1> USE DEF TypeOK
<1>1. ASSUME NEW user \in PublicKeys, NEW pks \in SUBSET PublicKeys,
             NEW n \in MessageCounts, NEW id \in SessionIds,
             CreateNewSession(user, pks, n, id)
      PROVE  TypeOK'
  <2>1. n \in 1..255
    BY <1>1, CountAssumption DEF CreateNewSession, CreateNewSessionResult
  <2>2. NoMessages \in [SessionParticipant -> Seq(Msg)]
    BY DEF NoMessages
  <2>3. SESSION_TIMEOUT \in 0..SESSION_TIMEOUT /\ 0 \in 0..SESSION_TIMEOUT
    BY TimeoutAssumption
  <2>4. sessions' \in [DOMAIN sessions' -> Session] /\ DOMAIN sessions' \subseteq SessionIds
    BY <1>1, <2>1, <2>2, <2>3 DEF CreateNewSession, Session
  <2>5. created' \in [DOMAIN created' ->
            [pubkeys : SUBSET PublicKeys, coordinator_pubkey : PublicKeys]]
        /\ DOMAIN created' \subseteq SessionIds
    BY <1>1 DEF CreateNewSession
  <2>6. sessions_by_pubkey' \in [PublicKeys -> SUBSET SessionIds]
    BY <1>1 DEF CreateNewSession
  <2> QED
    BY <1>1, <2>3, <2>4, <2>5, <2>6 DEF CreateNewSession
<1>2. ASSUME NEW user \in PublicKeys, NEW id \in SessionIds,
             NEW rs \in Recipients, NEW m \in Messages, Send(user, id, rs, m)
      PROVE  TypeOK'
  <2> DEFINE new(s) == Copies(rs, s, [sender |-> user, msg |-> m])
             q == [s \in SessionParticipant |-> sessions[id].queue[s] \o new(s)]
             h == [s \in SessionParticipant |-> sent[id][s] \o new(s)]
  <2>1. id \in DOMAIN sessions /\ sessions[id] \in Session
    BY <1>2 DEF Send, SendResult
  <2>2. \A s \in SessionParticipant : new(s) \in Seq(Msg)
    BY CopiesType DEF Msg
  <2>3. q \in [SessionParticipant -> Seq(Msg)]
    BY <2>1, <2>2, ConcatProperties DEF Session
  <2>4. h \in [SessionParticipant -> Seq(Msg)]
    BY <2>2, ConcatProperties
  <2>5. sessions' = [sessions EXCEPT ![id] = Updated(id, q, SESSION_TIMEOUT)]
    BY <1>2 DEF Send
  <2>6. sessions' \in [DOMAIN sessions -> Session]
    <3> HIDE DEF q, new
    <3>0. SESSION_TIMEOUT \in 0..SESSION_TIMEOUT
      BY TimeoutAssumption
    <3>1. Updated(id, q, SESSION_TIMEOUT) \in Session
      BY <2>1, <2>3, <3>0, UpdatedType
    <3> QED
      BY <2>5, <3>1
  <2>7. sent' = [sent EXCEPT ![id] = h]
    BY <1>2 DEF Send
  <2>8. sent' \in [SessionIds -> [SessionParticipant -> Seq(Msg)]]
    <3> HIDE DEF h, new
    <3> QED
      BY <2>4, <2>7
  <2>9. idle' \in [SessionIds -> 0..SESSION_TIMEOUT]
    BY <1>2, TimeoutAssumption DEF Send
  <2> QED
    BY <1>2, <2>6, <2>8, <2>9 DEF Send
<1>3. ASSUME NEW user \in PublicKeys, NEW id \in SessionIds,
             NEW ac \in BOOLEAN, Receive(user, id, ac)
      PROVE  TypeOK'
  <2> DEFINE s == ReceiveSlot(user, id, ac)
             msgs == sessions[id].queue[s]
  <2>1. id \in DOMAIN sessions /\ sessions[id] \in Session
    BY <1>3 DEF Receive, ReceiveResult
  <2>2. s \in SessionParticipant
    BY DEF ReceiveSlot, SessionParticipant
  <2>3. msgs \in Seq(Msg)
    BY <2>1, <2>2 DEF Session
  <2>4. received[id][s] \o msgs \in Seq(Msg)
    BY <2>2, <2>3, ConcatProperties
  <2> DEFINE q == [sessions[id].queue EXCEPT ![s] = <<>>]
             ttl == IF msgs # <<>> THEN SESSION_TIMEOUT ELSE sessions[id].ttl
  <2>5. /\ sessions' = [sessions EXCEPT ![id] = Updated(id, q, ttl)]
        /\ received' = [received EXCEPT
             ![id] = [received[id] EXCEPT ![s] = received[id][s] \o msgs]]
        /\ idle' = [idle EXCEPT ![id] = IF msgs # <<>> THEN 0 ELSE @]
    BY <1>3 DEF Receive
  <2> HIDE DEF s, msgs
  <2>6. sessions' \in [DOMAIN sessions -> Session]
    <3>1. q \in [SessionParticipant -> Seq(Msg)]
      BY <2>1, <2>2 DEF Session
    <3>2. ttl \in 0..SESSION_TIMEOUT
      BY <2>1, TimeoutAssumption DEF Session
    <3> HIDE DEF q, ttl
    <3>3. Updated(id, q, ttl) \in Session
      BY <2>1, <3>1, <3>2, UpdatedType
    <3> QED
      BY <2>5, <3>3
  <2>7. received' \in [SessionIds -> [SessionParticipant -> Seq(Msg)]]
    BY <2>2, <2>4, <2>5
  <2>8. idle' \in [SessionIds -> 0..SESSION_TIMEOUT]
    BY <2>5, TimeoutAssumption
  <2> QED
    BY <1>3, <2>6, <2>7, <2>8 DEF Receive
<1>4. ASSUME NEW user \in PublicKeys, NEW id \in SessionIds, CloseSession(user, id)
      PROVE  TypeOK'
  <2>1. sessions_by_pubkey' \in [PublicKeys -> SUBSET SessionIds]
    BY <1>4 DEF CloseSession
  <2>2. sessions' \in [DOMAIN sessions' -> Session] /\ DOMAIN sessions' \subseteq SessionIds
    BY <1>4 DEF CloseSession
  <2> QED
    BY <1>4, <2>1, <2>2 DEF CloseSession
<1>5. ASSUME Tick PROVE TypeOK'
  <2> DEFINE ttl(id) == IF sessions[id].ttl = 0 THEN 0 ELSE sessions[id].ttl - 1
  <2>1. \A id \in DOMAIN sessions : Updated(id, sessions[id].queue, ttl(id)) \in Session
    <3> SUFFICES ASSUME NEW id \in DOMAIN sessions
                 PROVE  Updated(id, sessions[id].queue, ttl(id)) \in Session
      OBVIOUS
    <3>1. /\ sessions[id].queue \in [SessionParticipant -> Seq(Msg)]
          /\ ttl(id) \in 0..SESSION_TIMEOUT
      BY TimeoutAssumption DEF Session
    <3> QED
      BY <3>1, UpdatedType
  <2>2. sessions' \in [DOMAIN sessions -> Session]
    BY <1>5, <2>1 DEF Tick
  <2>3. idle' \in [SessionIds -> 0..SESSION_TIMEOUT]
    BY <1>5, TimeoutAssumption DEF Tick
  <2> QED
    BY <1>5, <2>2, <2>3 DEF Tick
<1>6. ASSUME NEW id \in SessionIds, ExpireSession(id) PROVE TypeOK'
  <2>1. sessions' \in [DOMAIN sessions' -> Session] /\ DOMAIN sessions' \subseteq SessionIds
    BY <1>6 DEF ExpireSession
  <2> QED
    BY <1>6, <2>1 DEF ExpireSession
<1>7. ASSUME NEW id \in SessionIds, UnlistExpired(id) PROVE TypeOK'
  <2>1. sessions_by_pubkey' \in [PublicKeys -> SUBSET SessionIds]
    BY <1>7 DEF UnlistExpired
  <2> QED
    BY <1>7, <2>1 DEF UnlistExpired
<1>8. CASE UNCHANGED vars
  BY <1>8 DEF vars
<1> QED
  BY <1>1, <1>2, <1>3, <1>4, <1>5, <1>6, <1>7, <1>8
     DEF Next, Request, Expiry, ListSessions, GetSessionInfo, Refused

\* The store keeps its type: sessions, index and queues hold what the Rust
\* types in state.rs say, and a live session has a message_count of at least 1.
THEOREM TypeCorrect == Spec => []TypeOK
  BY InitType, NextType, PTL DEF Spec

-----------------------------------------------------------------------------
(* The index.                                                              *)

\* The history agrees with the store.  This is what makes the properties of
\* the index inductive: an id is listed for the keys it was created with, so
\* the expiry task, which works from the removed session's participants, and
\* close_session, which works from the live one's, unlist the same keys.
HistoryLinked ==
    /\ DOMAIN sessions \subseteq DOMAIN created
    /\ \A id \in DOMAIN sessions :
          /\ created[id].pubkeys = sessions[id].pubkeys
          /\ created[id].coordinator_pubkey = sessions[id].coordinator_pubkey
    /\ expiring \subseteq timed_out
    /\ timed_out \subseteq DOMAIN created \ DOMAIN sessions

IndexInv ==
    /\ HistoryLinked
    /\ LiveSessionsListed
    /\ StaleEntriesExplained

\* The empty store lists nothing.
LEMMA InitIndex == Init => IndexInv
  BY DEF Init, IndexInv, HistoryLinked, LiveSessionsListed, StaleEntriesExplained

\* create_new_session, close_session and the two steps of the expiry task keep
\* the two maps in agreement; the other handlers do not touch them.
LEMMA NextIndex == TypeOK /\ IndexInv /\ [Next]_vars => IndexInv'
<1> SUFFICES ASSUME TypeOK, IndexInv, [Next]_vars PROVE IndexInv'
  OBVIOUS
<1> USE DEF IndexInv
<1>1. ASSUME NEW user \in PublicKeys, NEW pks \in SUBSET PublicKeys,
             NEW n \in MessageCounts, NEW id \in SessionIds,
             CreateNewSession(user, pks, n, id)
      PROVE  IndexInv'
  <2>1. id \notin DOMAIN created /\ id \notin DOMAIN sessions /\ id \notin timed_out
    BY <1>1 DEF CreateNewSession, HistoryLinked
  <2>2. HistoryLinked'
    BY <1>1, <2>1 DEF CreateNewSession, HistoryLinked
  <2>3. LiveSessionsListed'
    BY <1>1, <2>1 DEF CreateNewSession, LiveSessionsListed, Members, TypeOK, Session
  <2>4. StaleEntriesExplained'
    BY <1>1, <2>1 DEF CreateNewSession, StaleEntriesExplained, Members, TypeOK
  <2> QED
    BY <2>2, <2>3, <2>4
<1>2. ASSUME NEW q, NEW t, NEW id \in DOMAIN sessions,
             sessions' = [sessions EXCEPT ![id] = Updated(id, q, t)],
             UNCHANGED <<sessions_by_pubkey, expiring, created, timed_out>>
      PROVE  IndexInv'
  <2>1. /\ DOMAIN sessions' = DOMAIN sessions
        /\ \A i \in DOMAIN sessions :
              /\ sessions'[i].pubkeys = sessions[i].pubkeys
              /\ sessions'[i].coordinator_pubkey = sessions[i].coordinator_pubkey
    BY <1>2 DEF Updated, TypeOK
  <2> QED
    BY <1>2, <2>1 DEF HistoryLinked, LiveSessionsListed, StaleEntriesExplained, Members
<1>3. ASSUME NEW user \in PublicKeys, NEW id \in SessionIds,
             NEW rs \in Recipients, NEW m \in Messages, Send(user, id, rs, m)
      PROVE  IndexInv'
  BY <1>2, <1>3 DEF Send, SendResult
<1>4. ASSUME NEW user \in PublicKeys, NEW id \in SessionIds,
             NEW ac \in BOOLEAN, Receive(user, id, ac)
      PROVE  IndexInv'
  BY <1>2, <1>4 DEF Receive, ReceiveResult
<1>5. ASSUME NEW user \in PublicKeys, NEW id \in SessionIds, CloseSession(user, id)
      PROVE  IndexInv'
  <2>1. id \in DOMAIN sessions /\ sessions[id].coordinator_pubkey = user
    BY <1>5 DEF CloseSession, CloseSessionResult
  <2>2. HistoryLinked'
    BY <1>5 DEF CloseSession, HistoryLinked
  <2>3. LiveSessionsListed'
    BY <1>5 DEF CloseSession, LiveSessionsListed, Members, TypeOK, Session
  <2>4. StaleEntriesExplained'
    BY <1>5, <2>1 DEF CloseSession, StaleEntriesExplained, HistoryLinked, Members, TypeOK
  <2> QED
    BY <2>2, <2>3, <2>4
<1>6. ASSUME Tick PROVE IndexInv'
  <2>1. /\ DOMAIN sessions' = DOMAIN sessions
        /\ \A i \in DOMAIN sessions :
              /\ sessions'[i].pubkeys = sessions[i].pubkeys
              /\ sessions'[i].coordinator_pubkey = sessions[i].coordinator_pubkey
    BY <1>6 DEF Tick, Updated
  <2> QED
    BY <1>6, <2>1 DEF Tick, HistoryLinked, LiveSessionsListed, StaleEntriesExplained, Members
<1>7. ASSUME NEW id \in SessionIds, ExpireSession(id) PROVE IndexInv'
  <2>1. HistoryLinked'
    BY <1>7 DEF ExpireSession, HistoryLinked
  <2>2. LiveSessionsListed'
    BY <1>7 DEF ExpireSession, LiveSessionsListed, Members
  <2>3. StaleEntriesExplained'
    BY <1>7 DEF ExpireSession, StaleEntriesExplained, Members
  <2> QED
    BY <2>1, <2>2, <2>3
<1>8. ASSUME NEW id \in SessionIds, UnlistExpired(id) PROVE IndexInv'
  <2>1. id \in timed_out /\ id \in DOMAIN created /\ id \notin DOMAIN sessions
    BY <1>8 DEF UnlistExpired, HistoryLinked
  <2>2. HistoryLinked'
    BY <1>8 DEF UnlistExpired, HistoryLinked
  <2>3. LiveSessionsListed'
    BY <1>8, <2>1 DEF UnlistExpired, LiveSessionsListed, Members, TypeOK, Session
  <2>4. StaleEntriesExplained'
    BY <1>8, <2>1 DEF UnlistExpired, StaleEntriesExplained, Members, TypeOK
  <2> QED
    BY <2>2, <2>3, <2>4
<1>9. CASE UNCHANGED vars
  BY <1>9 DEF vars, HistoryLinked, LiveSessionsListed, StaleEntriesExplained, Members
<1> QED
  BY <1>1, <1>3, <1>4, <1>5, <1>6, <1>7, <1>8, <1>9
     DEF Next, Request, Expiry, ListSessions, GetSessionInfo, Refused

\* A live session is listed for all its participants and its coordinator, at
\* every moment, whatever the interleaving of handlers and expiry task.
THEOREM SessionsAreListed == Spec => []LiveSessionsListed
<1>1. TypeOK /\ IndexInv /\ [Next]_vars => (TypeOK /\ IndexInv)'
  BY NextType, NextIndex
<1>2. Init => TypeOK /\ IndexInv
  BY InitType, InitIndex
<1>3. IndexInv => LiveSessionsListed
  BY DEF IndexInv
<1> QED
  BY <1>1, <1>2, <1>3, PTL DEF Spec

\* The only stale index entries are those the expiry task is about to remove
\* and those of coordinators outside their own timed-out session.
THEOREM StaleEntriesAreExplained == Spec => []StaleEntriesExplained
<1>1. TypeOK /\ IndexInv /\ [Next]_vars => (TypeOK /\ IndexInv)'
  BY NextType, NextIndex
<1>2. Init => TypeOK /\ IndexInv
  BY InitType, InitIndex
<1>3. IndexInv => StaleEntriesExplained
  BY DEF IndexInv
<1> QED
  BY <1>1, <1>2, <1>3, PTL DEF Spec

-----------------------------------------------------------------------------
(* The queues.                                                             *)

\* Ids not yet handed out have no traffic, so a new session starts with
\* nothing sent and nothing received.
FreshIdsSilent ==
    \A id \in SessionIds \ DOMAIN created :
        sent[id] = NoMessages /\ received[id] = NoMessages

QueueInv ==
    /\ FreshIdsSilent
    /\ QueuesBelong
    /\ ExactlyOnceInOrder

\* In the empty store nothing was accepted and nothing handed out.
LEMMA InitQueue == Init => QueueInv
<1> SUFFICES ASSUME Init PROVE QueueInv
  OBVIOUS
<1>1. \A id \in SessionIds : sent[id] = NoMessages /\ received[id] = NoMessages
  BY DEF Init
<1>2. IsPrefix(<<>>, <<>>)
  <2>1. <<>> \in Seq(Msg) /\ <<>> \o <<>> = <<>>
    OBVIOUS
  <2>2. IsPrefix(<<>>, <<>> \o <<>>)
    BY <2>1, PrefixOfConcat
  <2> QED
    BY <2>1, <2>2
<1>3. ExactlyOnceInOrder
  BY <1>1, <1>2 DEF Init, ExactlyOnceInOrder, NoMessages
<1> QED
  BY <1>1, <1>3 DEF Init, QueueInv, FreshIdsSilent, QueuesBelong

\* When sessions end and nothing else about traffic changes, what was handed
\* out of the ended ones is a prefix of what was accepted.
LEMMA EndKeepsQueues ==
    ASSUME TypeOK, IndexInv, QueueInv, NEW id \in DOMAIN sessions,
           sessions' = [i \in DOMAIN sessions \ {id} |-> sessions[i]],
           UNCHANGED <<created, sent, received>>
    PROVE  QueueInv'
<1>1. \A s \in SessionParticipant : IsPrefix(received[id][s], sent[id][s])
  <2> SUFFICES ASSUME NEW s \in SessionParticipant
               PROVE  IsPrefix(received[id][s], sent[id][s])
    OBVIOUS
  <2>1. received[id][s] \o sessions[id].queue[s] = sent[id][s]
    BY DEF QueueInv, ExactlyOnceInOrder, TypeOK
  <2>2. received[id][s] \in Seq(Msg) /\ sessions[id].queue[s] \in Seq(Msg)
    BY DEF TypeOK, Session
  <2>3. IsPrefix(received[id][s], received[id][s] \o sessions[id].queue[s])
    BY <2>2, PrefixOfConcat
  <2> QED
    BY <2>1, <2>3
<1>2. ExactlyOnceInOrder'
  <2> SUFFICES ASSUME NEW i \in SessionIds, NEW s \in SessionParticipant
               PROVE  IF i \in DOMAIN sessions'
                      THEN received[i][s] \o sessions'[i].queue[s] = sent[i][s]
                      ELSE IsPrefix(received[i][s], sent[i][s])
    BY DEF ExactlyOnceInOrder
  <2>1. IF i \in DOMAIN sessions
        THEN received[i][s] \o sessions[i].queue[s] = sent[i][s]
        ELSE IsPrefix(received[i][s], sent[i][s])
    BY DEF QueueInv, ExactlyOnceInOrder
  <2> QED
    BY <1>1, <2>1
<1>3. FreshIdsSilent'
  BY DEF QueueInv, FreshIdsSilent
<1>4. QueuesBelong'
  BY DEF QueueInv, QueuesBelong, Members
<1> QED
  BY <1>2, <1>3, <1>4 DEF QueueInv

\* A send appends the same messages to a queue and to what was accepted for it.
LEMMA SendKeepsQueues ==
    ASSUME TypeOK, IndexInv, QueueInv,
           NEW user \in PublicKeys, NEW id \in SessionIds,
           NEW rs \in Recipients, NEW m \in Messages, Send(user, id, rs, m)
    PROVE  QueueInv'
<1> DEFINE msg == [sender |-> user, msg |-> m]
           new(s) == Copies(rs, s, msg)
           q == [s \in SessionParticipant |-> sessions[id].queue[s] \o new(s)]
<1>1. /\ id \in DOMAIN sessions /\ id \in DOMAIN created
      /\ m \notin Oversized
      /\ user \in Members(sessions[id])
      /\ Range(rs) \subseteq sessions[id].pubkeys
      /\ sessions[id] \in Session
  BY DEF Send, SendResult, InSession, Members, IndexInv, HistoryLinked, TypeOK
<1>2. /\ sessions' = [sessions EXCEPT ![id] = Updated(id, q, SESSION_TIMEOUT)]
      /\ sent' = [sent EXCEPT ![id] = [s \in SessionParticipant |-> sent[id][s] \o new(s)]]
      /\ received' = received /\ created' = created
  BY DEF Send
<1>3. /\ DOMAIN sessions' = DOMAIN sessions
      /\ \A i \in DOMAIN sessions : Members(sessions'[i]) = Members(sessions[i])
                                  /\ sessions'[i].pubkeys = sessions[i].pubkeys
      /\ \A i \in DOMAIN sessions \ {id} : sessions'[i] = sessions[i]
      /\ sessions'[id].queue = q
  <2> HIDE DEF q
  <2> QED
    BY <1>1, <1>2 DEF TypeOK, Updated, Members
<1>4. \A s \in SessionParticipant :
         /\ new(s) \in Seq(Msg)
         /\ \A i \in DOMAIN new(s) : new(s)[i] = msg
         /\ s \notin Range(rs) \cup {Coordinator} => new(s) = <<>>
  <2>1. msg \in Msg
    BY DEF Msg
  <2> QED
    BY <2>1, CopiesType
<1> HIDE DEF new
<1>5. FreshIdsSilent'
  BY <1>1, <1>2 DEF QueueInv, FreshIdsSilent, TypeOK
<1>6. QueuesBelong'
  <2> SUFFICES ASSUME NEW i \in DOMAIN sessions, NEW s \in SessionParticipant
               PROVE  /\ s \notin sessions[i].pubkeys \cup {Coordinator} =>
                             sessions'[i].queue[s] = <<>>
                      /\ \A k \in DOMAIN sessions'[i].queue[s] :
                            /\ sessions'[i].queue[s][k].sender \in Members(sessions[i])
                            /\ sessions'[i].queue[s][k].msg \notin Oversized
    BY <1>3 DEF QueuesBelong
  <2>1. /\ s \notin sessions[i].pubkeys \cup {Coordinator} => sessions[i].queue[s] = <<>>
        /\ \A k \in DOMAIN sessions[i].queue[s] :
              /\ sessions[i].queue[s][k].sender \in Members(sessions[i])
              /\ sessions[i].queue[s][k].msg \notin Oversized
    BY DEF QueueInv, QueuesBelong
  <2>2. CASE i # id
    BY <1>3, <2>1, <2>2
  <2>3. CASE i = id
    <3> DEFINE old == sessions[id].queue[s]
    <3>1. sessions'[i].queue[s] = old \o new(s)
      BY <1>3, <2>3
    <3>2. old \in Seq(Msg) /\ new(s) \in Seq(Msg)
      BY <1>1, <1>4 DEF Session
    <3>3. ASSUME s \notin sessions[i].pubkeys \cup {Coordinator}
          PROVE  sessions'[i].queue[s] = <<>>
      <4>1. new(s) = <<>> /\ old = <<>>
        BY <1>1, <1>4, <2>1, <2>3, <3>3
      <4> QED
        BY <3>1, <4>1
    <3>4. ASSUME NEW k \in DOMAIN (old \o new(s))
          PROVE  /\ (old \o new(s))[k].sender \in Members(sessions[i])
                 /\ (old \o new(s))[k].msg \notin Oversized
      <4>1. /\ DOMAIN old = 1..Len(old) /\ Len(old) \in Nat
            /\ DOMAIN new(s) = 1..Len(new(s)) /\ Len(new(s)) \in Nat
        BY <3>2, LenProperties
      <4>2. /\ k \in 1..(Len(old) + Len(new(s)))
            /\ (old \o new(s))[k] = IF k <= Len(old) THEN old[k] ELSE new(s)[k - Len(old)]
        BY <3>2, ConcatProperties, LenProperties
      <4>3. CASE k <= Len(old)
        BY <2>1, <2>3, <4>1, <4>2, <4>3
      <4>4. CASE ~(k <= Len(old))
        <5>1. k - Len(old) \in DOMAIN new(s)
          BY <4>1, <4>2, <4>4
        <5>2. (old \o new(s))[k] = msg
          BY <1>4, <4>2, <4>4, <5>1
        <5> QED
          BY <1>1, <2>3, <5>2
      <4> QED
        BY <4>3, <4>4
    <3> QED
      BY <3>1, <3>3, <3>4
  <2> QED
    BY <2>2, <2>3
<1>7. ExactlyOnceInOrder'
  <2> SUFFICES ASSUME NEW i \in SessionIds, NEW s \in SessionParticipant
               PROVE  IF i \in DOMAIN sessions
                      THEN received[i][s] \o sessions'[i].queue[s] = sent'[i][s]
                      ELSE IsPrefix(received[i][s], sent'[i][s])
    BY <1>2, <1>3 DEF ExactlyOnceInOrder
  <2>1. IF i \in DOMAIN sessions
        THEN received[i][s] \o sessions[i].queue[s] = sent[i][s]
        ELSE IsPrefix(received[i][s], sent[i][s])
    BY DEF QueueInv, ExactlyOnceInOrder
  <2>2. CASE i # id
    BY <1>2, <1>3, <2>1, <2>2 DEF TypeOK
  <2>3. CASE i = id
    <3> DEFINE old == sessions[id].queue[s]
    <3>1. sessions'[i].queue[s] = old \o new(s)
      BY <1>3, <2>3
    <3>2. sent'[i][s] = sent[id][s] \o new(s)
      <4> DEFINE h == [x \in SessionParticipant |-> sent[id][x] \o new(x)]
      <4>1. sent' = [sent EXCEPT ![id] = h]
        BY <1>2
      <4>2. h[s] = sent[id][s] \o new(s)
        OBVIOUS
      <4> HIDE DEF h
      <4>3. sent'[id] = h
        BY <4>1 DEF TypeOK
      <4> QED
        BY <2>3, <4>2, <4>3
    <3>3. old \in Seq(Msg) /\ new(s) \in Seq(Msg) /\ received[id][s] \in Seq(Msg)
      BY <1>1, <1>4 DEF Session, TypeOK
    <3>4. received[id][s] \o (old \o new(s)) = (received[id][s] \o old) \o new(s)
      <4>1. \A x, y, z \in Seq(Msg) : x \o (y \o z) = (x \o y) \o z
        BY ConcatAssociative
      <4> QED
        BY <3>3, <4>1, Zenon
    <3> QED
      BY <1>1, <2>1, <2>3, <3>1, <3>2, <3>4
  <2> QED
    BY <2>2, <2>3
<1> QED
  BY <1>5, <1>6, <1>7 DEF QueueInv

\* A receive moves the whole of one queue to what was handed out.
LEMMA ReceiveKeepsQueues ==
    ASSUME TypeOK, IndexInv, QueueInv,
           NEW user \in PublicKeys, NEW id \in SessionIds,
           NEW ac \in BOOLEAN, Receive(user, id, ac)
    PROVE  QueueInv'
<1> DEFINE r == ReceiveSlot(user, id, ac)
           msgs == sessions[id].queue[r]
           q == [sessions[id].queue EXCEPT ![r] = <<>>]
           ttl == IF msgs # <<>> THEN SESSION_TIMEOUT ELSE sessions[id].ttl
<1>1. /\ id \in DOMAIN sessions /\ id \in DOMAIN created
      /\ sessions[id] \in Session
      /\ r \in SessionParticipant
  BY DEF Receive, ReceiveResult, ReceiveSlot, SessionParticipant,
         IndexInv, HistoryLinked, TypeOK
<1>2. /\ sessions' = [sessions EXCEPT ![id] = Updated(id, q, ttl)]
      /\ received' = [received EXCEPT
             ![id] = [received[id] EXCEPT ![r] = received[id][r] \o msgs]]
      /\ sent' = sent /\ created' = created
  BY DEF Receive
<1>3. /\ DOMAIN sessions' = DOMAIN sessions
      /\ \A i \in DOMAIN sessions : Members(sessions'[i]) = Members(sessions[i])
                                  /\ sessions'[i].pubkeys = sessions[i].pubkeys
      /\ \A i \in DOMAIN sessions \ {id} : sessions'[i] = sessions[i]
      /\ sessions'[id].queue = q
  <2> HIDE DEF q, ttl
  <2> QED
    BY <1>1, <1>2 DEF TypeOK, Updated, Members
<1> HIDE DEF r
<1>4. FreshIdsSilent'
  BY <1>1, <1>2 DEF QueueInv, FreshIdsSilent, TypeOK
<1>5. \A i \in DOMAIN sessions, s \in SessionParticipant :
         \/ sessions'[i].queue[s] = sessions[i].queue[s]
         \/ sessions'[i].queue[s] = <<>>
  BY <1>1, <1>3 DEF Session
<1>6. QueuesBelong'
  BY <1>3, <1>5 DEF QueueInv, QueuesBelong
<1>7. ExactlyOnceInOrder'
  <2> SUFFICES ASSUME NEW i \in SessionIds, NEW s \in SessionParticipant
               PROVE  IF i \in DOMAIN sessions
                      THEN received'[i][s] \o sessions'[i].queue[s] = sent[i][s]
                      ELSE IsPrefix(received'[i][s], sent[i][s])
    BY <1>2, <1>3 DEF ExactlyOnceInOrder
  <2>1. IF i \in DOMAIN sessions
        THEN received[i][s] \o sessions[i].queue[s] = sent[i][s]
        ELSE IsPrefix(received[i][s], sent[i][s])
    BY DEF QueueInv, ExactlyOnceInOrder
  <2>2. CASE i # id
    BY <1>2, <1>3, <2>1, <2>2 DEF TypeOK
  <2>3. CASE i = id /\ s # r
    BY <1>1, <1>2, <1>3, <2>1, <2>3, ZenonT(60) DEF TypeOK, Session
  <2>4. CASE i = id /\ s = r
    <3>1. received'[i][s] = received[id][r] \o msgs /\ sessions'[i].queue[s] = <<>>
      BY <1>1, <1>2, <1>3, <2>4, ZenonT(60) DEF TypeOK, Session
    <3>2. received[id][r] \o msgs \in Seq(Msg)
      BY <1>1, ConcatProperties DEF TypeOK, Session
    <3>3. (received[id][r] \o msgs) \o <<>> = received[id][r] \o msgs
      BY <3>2, ConcatEmptySeq
    <3> QED
      BY <1>1, <2>1, <2>4, <3>1, <3>3
  <2> QED
    BY <2>2, <2>3, <2>4
<1> QED
  BY <1>4, <1>6, <1>7 DEF QueueInv

\* Every handler and the expiry task keep the queues exact: send and receive by
\* the lemmas above, the ends of a session by EndKeepsQueues.
LEMMA NextQueue == TypeOK /\ IndexInv /\ QueueInv /\ [Next]_vars => QueueInv'
<1> SUFFICES ASSUME TypeOK, IndexInv, QueueInv, [Next]_vars PROVE QueueInv'
  OBVIOUS
<1>1. ASSUME NEW user \in PublicKeys, NEW pks \in SUBSET PublicKeys,
             NEW n \in MessageCounts, NEW id \in SessionIds,
             CreateNewSession(user, pks, n, id)
      PROVE  QueueInv'
  <2>1. /\ id \notin DOMAIN created /\ id \notin DOMAIN sessions
        /\ sent[id] = NoMessages /\ received[id] = NoMessages
        /\ sent' = sent /\ received' = received
        /\ DOMAIN created' = DOMAIN created \cup {id}
        /\ DOMAIN sessions' = DOMAIN sessions \cup {id}
        /\ sessions'[id].queue = NoMessages
        /\ \A i \in DOMAIN sessions : sessions'[i] = sessions[i]
    BY <1>1 DEF CreateNewSession, IndexInv, HistoryLinked, QueueInv, FreshIdsSilent
  <2>2. FreshIdsSilent'
    BY <2>1 DEF QueueInv, FreshIdsSilent
  <2>3. QueuesBelong'
    BY <2>1 DEF QueueInv, QueuesBelong, NoMessages
  <2>4. \A s \in SessionParticipant : NoMessages[s] \o NoMessages[s] = NoMessages[s]
    BY DEF NoMessages
  <2>5. ExactlyOnceInOrder'
    BY <2>1, <2>4 DEF QueueInv, ExactlyOnceInOrder
  <2> QED
    BY <2>2, <2>3, <2>5 DEF QueueInv
<1>2. ASSUME NEW user \in PublicKeys, NEW id \in SessionIds,
             NEW rs \in Recipients, NEW m \in Messages, Send(user, id, rs, m)
      PROVE  QueueInv'
  BY <1>2, SendKeepsQueues
<1>3. ASSUME NEW user \in PublicKeys, NEW id \in SessionIds,
             NEW ac \in BOOLEAN, Receive(user, id, ac)
      PROVE  QueueInv'
  BY <1>3, ReceiveKeepsQueues
<1>4. ASSUME NEW user \in PublicKeys, NEW id \in SessionIds, CloseSession(user, id)
      PROVE  QueueInv'
  <2>1. id \in DOMAIN sessions
    BY <1>4 DEF CloseSession, CloseSessionResult
  <2> QED
    BY <1>4, <2>1, EndKeepsQueues DEF CloseSession
<1>5. ASSUME Tick PROVE QueueInv'
  <2>1. /\ DOMAIN sessions' = DOMAIN sessions
        /\ \A i \in DOMAIN sessions :
              /\ sessions'[i].pubkeys = sessions[i].pubkeys
              /\ Members(sessions'[i]) = Members(sessions[i])
              /\ sessions'[i].queue = sessions[i].queue
        /\ UNCHANGED <<created, sent, received>>
    BY <1>5 DEF Tick, Updated, Members
  <2>2. FreshIdsSilent'
    BY <2>1 DEF QueueInv, FreshIdsSilent
  <2>3. QueuesBelong'
    BY <2>1 DEF QueueInv, QueuesBelong
  <2>4. ExactlyOnceInOrder'
    BY <2>1 DEF QueueInv, ExactlyOnceInOrder
  <2> QED
    BY <2>2, <2>3, <2>4 DEF QueueInv
<1>6. ASSUME NEW id \in SessionIds, ExpireSession(id) PROVE QueueInv'
  BY <1>6, EndKeepsQueues DEF ExpireSession
<1>7. ASSUME NEW id \in SessionIds, UnlistExpired(id) PROVE QueueInv'
  BY <1>7 DEF UnlistExpired, QueueInv, FreshIdsSilent, QueuesBelong, ExactlyOnceInOrder
<1>8. CASE UNCHANGED vars
  BY <1>8 DEF vars, QueueInv, FreshIdsSilent, QueuesBelong, ExactlyOnceInOrder
<1> QED
  BY <1>1, <1>2, <1>3, <1>4, <1>5, <1>6, <1>7, <1>8
     DEF Next, Request, Expiry, ListSessions, GetSessionInfo, Refused

\* The whole inductive invariant of the store.
LEMMA StoreInvariant == Spec => [](TypeOK /\ IndexInv /\ QueueInv)
<1>1. Init => TypeOK /\ IndexInv /\ QueueInv
  BY InitType, InitIndex, InitQueue
<1>2. TypeOK /\ IndexInv /\ QueueInv /\ [Next]_vars => (TypeOK /\ IndexInv /\ QueueInv)'
  BY NextType, NextIndex, NextQueue
<1> QED
  BY <1>1, <1>2, PTL DEF Spec

\* Messages reach the queues of members only, come from members, and are
\* never oversized, in every reachable state.
THEOREM QueuesAreOfMembers == Spec => []QueuesBelong
<1>1. QueueInv => QueuesBelong
  BY DEF QueueInv
<1> QED
  BY <1>1, StoreInvariant, PTL

\* Every queue is a lossless FIFO for as long as its session lives: what
\* receive has handed out, followed by what is queued, is what send accepted;
\* closing and expiry lose the tail, never anything in the middle.
THEOREM DeliveryIsExact == Spec => []ExactlyOnceInOrder
<1>1. QueueInv => ExactlyOnceInOrder
  BY DEF QueueInv
<1> QED
  BY <1>1, StoreInvariant, PTL

-----------------------------------------------------------------------------
(* The timeout.                                                            *)

\* The time left is the timeout minus the idle time.
ClockInv ==
    \A id \in DOMAIN sessions : idle[id] + sessions[id].ttl = SESSION_TIMEOUT

\* The time a session has left and the time it has been idle add up to the
\* timeout: Tick moves both, traffic resets both.
LEMMA NextClock == TypeOK /\ ClockInv /\ [Next]_vars => ClockInv'
<1> SUFFICES ASSUME TypeOK, ClockInv, [Next]_vars PROVE ClockInv'
  OBVIOUS
<1> USE TimeoutAssumption DEF ClockInv, TypeOK
<1>1. ASSUME NEW user \in PublicKeys, NEW pks \in SUBSET PublicKeys,
             NEW n \in MessageCounts, NEW id \in SessionIds,
             CreateNewSession(user, pks, n, id)
      PROVE  ClockInv'
  BY <1>1 DEF CreateNewSession
<1>2. ASSUME NEW user \in PublicKeys, NEW id \in SessionIds,
             NEW rs \in Recipients, NEW m \in Messages, Send(user, id, rs, m)
      PROVE  ClockInv'
  <2>1. id \in DOMAIN sessions
    BY <1>2 DEF Send, SendResult
  <2> DEFINE q == [s \in SessionParticipant |->
                     sessions[id].queue[s] \o Copies(rs, s, [sender |-> user, msg |-> m])]
  <2>2. /\ sessions' = [sessions EXCEPT ![id] = Updated(id, q, SESSION_TIMEOUT)]
        /\ idle' = [idle EXCEPT ![id] = 0]
    BY <1>2 DEF Send
  <2> HIDE DEF q
  <2> QED
    BY <2>1, <2>2 DEF Updated
<1>3. ASSUME NEW user \in PublicKeys, NEW id \in SessionIds,
             NEW ac \in BOOLEAN, Receive(user, id, ac)
      PROVE  ClockInv'
  <2>1. id \in DOMAIN sessions
    BY <1>3 DEF Receive, ReceiveResult
  <2> DEFINE r == ReceiveSlot(user, id, ac)
             msgs == sessions[id].queue[r]
             q == [sessions[id].queue EXCEPT ![r] = <<>>]
  <2>2. /\ sessions' = [sessions EXCEPT ![id] = Updated(id, q,
               IF msgs # <<>> THEN SESSION_TIMEOUT ELSE sessions[id].ttl)]
        /\ idle' = [idle EXCEPT ![id] = IF msgs # <<>> THEN 0 ELSE idle[id]]
    BY <1>3 DEF Receive
  <2> HIDE DEF r, msgs, q
  <2>3. /\ DOMAIN sessions' = DOMAIN sessions
        /\ \A i \in DOMAIN sessions \ {id} : sessions'[i] = sessions[i] /\ idle'[i] = idle[i]
    BY <2>1, <2>2
  <2>4. /\ sessions'[id].ttl = IF msgs # <<>> THEN SESSION_TIMEOUT ELSE sessions[id].ttl
        /\ idle'[id] = IF msgs # <<>> THEN 0 ELSE idle[id]
    BY <2>1, <2>2 DEF Updated
  <2>5. idle'[id] + sessions'[id].ttl = SESSION_TIMEOUT
    BY <2>1, <2>4
  <2> QED
    BY <2>3, <2>5
<1>4. ASSUME NEW user \in PublicKeys, NEW id \in SessionIds, CloseSession(user, id)
      PROVE  ClockInv'
  BY <1>4 DEF CloseSession
<1>5. ASSUME Tick PROVE ClockInv'
  <2> SUFFICES ASSUME NEW id \in DOMAIN sessions
               PROVE  idle'[id] + sessions'[id].ttl = SESSION_TIMEOUT
    BY <1>5 DEF Tick
  <2>1. sessions'[id].ttl = IF sessions[id].ttl = 0 THEN 0 ELSE sessions[id].ttl - 1
    BY <1>5 DEF Tick, Updated
  <2>2. idle'[id] = IF idle[id] < SESSION_TIMEOUT THEN idle[id] + 1 ELSE idle[id]
    BY <1>5 DEF Tick
  <2>3. sessions[id].ttl \in Nat /\ idle[id] \in Nat
    BY DEF Session
  <2> QED
    BY <2>1, <2>2, <2>3
<1>6. ASSUME NEW id \in SessionIds, ExpireSession(id) PROVE ClockInv'
  BY <1>6 DEF ExpireSession
<1>7. ASSUME NEW id \in SessionIds, UnlistExpired(id) PROVE ClockInv'
  BY <1>7 DEF UnlistExpired
<1>8. CASE UNCHANGED vars
  BY <1>8 DEF vars
<1> QED
  BY <1>1, <1>2, <1>3, <1>4, <1>5, <1>6, <1>7, <1>8
     DEF Next, Request, Expiry, ListSessions, GetSessionInfo, Refused

\* A step that times a session out finds it idle for the whole timeout.
LEMMA ExpiryStep ==
    ASSUME TypeOK, ClockInv, [Next]_vars,
           NEW id \in SessionIds, id \in timed_out' \ timed_out
    PROVE  idle[id] = SESSION_TIMEOUT
<1>0. timed_out' # timed_out
  OBVIOUS
<1>1. PICK i \in SessionIds : ExpireSession(i)
  <2>1. ASSUME NEW user \in PublicKeys, Request(user) PROVE timed_out' = timed_out
    <3>1. \A pks \in SUBSET PublicKeys, n \in MessageCounts, x \in SessionIds :
             CreateNewSession(user, pks, n, x) => timed_out' = timed_out
      BY DEF CreateNewSession
    <3>2. \A x \in SessionIds, rs \in Recipients, m \in Messages :
             Send(user, x, rs, m) => timed_out' = timed_out
      BY DEF Send
    <3>3. \A x \in SessionIds, ac \in BOOLEAN :
             Receive(user, x, ac) => timed_out' = timed_out
      BY DEF Receive
    <3>4. \A x \in SessionIds : CloseSession(user, x) => timed_out' = timed_out
      BY DEF CloseSession
    <3> QED
      BY <2>1, <3>1, <3>2, <3>3, <3>4
         DEF Request, ListSessions, GetSessionInfo, Refused, vars
  <2>2. Tick => timed_out' = timed_out
    BY DEF Tick
  <2>3. \A x \in SessionIds : UnlistExpired(x) => timed_out' = timed_out
    BY DEF UnlistExpired
  <2> QED
    BY <1>0, <2>1, <2>2, <2>3 DEF Next, Expiry, vars
<1>2. id = i /\ id \in DOMAIN sessions /\ sessions[id].ttl = 0
  BY <1>1 DEF ExpireSession
<1> QED
  BY <1>2, TimeoutAssumption DEF ClockInv, TypeOK

\* The expiry task takes only sessions that saw no accepted send and no
\* non-empty receive for SESSION_TIMEOUT.
THEOREM ExpiryIsNotEarly == Spec => NoEarlyExpiry
<1>1. Init => TypeOK /\ ClockInv
  BY InitType DEF Init, ClockInv
<1>2. TypeOK /\ ClockInv /\ [Next]_vars => (TypeOK /\ ClockInv)'
  BY NextType, NextClock
<1>3. TypeOK /\ ClockInv /\ [Next]_vars =>
         [\A id \in SessionIds :
             id \in timed_out' \ timed_out => idle[id] = SESSION_TIMEOUT]_vars
  BY ExpiryStep
<1> QED
  BY <1>1, <1>2, <1>3, PTL DEF Spec, NoEarlyExpiry

-----------------------------------------------------------------------------
(* The session commands.                                                   *)

\* The records of `cmd'.
CommandRecords ==
    [pc        : {"info", "close", "ok", "error", "lost"},
     close_all : BOOLEAN,
     todo      : SUBSET SessionIds,
     current   : SessionIds \cup {NoSession},
     listed    : SUBSET SessionIds,
     dead      : SUBSET SessionIds,
     mine      : SUBSET SessionIds]

\* What a command c of u relies on.  What it has listed are sessions that u
\* is a member of, all that u coordinated among them.  It is not done with
\* those that were dead by then, nor, if it closes, with any that is live.  It
\* stops at one that is dead or that somebody else coordinates.
CommandOK(u, c) ==
    /\ c.todo \subseteq c.listed
    /\ c.dead \subseteq c.listed
    /\ c.mine \subseteq c.listed
    /\ \A id \in c.listed : id \in DOMAIN created /\ u \in Members(created[id])
    /\ c.dead \cap DOMAIN sessions = {}
    /\ c.pc \in {"info", "close"} =>
          /\ c.dead \subseteq c.todo
          /\ c.close_all => (c.listed \ c.todo) \cap DOMAIN sessions = {}
    /\ c.pc = "close" => c.current \in c.todo /\ c.close_all
    /\ c.pc = "ok" =>
          /\ c.dead = {}
          /\ c.close_all => c.listed \cap DOMAIN sessions = {}
    /\ c.pc = "error" =>
          /\ c.current \in c.todo
          /\ c.current \in DOMAIN sessions =>
                c.close_all /\ created[c.current].coordinator_pubkey # u

CommandInv ==
    /\ cmd \in [PublicKeys -> CommandRecords]
    /\ \A u \in PublicKeys : CommandOK(u, cmd[u])

\* Ids are never reused: what is not live does not come back, and who is in a
\* session, and coordinates it, never changes.
LEMMA StoreStep ==
    ASSUME TypeOK, IndexInv, [Next]_vars
    PROVE  /\ DOMAIN created \subseteq DOMAIN created'
           /\ \A id \in DOMAIN created : created'[id] = created[id]
           /\ DOMAIN sessions' \cap DOMAIN created \subseteq DOMAIN sessions
<1> DEFINE Goal == /\ DOMAIN created \subseteq DOMAIN created'
                   /\ \A id \in DOMAIN created : created'[id] = created[id]
                   /\ DOMAIN sessions' \cap DOMAIN created \subseteq DOMAIN sessions
<1>1. ASSUME NEW user \in PublicKeys, NEW pks \in SUBSET PublicKeys,
             NEW n \in MessageCounts, NEW id \in SessionIds,
             CreateNewSession(user, pks, n, id)
      PROVE  Goal
  BY <1>1 DEF CreateNewSession
<1>2. ASSUME NEW user \in PublicKeys, NEW id \in SessionIds,
             NEW rs \in Recipients, NEW m \in Messages, Send(user, id, rs, m)
      PROVE  Goal
  BY <1>2 DEF Send
<1>3. ASSUME NEW user \in PublicKeys, NEW id \in SessionIds,
             NEW ac \in BOOLEAN, Receive(user, id, ac)
      PROVE  Goal
  BY <1>3 DEF Receive
<1>4. ASSUME NEW user \in PublicKeys, NEW id \in SessionIds,
             CloseSession(user, id)
      PROVE  Goal
  BY <1>4 DEF CloseSession
<1>5. CASE Tick
  BY <1>5 DEF Tick
<1>6. ASSUME NEW id \in SessionIds, ExpireSession(id) \/ UnlistExpired(id)
      PROVE  Goal
  BY <1>6 DEF ExpireSession, UnlistExpired
<1>7. CASE UNCHANGED vars
  BY <1>7 DEF vars
<1> QED
  BY <1>1, <1>2, <1>3, <1>4, <1>5, <1>6, <1>7
     DEF Next, Request, Expiry, ListSessions, GetSessionInfo, Refused

\* Whatever the store does meanwhile, a command can still rely on what it did.
LEMMA CommandKept ==
    ASSUME TypeOK, IndexInv, [Next]_vars, NEW u \in PublicKeys,
           NEW CONSTANT c \in CommandRecords, CommandOK(u, c)
    PROVE  CommandOK(u, c)'
<1>1. /\ DOMAIN created \subseteq DOMAIN created'
      /\ \A id \in DOMAIN created : created'[id] = created[id]
      /\ DOMAIN sessions' \cap DOMAIN created \subseteq DOMAIN sessions
  BY StoreStep
<1> QED
  BY <1>1 DEF CommandOK, CommandRecords, Members

\* So the commands that do not step keep what they rely on, and so does the
\* one of u if it steps to a c that does.
LEMMA OthersKept ==
    ASSUME TypeOK, IndexInv, CommandInv, [Next]_vars,
           NEW u \in PublicKeys, NEW CONSTANT c \in CommandRecords,
           cmd' = [cmd EXCEPT ![u] = c], CommandOK(u, c)'
    PROVE  CommandInv'
<1>1. cmd' \in [PublicKeys -> CommandRecords]
  BY DEF CommandInv
<1>2. ASSUME NEW v \in PublicKeys PROVE CommandOK(v, cmd[v])'
  <2>1. CASE v = u
    <3>1. cmd'[v] = c
      BY <2>1 DEF CommandInv
    <3> QED  BY <2>1, <3>1 DEF CommandOK
  <2>2. CASE v # u
    <3> PICK d : d = cmd[v]
      OBVIOUS
    <3>1. d \in CommandRecords /\ CommandOK(v, d) /\ cmd'[v] = d
      BY <2>2 DEF CommandInv
    <3>2. CommandOK(v, d)'
      BY <3>1, CommandKept
    <3> QED  BY <3>1, <3>2 DEF CommandOK
  <2> QED  BY <2>1, <2>2
<1> QED  BY <1>1, <1>2 DEF CommandInv

\* No command steps.
LEMMA AllKept ==
    ASSUME TypeOK, IndexInv, CommandInv, [Next]_vars, UNCHANGED cmd
    PROVE  CommandInv'
<1>1. ASSUME NEW v \in PublicKeys PROVE CommandOK(v, cmd[v])'
  <2> PICK d : d = cmd[v]
    OBVIOUS
  <2>1. d \in CommandRecords /\ CommandOK(v, d) /\ cmd'[v] = d
    BY DEF CommandInv
  <2>2. CommandOK(v, d)'
    BY <2>1, CommandKept
  <2> QED  BY <2>1, <2>2 DEF CommandOK
<1> QED  BY <1>1 DEF CommandInv

\* Command c with another pc, todo and current.
Stepped(c, pc, todo, current) ==
    [pc        |-> pc,
     close_all |-> c.close_all,
     todo      |-> todo,
     current   |-> current,
     listed    |-> c.listed,
     dead      |-> c.dead,
     mine      |-> c.mine]

\* The commands f after that of u steps to c, and the updates of `cmd' that
\* the model has: when a call fails, when the command stops at a session or
\* goes on to close it, and when it is done with one.
With(f, u, c) == [f EXCEPT ![u] = c]

WithPc(f, u, pc) == [f EXCEPT ![u].pc = pc]

WithCurrent(f, u, pc, current) == [f EXCEPT ![u].pc = pc, ![u].current = current]

WithTodo(f, u, pc, todo, current) ==
    [f EXCEPT ![u].todo = todo, ![u].current = current, ![u].pc = pc]

\* What these updates make of the command of u.
LEMMA CommandSteps ==
    ASSUME NEW f \in [PublicKeys -> CommandRecords], NEW u \in PublicKeys,
           NEW pc, NEW current, NEW todo
    PROVE  /\ WithPc(f, u, pc) =
                 With(f, u, Stepped(f[u], pc, f[u].todo, f[u].current))
           /\ WithCurrent(f, u, pc, current) =
                 With(f, u, Stepped(f[u], pc, f[u].todo, current))
           /\ WithTodo(f, u, pc, todo, current) =
                 With(f, u, Stepped(f[u], pc, todo, current))
<1>0. PICK c \in CommandRecords : c = f[u]
  OBVIOUS
<1>1. [f EXCEPT ![u].pc = pc] = [f EXCEPT ![u] = [c EXCEPT !.pc = pc]]
  BY <1>0
<1>2. [f EXCEPT ![u].pc = pc, ![u].current = current] =
      [f EXCEPT ![u] = [c EXCEPT !.pc = pc, !.current = current]]
  BY <1>0
<1>3. [f EXCEPT ![u].todo = todo, ![u].current = current, ![u].pc = pc] =
      [f EXCEPT ![u] = [c EXCEPT !.todo = todo, !.current = current, !.pc = pc]]
  BY <1>0
<1>4. /\ [c EXCEPT !.pc = pc] = Stepped(c, pc, c.todo, c.current)
      /\ [c EXCEPT !.pc = pc, !.current = current] =
            Stepped(c, pc, c.todo, current)
      /\ [c EXCEPT !.todo = todo, !.current = current, !.pc = pc] =
            Stepped(c, pc, todo, current)
  <2> DEFINE c1 == Stepped(c, pc, c.todo, c.current)
             c2 == Stepped(c, c.pc, todo, c.current)
             c3 == Stepped(c, c.pc, todo, current)
  <2>1. [c EXCEPT !.pc = pc] = c1
    BY DEF CommandRecords, Stepped
  <2>2. [c1 EXCEPT !.current = current] = Stepped(c, pc, c.todo, current)
    BY DEF Stepped
  <2>3. [c EXCEPT !.todo = todo] = c2
    BY DEF CommandRecords, Stepped
  <2>4. [c2 EXCEPT !.current = current] = c3
    BY DEF Stepped
  <2>5. [c3 EXCEPT !.pc = pc] = Stepped(c, pc, todo, current)
    BY DEF Stepped
  <2> HIDE DEF c1, c2, c3
  <2>6. [c EXCEPT !.pc = pc, !.current = current] =
        [[c EXCEPT !.pc = pc] EXCEPT !.current = current]
    BY Zenon
  <2>7. [c EXCEPT !.pc = pc, !.current = current] =
           Stepped(c, pc, c.todo, current)
    BY <2>6, <2>1, <2>2, Zenon
  <2>8. [c EXCEPT !.todo = todo, !.current = current, !.pc = pc] =
        [[[c EXCEPT !.todo = todo] EXCEPT !.current = current] EXCEPT !.pc = pc]
    BY Zenon
  <2>9. [c EXCEPT !.todo = todo, !.current = current, !.pc = pc] =
           Stepped(c, pc, todo, current)
    BY <2>8, <2>3, <2>4, <2>5, Zenon
  <2> QED  BY <2>1, <2>7, <2>9 DEF c1
<1> QED
  BY <1>0, <1>1, <1>2, <1>3, <1>4, Zenon
     DEF With, WithPc, WithCurrent, WithTodo

\* The command steps to a record of a command.
LEMMA SteppedType ==
    ASSUME NEW c \in CommandRecords,
           NEW pc \in {"info", "close", "ok", "error", "lost"},
           NEW todo \in SUBSET SessionIds,
           NEW current \in SessionIds \cup {NoSession}
    PROVE  Stepped(c, pc, todo, current) \in CommandRecords
BY DEF Stepped, CommandRecords

\* list_sessions lists every session of its user that is live.
LEMMA ListStep ==
    ASSUME TypeOK, IndexInv, CommandInv, NEW u \in PublicKeys,
           NEW close_all \in BOOLEAN, List(u, close_all)
    PROVE  CommandInv'
<1> DEFINE ids == sessions_by_pubkey[u]
<1>1. PICK c : c = [pc        |-> IF ids = {} THEN "ok" ELSE "info",
                    close_all |-> close_all,
                    todo      |-> ids,
                    current   |-> NoSession,
                    listed    |-> ids,
                    dead      |-> ids \ DOMAIN sessions,
                    mine      |-> {id \in DOMAIN sessions :
                                     sessions[id].coordinator_pubkey = u}]
  OBVIOUS
<1>2. cmd' = [cmd EXCEPT ![u] = c] /\ UNCHANGED vars
  BY <1>1 DEF List
<1>3. ids \subseteq SessionIds /\ DOMAIN sessions \subseteq SessionIds
  BY DEF TypeOK
<1>4. c \in CommandRecords
  BY <1>1, <1>3 DEF CommandRecords
<1>5. c.mine \subseteq ids
  BY <1>1 DEF IndexInv, LiveSessionsListed, Members
<1>6. \A id \in ids : id \in DOMAIN created /\ u \in Members(created[id])
  BY DEF IndexInv, StaleEntriesExplained
<1>7. CommandOK(u, c)
  BY <1>1, <1>5, <1>6 DEF CommandOK
<1>8. CommandOK(u, c)'
  BY <1>2, <1>4, <1>7, CommandKept
<1> QED  BY <1>2, <1>4, <1>8, OthersKept

\* get_session_info fails only for a session that has ended: while it lives,
\* its members have it listed.
LEMMA InfoStep ==
    ASSUME TypeOK, IndexInv, CommandInv, NEW u \in PublicKeys,
           NEW id \in SessionIds, Info(u, id)
    PROVE  CommandInv'
<1>1. PICK c \in CommandRecords : c = cmd[u] /\ CommandOK(u, c)
  BY DEF CommandInv
<1>2. cmd \in [PublicKeys -> CommandRecords]
  BY DEF CommandInv
<1>3. c.pc = "info" /\ id \in c.todo /\ c.todo \in SUBSET SessionIds
  BY <1>1 DEF Info, CommandRecords
<1>4. UNCHANGED vars
  BY DEF Info
<1>5. ASSUME NEW CONSTANT d \in CommandRecords, CommandOK(u, d),
             cmd' = [cmd EXCEPT ![u] = d]
      PROVE  CommandInv'
  BY <1>4, <1>5, CommandKept, OthersKept
<1>6. CASE GetSessionInfoResult(u, id) # "Ok"
  <2>1. PICK d : d = Stepped(c, "error", c.todo, id)
    OBVIOUS
  <2>2. cmd' = [cmd EXCEPT ![u] = d]
    <3>1. cmd' = WithCurrent(cmd, u, "error", id)
      BY <1>6 DEF Info, EndWithError, WithCurrent
    <3>2. cmd' = With(cmd, u, d)
      BY <1>1, <1>2, <2>1, <3>1, CommandSteps
    <3> QED  BY <3>2 DEF With
  <2>3. d \in CommandRecords
    BY <1>3, <2>1, SteppedType
  <2>4. id \notin DOMAIN sessions
    <3>1. u \in Members(created[id])
      BY <1>1, <1>3 DEF CommandOK
    <3>2. id \in DOMAIN sessions => u \in Members(sessions[id])
      BY <3>1 DEF IndexInv, HistoryLinked, Members
    <3> QED
      BY <1>6, <3>2
         DEF IndexInv, LiveSessionsListed, GetSessionInfoResult
  <2>5. CommandOK(u, d)
    BY <1>1, <1>3, <2>1, <2>4 DEF CommandOK, Stepped
  <2> QED  BY <1>5, <2>2, <2>3, <2>5
<1>7. CASE GetSessionInfoResult(u, id) = "Ok" /\ c.close_all
  <2>1. PICK d : d = Stepped(c, "close", c.todo, id)
    OBVIOUS
  <2>2. cmd' = [cmd EXCEPT ![u] = d]
    <3>1. cmd' = WithCurrent(cmd, u, "close", id)
      BY <1>1, <1>7 DEF Info, WithCurrent
    <3>2. cmd' = With(cmd, u, d)
      BY <1>1, <1>2, <2>1, <3>1, CommandSteps
    <3> QED  BY <3>2 DEF With
  <2>3. d \in CommandRecords
    BY <1>3, <2>1, SteppedType
  <2>5. CommandOK(u, d)
    BY <1>1, <1>3, <1>7, <2>1 DEF CommandOK, Stepped
  <2> QED  BY <1>5, <2>2, <2>3, <2>5
<1>8. CASE GetSessionInfoResult(u, id) = "Ok" /\ ~c.close_all
  <2>1. PICK d : d = Stepped(c, IF c.todo = {id} THEN "ok" ELSE "info",
                             c.todo \ {id}, NoSession)
    OBVIOUS
  <2>2. cmd' = [cmd EXCEPT ![u] = d]
    <3>1. Advance(u, id)
      BY <1>1, <1>8 DEF Info
    <3>2. cmd' = WithTodo(cmd, u, IF c.todo = {id} THEN "ok" ELSE "info",
                             c.todo \ {id}, NoSession)
      BY <1>1, <3>1 DEF Advance, WithTodo
    <3>3. cmd' = With(cmd, u, d)
      BY <1>1, <1>2, <2>1, <3>2, CommandSteps
    <3> QED  BY <3>3 DEF With
  <2>3. d \in CommandRecords
    BY <1>3, <2>1, SteppedType
  <2>4. id \notin c.dead
    BY <1>1, <1>8 DEF CommandOK, GetSessionInfoResult
  <2>5. CommandOK(u, d)
    BY <1>1, <1>3, <1>8, <2>1, <2>4 DEF CommandOK, Stepped
  <2> QED  BY <1>5, <2>2, <2>3, <2>5
<1> QED  BY <1>6, <1>7, <1>8

\* close_session takes the session away, or fails for one that has ended or
\* that its caller does not coordinate.
LEMMA CloseStep ==
    ASSUME TypeOK, IndexInv, CommandInv, NEW u \in PublicKeys, Close(u)
    PROVE  CommandInv'
<1>1. PICK c \in CommandRecords : c = cmd[u] /\ CommandOK(u, c)
  BY DEF CommandInv
<1>2. cmd \in [PublicKeys -> CommandRecords]
  BY DEF CommandInv
<1>3. PICK id : id = c.current
  OBVIOUS
<1>4. /\ c.pc = "close" /\ c.close_all
      /\ id \in c.todo /\ c.todo \in SUBSET SessionIds /\ id \in SessionIds
  BY <1>1, <1>3 DEF Close, CommandOK, CommandRecords
<1>5. CASE CloseSessionResult(u, id) = "Ok"
  <2>1. CloseSession(u, id) /\ Advance(u, id)
    BY <1>1, <1>3, <1>5 DEF Close
  <2>2. PICK d : d = Stepped(c, IF c.todo = {id} THEN "ok" ELSE "info",
                             c.todo \ {id}, NoSession)
    OBVIOUS
  <2>3. cmd' = [cmd EXCEPT ![u] = d]
    <3>1. cmd' = WithTodo(cmd, u, IF c.todo = {id} THEN "ok" ELSE "info",
                             c.todo \ {id}, NoSession)
      BY <1>1, <2>1 DEF Advance, WithTodo
    <3>2. cmd' = With(cmd, u, d)
      BY <1>1, <1>2, <2>2, <3>1, CommandSteps
    <3> QED  BY <3>2 DEF With
  <2>4. d \in CommandRecords
    BY <1>4, <2>2, SteppedType
  <2>5. [Next]_vars
    BY <1>4, <2>1 DEF Next, Request
  <2>6. CommandOK(u, c)'
    BY <1>1, <2>5, CommandKept
  <2>7. id \notin DOMAIN sessions' /\ id \notin c.dead
    BY <1>1, <1>5, <2>1 DEF CloseSession, CloseSessionResult, CommandOK
  <2>8. CommandOK(u, d)'
    BY <1>4, <2>2, <2>6, <2>7 DEF CommandOK, Stepped
  <2> QED  BY <2>3, <2>4, <2>5, <2>8, OthersKept
<1>6. CASE CloseSessionResult(u, id) # "Ok"
  <2>1. EndWithError(u, id) /\ UNCHANGED vars
    BY <1>1, <1>3, <1>6 DEF Close
  <2>2. PICK d : d = Stepped(c, "error", c.todo, id)
    OBVIOUS
  <2>3. cmd' = [cmd EXCEPT ![u] = d]
    <3>1. cmd' = WithCurrent(cmd, u, "error", id)
      BY <2>1 DEF EndWithError, WithCurrent
    <3>2. cmd' = With(cmd, u, d)
      BY <1>1, <1>2, <2>2, <3>1, CommandSteps
    <3> QED  BY <3>2 DEF With
  <2>4. d \in CommandRecords
    BY <1>4, <2>2, SteppedType
  <2>5. id \in DOMAIN sessions => created[id].coordinator_pubkey # u
    <3>1. u \in Members(created[id])
      BY <1>1, <1>4 DEF CommandOK
    <3>2. id \in DOMAIN sessions =>
             /\ u \in Members(sessions[id])
             /\ sessions[id].coordinator_pubkey = created[id].coordinator_pubkey
      BY <3>1 DEF IndexInv, HistoryLinked, Members
    <3> QED
      BY <1>6, <3>2 DEF IndexInv, LiveSessionsListed, CloseSessionResult
  <2>6. CommandOK(u, d)
    BY <1>1, <1>4, <2>2, <2>5 DEF CommandOK, Stepped
  <2> QED  BY <2>1, <2>3, <2>4, <2>6, CommandKept, OthersKept
<1> QED  BY <1>5, <1>6

\* A command that a failing call ends claims nothing.
LEMMA CallFailsStep ==
    ASSUME TypeOK, IndexInv, CommandInv, NEW u \in PublicKeys, CallFails(u)
    PROVE  CommandInv'
<1>1. PICK c \in CommandRecords : c = cmd[u] /\ CommandOK(u, c)
  BY DEF CommandInv
<1>2. cmd \in [PublicKeys -> CommandRecords]
  BY DEF CommandInv
<1>3. PICK d : d = Stepped(c, "lost", c.todo, c.current)
  OBVIOUS
<1>4. cmd' = [cmd EXCEPT ![u] = d] /\ UNCHANGED vars
  <2>1. cmd' = WithPc(cmd, u, "lost") /\ UNCHANGED vars
    BY DEF CallFails, WithPc
  <2>2. cmd' = With(cmd, u, d)
    BY <1>1, <1>2, <1>3, <2>1, CommandSteps
  <2> QED  BY <2>1, <2>2 DEF With
<1>5. c.todo \in SUBSET SessionIds /\ c.current \in SessionIds \cup {NoSession}
  BY DEF CommandRecords
<1>6. d \in CommandRecords
  BY <1>3, <1>5, SteppedType
<1>7. CommandOK(u, d)
  BY <1>1, <1>3 DEF CommandOK, Stepped
<1> QED  BY <1>4, <1>6, <1>7, CommandKept, OthersKept

\* Every step of a command is a step of the store or leaves it alone.
LEMMA CommandNextIsNext ==
    TypeOK /\ CommandInv /\ [CommandNext]_cmdVars => [Next]_vars
<1> SUFFICES ASSUME TypeOK, CommandInv, [CommandNext]_cmdVars
             PROVE  [Next]_vars
  OBVIOUS
<1>1. ASSUME NEW u \in PublicKeys, Close(u) PROVE [Next]_vars
  <2>1. PICK c \in CommandRecords : c = cmd[u] /\ CommandOK(u, c)
    BY DEF CommandInv
  <2>2. c.current \in SessionIds
    BY <1>1, <2>1 DEF Close, CommandOK, CommandRecords
  <2>3. CloseSession(u, c.current) \/ UNCHANGED vars
    BY <1>1, <2>1 DEF Close
  <2> QED  BY <2>2, <2>3 DEF Next, Request
<1> QED
  BY <1>1 DEF CommandNext, cmdVars, List, Info, CallFails

\* So the commands keep what they rely on.
LEMMA CommandInvKept ==
    TypeOK /\ IndexInv /\ CommandInv /\ [CommandNext]_cmdVars => CommandInv'
<1> SUFFICES ASSUME TypeOK, IndexInv, CommandInv, [CommandNext]_cmdVars
             PROVE  CommandInv'
  OBVIOUS
<1>1. CASE [Next]_vars /\ UNCHANGED cmd
  BY <1>1, AllKept
<1>2. ASSUME NEW u \in PublicKeys, NEW close_all \in BOOLEAN, List(u, close_all)
      PROVE  CommandInv'
  BY <1>2, ListStep
<1>3. ASSUME NEW u \in PublicKeys, NEW id \in SessionIds, Info(u, id)
      PROVE  CommandInv'
  BY <1>3, InfoStep
<1>4. ASSUME NEW u \in PublicKeys, Close(u)
      PROVE  CommandInv'
  BY <1>4, CloseStep
<1>5. ASSUME NEW u \in PublicKeys, CallFails(u)
      PROVE  CommandInv'
  BY <1>5, CallFailsStep
<1>6. CASE UNCHANGED cmdVars
  BY <1>1, <1>6 DEF cmdVars
<1> QED
  BY <1>1, <1>2, <1>3, <1>4, <1>5, <1>6 DEF CommandNext

\* A user who has not run a command yet relies on nothing.
LEMMA CommandInitInv == CommandInit => TypeOK /\ IndexInv /\ CommandInv
<1> SUFFICES ASSUME CommandInit PROVE  TypeOK /\ IndexInv /\ CommandInv
  OBVIOUS
<1>1. TypeOK /\ IndexInv
  BY InitType, InitIndex DEF CommandInit
<1>2. NoCommand \in CommandRecords
  BY DEF NoCommand, CommandRecords
<1>3. cmd = [u \in PublicKeys |-> NoCommand]
  BY DEF CommandInit
<1>4. \A u \in PublicKeys : CommandOK(u, NoCommand)
  BY DEF NoCommand, CommandOK
<1> QED
  BY <1>1, <1>2, <1>3, <1>4 DEF CommandInv

\* What the end of `frost-client sessions' tells its user is true, whatever
\* the others do to the sessions between its calls: a success means that all
\* it listed was live and, with --close-all, is gone, with nothing that its
\* user coordinated missing; an error is about a session that has ended or
\* that somebody else coordinates.
THEOREM CommandsTellTheTruth == CommandSpec => []CommandOutcomes
<1> DEFINE Inv == TypeOK /\ IndexInv /\ CommandInv
<1>1. CommandInit => Inv
  BY CommandInitInv
<1>2. Inv /\ [CommandNext]_cmdVars => Inv'
  BY CommandNextIsNext, CommandInvKept, NextType, NextIndex
<1>3. Inv => CommandOutcomes
  <2> SUFFICES ASSUME Inv, NEW u \in PublicKeys
               PROVE  CommandOutcomes!(u)
    BY DEF CommandOutcomes
  <2>1. CommandOK(u, cmd[u])
    BY DEF CommandInv
  <2>2. \A id \in DOMAIN sessions :
           sessions[id].coordinator_pubkey = created[id].coordinator_pubkey
    BY DEF IndexInv, HistoryLinked
  <2> QED
    BY <2>1, <2>2 DEF CommandOK
<1> QED
  BY <1>1, <1>2, <1>3, PTL DEF CommandSpec

=============================================================================
