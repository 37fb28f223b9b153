---------------------------- MODULE FrostdProofs -----------------------------
(***************************************************************************)
(* Proofs about the frostd server as a whole, for every value of the       *)
(* constants of its two parts.                                             *)
(*                                                                         *)
(* The argument: a step of the server is a step or a stutter of each part, *)
(* so the invariants proved of FrostdAuth and of FrostdSessions hold here. *)
(* A request that is handled was authenticated, and the key it is handled  *)
(* for is the one the authentication found; the properties of the server   *)
(* follow from what the handlers do for that key.                          *)
(***************************************************************************)
EXTENDS Frostd, SequenceTheorems, TLAPS

\* Nobody is running a command in this module, which only uses the theorems
\* about the store.
NoSession == CHOOSE id : id \notin SessionIds

\* The two parts again, with the theorems proved about them.
AuthP == INSTANCE FrostdAuthProofs
StoreP == INSTANCE FrostdSessionsProofs WITH cmd <- <<>>

\* What the session commands assume of this constant.
LEMMA NoSessionIsNone == NoSession \notin SessionIds
  BY NoSetContainsEverything DEF NoSession

-----------------------------------------------------------------------------
(* Store and StoreP, and Auth and AuthP, are the same modules under the    *)
(* same substitution; the provers have to be shown.                        *)

\* The operators the handlers are built from are the same.
LEMMA SameOperators ==
    /\ Store!SessionParticipant = StoreP!SessionParticipant
    /\ Store!NoMessages = StoreP!NoMessages
    /\ Store!Recipients = StoreP!Recipients
    /\ \A f : Store!Range(f) = StoreP!Range(f)
    /\ \A rs, s, m : Store!Copies(rs, s, m) = StoreP!Copies(rs, s, m)
    /\ \A id, q, ttl : Store!Updated(id, q, ttl) = StoreP!Updated(id, q, ttl)
    /\ \A u, id : Store!InSession(u, id) <=> StoreP!InSession(u, id)
<1>2. Store!SessionParticipant = StoreP!SessionParticipant
  BY DEF Store!SessionParticipant, StoreP!SessionParticipant
<1>3. Store!NoMessages = StoreP!NoMessages
  BY <1>2 DEF Store!NoMessages, StoreP!NoMessages
<1>4. Store!Recipients = StoreP!Recipients
  BY DEF Store!Recipients, StoreP!Recipients, Store!BoundedSeq,
         StoreP!BoundedSeq, Store!SeqOf, StoreP!SeqOf
<1>5. ASSUME NEW f PROVE Store!Range(f) = StoreP!Range(f)
  BY DEF Store!Range, StoreP!Range
<1>6. ASSUME NEW S PROVE Store!Cardinality(S) = StoreP!Cardinality(S)
  BY DEF Store!Cardinality, StoreP!Cardinality
<1>7. ASSUME NEW rs, NEW s, NEW m
      PROVE  Store!Copies(rs, s, m) = StoreP!Copies(rs, s, m)
  BY <1>6 DEF Store!Copies, StoreP!Copies, Store!Slots, StoreP!Slots
<1>8. ASSUME NEW id, NEW q, NEW ttl
      PROVE  Store!Updated(id, q, ttl) = StoreP!Updated(id, q, ttl)
  BY DEF Store!Updated, StoreP!Updated
<1>9. ASSUME NEW u, NEW id
      PROVE  Store!InSession(u, id) <=> StoreP!InSession(u, id)
  BY DEF Store!InSession, StoreP!InSession
<1> QED
  BY <1>2, <1>3, <1>4, <1>5, <1>7, <1>8, <1>9

\* So are the handlers.
LEMMA SameRequest == ASSUME NEW u PROVE Store!Request(u) <=> StoreP!Request(u)
<1>1. ASSUME NEW pks, NEW n, NEW id
      PROVE  /\ Store!CreateNewSessionResult(u, pks, n)
                    = StoreP!CreateNewSessionResult(u, pks, n)
             /\ Store!CreateNewSession(u, pks, n, id)
                    <=> StoreP!CreateNewSession(u, pks, n, id)
  BY SameOperators
  DEF Store!CreateNewSessionResult, StoreP!CreateNewSessionResult,
      Store!CreateNewSession, StoreP!CreateNewSession
<1>2. ASSUME NEW id, NEW rs, NEW m
      PROVE  /\ Store!SendResult(u, id, rs, m) = StoreP!SendResult(u, id, rs, m)
             /\ Store!Send(u, id, rs, m) <=> StoreP!Send(u, id, rs, m)
  <2>1. Store!SendResult(u, id, rs, m) = StoreP!SendResult(u, id, rs, m)
    BY SameOperators DEF Store!SendResult, StoreP!SendResult
  <2> QED
    BY <2>1, SameOperators DEF Store!Send, StoreP!Send
<1>3. ASSUME NEW id, NEW c
      PROVE  /\ Store!ReceiveResult(u, id) = StoreP!ReceiveResult(u, id)
             /\ Store!Receive(u, id, c) <=> StoreP!Receive(u, id, c)
  BY SameOperators
  DEF Store!Receive, StoreP!Receive, Store!ReceiveResult, StoreP!ReceiveResult,
      Store!ReceiveSlot, StoreP!ReceiveSlot
<1>4. ASSUME NEW id
      PROVE  /\ Store!CloseSessionResult(u, id) = StoreP!CloseSessionResult(u, id)
             /\ Store!CloseSession(u, id) <=> StoreP!CloseSession(u, id)
  BY DEF Store!CloseSession, StoreP!CloseSession,
         Store!CloseSessionResult, StoreP!CloseSessionResult
<1>5. ASSUME NEW id
      PROVE  /\ Store!GetSessionInfoResult(u, id) = StoreP!GetSessionInfoResult(u, id)
             /\ Store!GetSessionInfo(u, id) <=> StoreP!GetSessionInfo(u, id)
  BY DEF Store!vars, StoreP!vars, Store!GetSessionInfo, StoreP!GetSessionInfo,
         Store!GetSessionInfoResult, StoreP!GetSessionInfoResult
<1>6. Store!ListSessions(u) <=> StoreP!ListSessions(u)
  BY DEF Store!ListSessions, StoreP!ListSessions, Store!vars, StoreP!vars
<1>7. Store!Refused(u) <=> StoreP!Refused(u)
  BY <1>1, <1>2, <1>3, <1>4, <1>5, SameOperators
  DEF Store!Refused, StoreP!Refused, Store!vars, StoreP!vars
<1> QED
  BY <1>1, <1>2, <1>3, <1>4, <1>5, <1>6, <1>7, SameOperators
  DEF Store!Request, StoreP!Request

\* So are its clock and its expiry task.
LEMMA SameClock ==
    /\ Store!Tick <=> StoreP!Tick
    /\ Store!Expiry <=> StoreP!Expiry
<1>1. Store!Tick <=> StoreP!Tick
  BY SameOperators DEF Store!Tick, StoreP!Tick
<1>2. Store!Expiry <=> StoreP!Expiry
  BY DEF Store!Expiry, StoreP!Expiry, Store!ExpireSession, StoreP!ExpireSession,
         Store!UnlistExpired, StoreP!UnlistExpired
<1> QED
  BY <1>1, <1>2

\* And so is the whole store.
LEMMA SameStore ==
    /\ Store!Init <=> StoreP!Init
    /\ [Store!Next]_(Store!vars) <=> [StoreP!Next]_(StoreP!vars)
<1>1. Store!Init <=> StoreP!Init
  BY SameOperators DEF Store!Init, StoreP!Init
<1> QED
  BY <1>1, SameRequest, SameClock DEF Store!Next, StoreP!Next, Store!vars, StoreP!vars

\* The same of the authentication: first of the two ends of a request.
LEMMA SameAnswer ==
    ASSUME NEW r
    PROVE  /\ Auth!Logout(r) <=> AuthP!Logout(r)
           /\ Auth!Answer(r) <=> AuthP!Answer(r)
  BY DEF Auth!Logout, AuthP!Logout, Auth!Answer, AuthP!Answer,
         Auth!Restrict, AuthP!Restrict

\* The rest of it.
LEMMA SameAuth ==
    /\ Auth!AuthInit <=> AuthP!AuthInit
    /\ Auth!AuthStep <=> AuthP!AuthStep
<1>1. Auth!AuthInit <=> AuthP!AuthInit
  BY DEF Auth!AuthInit, AuthP!AuthInit
<1>2. ASSUME NEW c
      PROVE  /\ Auth!Challenge(c) <=> AuthP!Challenge(c)
             /\ Auth!ExpireChallenge(c) <=> AuthP!ExpireChallenge(c)
  BY DEF Auth!Challenge, AuthP!Challenge, Auth!ExpireChallenge,
         AuthP!ExpireChallenge, Auth!Restrict, AuthP!Restrict
<1>3. ASSUME NEW c, NEW pk
      PROVE  /\ Auth!LoginResult(c, pk) = AuthP!LoginResult(c, pk)
             /\ Auth!Sign(c, pk) <=> AuthP!Sign(c, pk)
             /\ Auth!LoginConsume(c, pk) <=> AuthP!LoginConsume(c, pk)
  BY DEF Auth!LoginResult, AuthP!LoginResult, Auth!Sign, AuthP!Sign,
         Auth!LoginConsume, AuthP!LoginConsume, Auth!Restrict, AuthP!Restrict
<1>4. ASSUME NEW l, NEW t PROVE Auth!LoginIssue(l, t) <=> AuthP!LoginIssue(l, t)
  BY DEF Auth!LoginIssue, AuthP!LoginIssue
<1>5. ASSUME NEW r, NEW t PROVE Auth!Authenticate(r, t) <=> AuthP!Authenticate(r, t)
  BY DEF Auth!Authenticate, AuthP!Authenticate
<1>6. ASSUME NEW t PROVE Auth!ExpireToken(t) <=> AuthP!ExpireToken(t)
  BY DEF Auth!ExpireToken, AuthP!ExpireToken, Auth!Restrict, AuthP!Restrict
<1>7. Auth!AuthTick <=> AuthP!AuthTick
  BY DEF Auth!AuthTick, AuthP!AuthTick, Auth!Older, AuthP!Older
<1>8. Auth!Unauthorized <=> AuthP!Unauthorized
  BY <1>3 DEF Auth!Unauthorized, AuthP!Unauthorized, Auth!authVars, AuthP!authVars
<1> QED
  BY <1>1, <1>2, <1>3, <1>4, <1>5, <1>6, <1>7, <1>8
  DEF Auth!AuthStep, AuthP!AuthStep

-----------------------------------------------------------------------------
(* The server implements its two parts.                                    *)

\* What frostd does to the challenges, tokens and requests is what
\* FrostdAuth allows: handling a request is answering it.
LEMMA ImplementsAuth == Spec => AuthP!AuthSpec
<1>1. Init => AuthP!AuthInit
  BY SameAuth DEF Init
<1>2. [Next]_vars => [AuthP!AuthNext]_(AuthP!authVars)
  BY SameAuth, SameAnswer
  DEF Next, vars, authVars, AuthStep, Logout, Handle, StoreStep,
      AuthP!AuthNext, AuthP!authVars
<1> QED
  BY <1>1, <1>2, PTL DEF Spec, AuthP!AuthSpec

\* So its invariants hold in frostd.
LEMMA ServerAuthInvariant == Spec => [](AuthP!AuthTypeOK /\ AuthP!AuthInv)
  BY ImplementsAuth, AuthP!AuthInvariant, FrostdAuthAssumption, PTL

\* A request that is being served has a user: the key of one who has proved to
\* own it.
Proved == {p[2] : p \in signed}

LEMMA ServedFor ==
    ASSUME AuthP!AuthTypeOK, AuthP!AuthInv,
           NEW r \in Requests, requests[r] # NoUser
    PROVE  /\ requests[r].pubkey \in PublicKeys
           /\ requests[r].pubkey \in Proved
<1>1. requests[r] \in AuthP!User
  BY DEF AuthP!AuthTypeOK
<1>2. <<issued[requests[r].current_token].challenge, requests[r].pubkey>> \in signed
  BY DEF AuthP!AuthInv, AuthP!RequestsAreAuthentic
<1> QED
  BY <1>1, <1>2 DEF AuthP!User, Proved

\* A step that handles a request does so for the key of one of the actors, who
\* has proved to own it; the other steps are those of the store's clock and of
\* its expiry task, or leave the store alone.
LEMMA StoreSteps ==
    ASSUME AuthP!AuthTypeOK, AuthP!AuthInv, [Next]_vars
    PROVE  \/ /\ \E user \in PublicKeys :
                   user \in Actors \cap Proved /\ Store!Request(user)
              /\ UNCHANGED signed
           \/ /\ Store!Tick \/ Store!Expiry
              /\ UNCHANGED signed
           \/ /\ signed \subseteq signed'
              /\ UNCHANGED storeVars
<1>1. CASE AuthStep
  <2>1. AuthP!AuthStep
    BY <1>1, SameAuth DEF AuthStep
  <2>2. signed \subseteq signed'
    BY <2>1
    DEF AuthP!AuthStep, AuthP!Challenge, AuthP!ExpireChallenge, AuthP!Sign,
        AuthP!LoginConsume, AuthP!LoginIssue, AuthP!Authenticate,
        AuthP!Unauthorized, AuthP!authVars, AuthP!AuthTick, AuthP!ExpireToken
  <2> QED
    BY <1>1, <2>2 DEF AuthStep
<1>2. ASSUME NEW r \in Requests, Logout(r)
      PROVE  signed \subseteq signed' /\ UNCHANGED storeVars
  BY <1>2, SameAnswer DEF Logout, AuthP!Logout
<1>3. ASSUME NEW r \in Requests, Handle(r)
      PROVE  /\ \E user \in PublicKeys :
                    user \in Actors \cap Proved /\ Store!Request(user)
             /\ UNCHANGED signed
  <2>1. /\ requests[r] # NoUser
        /\ requests' = [requests EXCEPT ![r] = NoUser]
        /\ UNCHANGED signed
    BY <1>3, SameAnswer DEF Handle, AuthP!Answer
  <2>2. requests'[r] = NoUser
    BY <2>1 DEF AuthP!AuthTypeOK
  <2>3. requests[r].pubkey \in Actors
    BY <2>1, <2>2 DEF Actors
  <2> QED
    BY <1>3, <2>1, <2>3, ServedFor DEF Handle
<1>4. CASE StoreStep
  BY <1>4 DEF StoreStep, authVars
<1>5. CASE UNCHANGED vars
  BY <1>5 DEF vars, authVars
<1> QED
  BY <1>1, <1>2, <1>3, <1>4, <1>5 DEF Next

\* The handlers are calls of the session store by the key that was authenticated,
\* and nothing else touches the sessions, so what is proved of FrostdSessions
\* carries over to them.
LEMMA ServerIsStore == Spec => Store!Spec
<1>1. Init => Store!Init
  BY DEF Init
<1>2. AuthP!AuthTypeOK /\ AuthP!AuthInv /\ [Next]_vars
          => [Store!Next]_(Store!vars)
  BY StoreSteps DEF Store!Next, Store!vars, storeVars
<1> QED
  BY <1>1, <1>2, ServerAuthInvariant, PTL DEF Spec, Store!Spec

\* So the invariants of the store hold in frostd.
LEMMA ServerStoreInvariant ==
    Spec => [](StoreP!TypeOK /\ StoreP!IndexInv /\ StoreP!QueueInv)
<1>1. Spec => StoreP!Spec
  BY ServerIsStore, SameStore, PTL DEF Store!Spec, StoreP!Spec
<1> QED
  BY <1>1, StoreP!StoreInvariant, FrostdStoreAssumption,
     NoSessionIsNone, PTL

\* Behind the authentication, with requests handled after their tokens have
\* died, the two maps of the store agree, the queues are those of the members,
\* and every queue hands out what was accepted for it once and in order.
THEOREM ServerKeepsTheStore ==
    Spec => [](/\ Store!LiveSessionsListed /\ Store!StaleEntriesExplained
               /\ Store!QueuesBelong /\ Store!ExactlyOnceInOrder)
<1>1. StoreP!IndexInv => Store!LiveSessionsListed /\ Store!StaleEntriesExplained
  <2>1. \A c : Store!Members(c) = StoreP!Members(c)
    BY DEF Store!Members, StoreP!Members
  <2> QED
    BY <2>1 DEF StoreP!IndexInv, StoreP!LiveSessionsListed,
       StoreP!StaleEntriesExplained, Store!LiveSessionsListed,
       Store!StaleEntriesExplained
<1>2. StoreP!QueueInv => Store!QueuesBelong /\ Store!ExactlyOnceInOrder
  <2>1. \A c : Store!Members(c) = StoreP!Members(c)
    BY DEF Store!Members, StoreP!Members
  <2>2. \A r, q : Store!IsPrefix(r, q) <=> StoreP!IsPrefix(r, q)
    BY DEF Store!IsPrefix, StoreP!IsPrefix
  <2> QED
    BY <2>1, <2>2, SameOperators
    DEF StoreP!QueueInv, StoreP!QueuesBelong, StoreP!ExactlyOnceInOrder,
        Store!QueuesBelong, Store!ExactlyOnceInOrder
<1> QED
  BY <1>1, <1>2, ServerStoreInvariant, PTL

-----------------------------------------------------------------------------
(* Who acts.                                                               *)

\* The steps of the server by what they do to the store.
LEMMA StoreCases ==
    ASSUME AuthP!AuthTypeOK, AuthP!AuthInv, [Next]_vars
    PROVE  /\ signed \subseteq signed'
           /\ \/ \E user \in PublicKeys \cap Actors \cap Proved, id \in SessionIds :
                    \/ \E pks \in SUBSET PublicKeys, n \in MessageCounts :
                          StoreP!CreateNewSession(user, pks, n, id)
                    \/ \E rs \in StoreP!Recipients, m \in Messages :
                          StoreP!Send(user, id, rs, m)
                    \/ \E c \in BOOLEAN : StoreP!Receive(user, id, c)
                    \/ StoreP!CloseSession(user, id)
              \/ StoreP!Tick
              \/ \E id \in SessionIds :
                    StoreP!ExpireSession(id) \/ StoreP!UnlistExpired(id)
              \/ UNCHANGED storeVars
<1>1. signed \subseteq signed'
  BY StoreSteps
<1> QED
  BY <1>1, StoreSteps, SameRequest, SameClock
  DEF StoreP!Request, StoreP!Expiry, StoreP!ListSessions, StoreP!GetSessionInfo,
      StoreP!Refused, StoreP!vars, storeVars

\* Which step can change what.
LEMMA WhoChangesWhat ==
    ASSUME AuthP!AuthTypeOK, AuthP!AuthInv, [Next]_vars
    PROVE  /\ \/ UNCHANGED created
              \/ \E user \in PublicKeys \cap Proved, id \in SessionIds,
                    pks \in SUBSET PublicKeys, n \in MessageCounts :
                    StoreP!CreateNewSession(user, pks, n, id)
           /\ \/ UNCHANGED sent
              \/ \E user \in PublicKeys \cap Actors \cap Proved, id \in SessionIds,
                    rs \in StoreP!Recipients, m \in Messages :
                    StoreP!Send(user, id, rs, m)
           /\ \/ UNCHANGED received
              \/ \E user \in PublicKeys \cap Actors, id \in SessionIds, c \in BOOLEAN :
                    StoreP!Receive(user, id, c)
           /\ \/ DOMAIN sessions \subseteq DOMAIN sessions'
              \/ \E user \in Actors, id \in SessionIds : StoreP!CloseSession(user, id)
              \/ \E id \in SessionIds : StoreP!ExpireSession(id)
<1> DEFINE User == PublicKeys \cap Actors \cap Proved
<1>1. ASSUME NEW user \in User, NEW id \in SessionIds,
             NEW pks \in SUBSET PublicKeys, NEW n \in MessageCounts,
             StoreP!CreateNewSession(user, pks, n, id)
      PROVE  UNCHANGED <<sent, received>> /\ DOMAIN sessions \subseteq DOMAIN sessions'
  BY <1>1 DEF StoreP!CreateNewSession
<1>2. ASSUME NEW user \in User, NEW id \in SessionIds,
             NEW rs \in StoreP!Recipients, NEW m \in Messages,
             StoreP!Send(user, id, rs, m)
      PROVE  UNCHANGED <<created, received>> /\ DOMAIN sessions \subseteq DOMAIN sessions'
  BY <1>2 DEF StoreP!Send
<1>3. ASSUME NEW user \in User, NEW id \in SessionIds, NEW c \in BOOLEAN,
             StoreP!Receive(user, id, c)
      PROVE  UNCHANGED <<created, sent>> /\ DOMAIN sessions \subseteq DOMAIN sessions'
  BY <1>3 DEF StoreP!Receive
<1>4. ASSUME NEW user \in User, NEW id \in SessionIds, StoreP!CloseSession(user, id)
      PROVE  UNCHANGED <<created, sent, received>>
  BY <1>4 DEF StoreP!CloseSession
<1>5. CASE StoreP!Tick
  <2>1. UNCHANGED <<created, sent, received>> /\ DOMAIN sessions' = DOMAIN sessions
    BY <1>5 DEF StoreP!Tick
  <2> QED
    BY <2>1
<1>6. ASSUME NEW id \in SessionIds, StoreP!ExpireSession(id)
      PROVE  UNCHANGED <<created, sent, received>>
  BY <1>6 DEF StoreP!ExpireSession
<1>7. ASSUME NEW id \in SessionIds, StoreP!UnlistExpired(id)
      PROVE  UNCHANGED <<created, sent, received, sessions>>
  BY <1>7 DEF StoreP!UnlistExpired
<1>8. CASE UNCHANGED storeVars
  BY <1>8 DEF storeVars
<1> QED
  BY <1>1, <1>2, <1>3, <1>4, <1>5, <1>6, <1>7, <1>8, StoreCases

\* A send appends its message to queues of its session, and does nothing else
\* to what was accepted before.
LEMMA SendAppends ==
    ASSUME StoreP!TypeOK, NEW user \in PublicKeys, NEW id \in SessionIds,
           NEW rs \in StoreP!Recipients, NEW m \in Messages,
           StoreP!Send(user, id, rs, m),
           NEW i \in SessionIds, NEW s \in StoreP!SessionParticipant,
           NEW j \in DOMAIN sent'[i][s]
    PROVE  \/ j \in DOMAIN sent[i][s] /\ sent'[i][s][j] = sent[i][s][j]
           \/ i = id /\ sent'[i][s][j] = [sender |-> user, msg |-> m]
<1> DEFINE new == StoreP!Copies(rs, s, [sender |-> user, msg |-> m])
<1>1. [sender |-> user, msg |-> m] \in StoreP!Msg
  BY DEF StoreP!Msg
<1>2. /\ new \in Seq(StoreP!Msg)
      /\ \A k \in DOMAIN new : new[k] = [sender |-> user, msg |-> m]
  BY <1>1, StoreP!CopiesType, FrostdStoreAssumption, NoSessionIsNone
<1>3. sent[i][s] \in Seq(StoreP!Msg)
  BY DEF StoreP!TypeOK
<1>4. CASE i = id
  <2>1. sent'[i][s] = sent[i][s] \o new
    BY <1>4 DEF StoreP!Send, StoreP!TypeOK
  <2> QED
    BY <1>2, <1>3, <1>4, <2>1, ConcatProperties, LenProperties
<1>5. CASE i # id
  <2>1. sent'[i] = sent[i]
    BY <1>5 DEF StoreP!Send, StoreP!TypeOK
  <2> QED
    BY <2>1
<1> QED
  BY <1>4, <1>5

\* Nothing is accepted and nobody coordinates at the start.
LEMMA ActorsInit == Init => ActorsAreAuthentic
  BY DEF Init, ActorsAreAuthentic, Store!Init, Store!NoMessages

\* A new coordinator, and the sender of an accepted message, is the key the
\* request was authenticated for; what was proved stays proved.
LEMMA ActorsNext ==
    ASSUME AuthP!AuthTypeOK, AuthP!AuthInv, StoreP!TypeOK,
           ActorsAreAuthentic, [Next]_vars
    PROVE  ActorsAreAuthentic'
<1> DEFINE Coordinators == \A id \in DOMAIN created :
                               created[id].coordinator_pubkey \in Proved
           Senders == \A i \in SessionIds, s \in StoreP!SessionParticipant :
                          \A j \in DOMAIN sent[i][s] : sent[i][s][j].sender \in Proved
<1>1. Coordinators /\ Senders
  BY SameOperators DEF ActorsAreAuthentic, Proved
<1>2. Proved \subseteq Proved'
  BY StoreCases DEF Proved
<1>3. ASSUME NEW user \in PublicKeys \cap Proved, NEW id \in SessionIds,
             NEW pks \in SUBSET PublicKeys, NEW n \in MessageCounts,
             StoreP!CreateNewSession(user, pks, n, id)
      PROVE  Coordinators'
  BY <1>1, <1>2, <1>3 DEF StoreP!CreateNewSession
<1>4. ASSUME NEW user \in PublicKeys \cap Proved, NEW id \in SessionIds,
             NEW rs \in StoreP!Recipients, NEW m \in Messages,
             StoreP!Send(user, id, rs, m)
      PROVE  Senders'
  <2>1. ASSUME NEW i \in SessionIds, NEW s \in StoreP!SessionParticipant,
               NEW j \in DOMAIN sent'[i][s]
        PROVE  sent'[i][s][j].sender \in Proved'
    <3>1. \/ j \in DOMAIN sent[i][s] /\ sent'[i][s][j] = sent[i][s][j]
          \/ i = id /\ sent'[i][s][j] = [sender |-> user, msg |-> m]
      BY <1>4, SendAppends
    <3>2. ASSUME j \in DOMAIN sent[i][s] PROVE sent[i][s][j].sender \in Proved
      BY <1>1, <3>2
    <3> QED
      BY <1>2, <1>4, <3>1, <3>2
  <2> QED
    BY <2>1 DEF StoreP!SessionParticipant
<1>5. Coordinators'
  BY <1>1, <1>2, <1>3, WhoChangesWhat
<1>6. Senders'
  BY <1>1, <1>2, <1>4, WhoChangesWhat DEF StoreP!SessionParticipant
<1> QED
  BY <1>5, <1>6 DEF ActorsAreAuthentic, Proved,
     StoreP!SessionParticipant, Store!SessionParticipant

\* Whoever coordinates a session or has a message accepted has proved to own
\* the key they act under.
THEOREM ServerActorsAreAuthentic == Spec => []ActorsAreAuthentic
<1>1. AuthP!AuthTypeOK /\ AuthP!AuthInv /\ StoreP!TypeOK /\ ActorsAreAuthentic
        /\ [Next]_vars => ActorsAreAuthentic'
  BY ActorsNext
<1> QED
  BY <1>1, ActorsInit, ServerAuthInvariant, ServerStoreInvariant, PTL DEF Spec

-----------------------------------------------------------------------------
(* What a step of the server may do to a session.                          *)

\* Only close_session and the expiry task remove a session.
LEMMA EndStep ==
    ASSUME AuthP!AuthTypeOK, AuthP!AuthInv, StoreP!TypeOK, [Next]_vars,
           NEW id \in DOMAIN sessions \ DOMAIN sessions'
    PROVE  \/ sessions[id].coordinator_pubkey \in Actors
           \/ sessions[id].ttl = 0 /\ id \in timed_out'
<1> DEFINE Goal == \/ sessions[id].coordinator_pubkey \in Actors
                   \/ sessions[id].ttl = 0 /\ id \in timed_out'
<1>1. ASSUME NEW user \in Actors, NEW i \in SessionIds, StoreP!CloseSession(user, i)
      PROVE  Goal
  BY <1>1 DEF StoreP!CloseSession, StoreP!CloseSessionResult
<1>2. ASSUME NEW i \in SessionIds, StoreP!ExpireSession(i) PROVE Goal
  BY <1>2 DEF StoreP!ExpireSession
<1> QED
  BY <1>1, <1>2, WhoChangesWhat

\* A session ends only by a request of its coordinator or by its timeout.
THEOREM SessionsEndForAReason == Spec => EndedByCoordinatorOrTimeout
<1>1. AuthP!AuthTypeOK /\ AuthP!AuthInv /\ StoreP!TypeOK /\ [Next]_vars =>
        [\A id \in DOMAIN sessions \ DOMAIN sessions' :
            \/ sessions[id].coordinator_pubkey \in Actors
            \/ sessions[id].ttl = 0 /\ id \in timed_out']_vars
  BY EndStep
<1> QED
  BY <1>1, ServerAuthInvariant, ServerStoreInvariant, PTL
  DEF Spec, EndedByCoordinatorOrTimeout

\* Only receive hands messages out, from the queue its caller may read.
LEMMA DeliverStep ==
    ASSUME AuthP!AuthTypeOK, AuthP!AuthInv, StoreP!TypeOK, [Next]_vars,
           NEW id \in SessionIds, NEW s \in StoreP!SessionParticipant,
           received'[id][s] # received[id][s]
    PROVE  \/ s = Coordinator /\ sessions[id].coordinator_pubkey \in Actors
           \/ s \in Actors
<1>1. ASSUME NEW user \in PublicKeys, NEW i \in SessionIds, NEW c \in BOOLEAN,
             StoreP!Receive(user, i, c)
      PROVE  /\ i = id
             /\ s = StoreP!ReceiveSlot(user, i, c)
  BY <1>1 DEF StoreP!Receive, StoreP!TypeOK
<1> QED
  BY <1>1, WhoChangesWhat DEF StoreP!ReceiveSlot

\* Messages are handed only to the one they are addressed to.
THEOREM DeliveryIsToAddressee == Spec => DeliveredToAddressee
<1>1. AuthP!AuthTypeOK /\ AuthP!AuthInv /\ StoreP!TypeOK /\ [Next]_vars =>
        [\A id \in SessionIds, s \in Store!SessionParticipant :
            received'[id][s] # received[id][s] =>
              \/ s = Coordinator /\ sessions[id].coordinator_pubkey \in Actors
              \/ s \in Actors]_vars
  BY DeliverStep, SameOperators
<1> QED
  BY <1>1, ServerAuthInvariant, ServerStoreInvariant, PTL
  DEF Spec, DeliveredToAddressee

\* Only send accepts messages, in its caller's name.
LEMMA SendStep ==
    ASSUME AuthP!AuthTypeOK, AuthP!AuthInv, StoreP!TypeOK, [Next]_vars,
           NEW id \in SessionIds, NEW s \in StoreP!SessionParticipant,
           NEW i \in DOMAIN sent'[id][s] \ DOMAIN sent[id][s]
    PROVE  /\ sent'[id][s][i].sender \in Actors
           /\ sent'[id][s][i].sender \in Store!Members(sessions[id])
<1>1. ASSUME NEW user \in PublicKeys \cap Actors, NEW j \in SessionIds,
             NEW rs \in StoreP!Recipients, NEW m \in Messages,
             StoreP!Send(user, j, rs, m)
      PROVE  /\ sent'[id][s][i].sender \in Actors
             /\ sent'[id][s][i].sender \in Store!Members(sessions[id])
  <2>1. id = j /\ sent'[id][s][i] = [sender |-> user, msg |-> m]
    BY <1>1, SendAppends
  <2>2. StoreP!InSession(user, j)
    BY <1>1 DEF StoreP!Send, StoreP!SendResult
  <2> QED
    BY <2>1, <2>2 DEF StoreP!InSession, Store!Members
<1> QED
  BY <1>1, WhoChangesWhat

\* Nobody sends in another's name.
THEOREM SendersAreActors == Spec => SentInOwnName
<1>1. AuthP!AuthTypeOK /\ AuthP!AuthInv /\ StoreP!TypeOK /\ [Next]_vars =>
        [\A id \in SessionIds, s \in Store!SessionParticipant :
            \A i \in DOMAIN sent'[id][s] \ DOMAIN sent[id][s] :
                /\ sent'[id][s][i].sender \in Actors
                /\ sent'[id][s][i].sender \in Store!Members(sessions[id])]_vars
  BY SendStep, SameOperators
<1> QED
  BY <1>1, ServerAuthInvariant, ServerStoreInvariant, PTL
  DEF Spec, SentInOwnName

=============================================================================
