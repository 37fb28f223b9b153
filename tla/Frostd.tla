------------------------------- MODULE Frostd -------------------------------
(***************************************************************************)
(* The frostd server: FrostdAuth in front of FrostdSessions.  A request is *)
(* authenticated in one step and its handler runs in a later one, on       *)
(* behalf of the key the User extractor found, while other requests, the   *)
(* clock and the expiry tasks take steps of their own (frostd/src/lib.rs   *)
(* routes each path to its handler).                                       *)
(*                                                                         *)
(* The clocks of the two parts tick independently, so no relation between  *)
(* the three timeouts is assumed.                                          *)
(***************************************************************************)
EXTENDS Naturals, FiniteSets, Sequences

CONSTANTS
    PublicKeys, Challenges, Tokens, Requests, NoUser,
    CHALLENGE_TIMEOUT, ACCESS_TOKEN_TIMEOUT,
    Coordinator, SessionIds, MessageCounts, Messages, Oversized,
    SESSION_TIMEOUT, MaxRecipients, MaxSends

\* What FrostdAuth and FrostdSessions assume of their constants.
ASSUME FrostdAuthAssumption ==
    /\ CHALLENGE_TIMEOUT \in Nat \ {0} /\ ACCESS_TOKEN_TIMEOUT \in Nat \ {0}
    /\ NoUser \notin [pubkey : PublicKeys, current_token : Tokens]
ASSUME FrostdStoreAssumption ==
    /\ Coordinator \notin PublicKeys
    /\ MessageCounts \subseteq 0..255 /\ Oversized \subseteq Messages
    /\ SESSION_TIMEOUT \in Nat \ {0} /\ MaxRecipients \in Nat /\ MaxSends \in Nat

VARIABLES
    challenges, access_tokens, logins, requests, given, signed, issued,
    sessions, sessions_by_pubkey, expiring,
    created, timed_out, sent, received, idle

Auth == INSTANCE FrostdAuth
Store == INSTANCE FrostdSessions

authVars == <<challenges, access_tokens, logins, requests, given, signed, issued>>
storeVars == <<sessions, sessions_by_pubkey, expiring,
               created, timed_out, sent, received, idle>>
vars == <<authVars, storeVars>>

Init == Auth!AuthInit /\ Store!Init

\* Authentication and the clients; the session store is not touched.
AuthStep == Auth!AuthStep /\ UNCHANGED storeVars

\* The handlers of the routes behind the User extractor (lib.rs, router()).
Logout(r) == Auth!Logout(r) /\ UNCHANGED storeVars

Handle(r) == Auth!Answer(r) /\ Store!Request(requests[r].pubkey)

\* The store's clock and its expiry task, which serve no request.
StoreStep == (Store!Tick \/ Store!Expiry) /\ UNCHANGED authVars

Next ==
    \/ AuthStep
    \/ \E r \in Requests : Logout(r) \/ Handle(r)
    \/ StoreStep

Spec == Init /\ [][Next]_vars

-----------------------------------------------------------------------------
(* Properties.                                                             *)

\* The key on whose behalf a step acts, if it answers a request.
Actors == {requests[r].pubkey : r \in {x \in Requests : requests[x] # requests'[x]
                                                    /\ requests[x] # NoUser}}

\* Whoever coordinates a session or has a message accepted has proved, at
\* some time before, that they own the key they act under.
ActorsAreAuthentic ==
    LET proved == {p[2] : p \in signed} IN
    /\ \A id \in DOMAIN created : created[id].coordinator_pubkey \in proved
    /\ \A id \in SessionIds, s \in Store!SessionParticipant :
          \A i \in DOMAIN sent[id][s] : sent[id][s][i].sender \in proved

\* A session ends only by a request of its coordinator or because its time is
\* up; with it, and only with it, queued messages are lost.
EndedByCoordinatorOrTimeout ==
    [][\A id \in DOMAIN sessions \ DOMAIN sessions' :
          \/ sessions[id].coordinator_pubkey \in Actors
          \/ sessions[id].ttl = 0 /\ id \in timed_out']_vars

\* Messages are handed only to the one they are addressed to: a participant's
\* queue to that participant, the coordinator's to the session's coordinator.
DeliveredToAddressee ==
    [][\A id \in SessionIds, s \in Store!SessionParticipant :
          received'[id][s] # received[id][s] =>
              \/ s = Coordinator /\ sessions[id].coordinator_pubkey \in Actors
              \/ s \in Actors]_vars

\* A message accepted in a step carries as sender the key that step acts for,
\* a member of the session: nobody sends in another's name.
SentInOwnName ==
    [][\A id \in SessionIds, s \in Store!SessionParticipant :
          \A i \in DOMAIN sent'[id][s] \ DOMAIN sent[id][s] :
              /\ sent'[id][s][i].sender \in Actors
              /\ sent'[id][s][i].sender \in Store!Members(sessions[id])]_vars

=============================================================================
