----------------------------- MODULE FrostdAuth -----------------------------
(***************************************************************************)
(* Authentication in frostd: challenges, access tokens, and the User       *)
(* extractor that runs before every handler but challenge and login        *)
(* (frostd/src/functions.rs, user.rs, state.rs).                           *)
(*                                                                         *)
(* Each map has its own lock, held for one access at a time, so login is   *)
(* two steps (the challenge is consumed, then the token is inserted) and a *)
(* request is authenticated in one step and handled in a later one: its    *)
(* token may be revoked or expire in between.                              *)
(***************************************************************************)
EXTENDS Naturals, FiniteSets, Functions

CONSTANTS
    PublicKeys,           \* communication public keys
    Challenges,           \* Uuids given out as challenges
    Tokens,               \* Uuids given out as access tokens
    Requests,             \* slots for requests being served at the same time
    NoUser,               \* a free slot
    CHALLENGE_TIMEOUT,    \* in ticks
    ACCESS_TOKEN_TIMEOUT  \* in ticks

ASSUME AuthTimeoutAssumption ==
    CHALLENGE_TIMEOUT \in Nat \ {0} /\ ACCESS_TOKEN_TIMEOUT \in Nat \ {0}
ASSUME NoUserAssumption ==
    NoUser \notin [pubkey : PublicKeys, current_token : Tokens]

VARIABLES
    challenges,     \* outstanding challenges, with the time they have left
    access_tokens,  \* valid tokens, with their key and the time they have left
    logins,         \* login calls that have consumed their challenge and not
                    \* yet inserted their token
    requests,       \* the authenticated user of each request being served
    \* Clients and history:
    given,          \* every challenge ever given out
    signed,         \* <<challenge, key>>: the owner of key signed challenge
    issued          \* every token ever issued, with its challenge and key

authVars ==
    <<challenges, access_tokens, logins, requests, given, signed, issued>>

User == [pubkey : PublicKeys, current_token : Tokens]
Login == [challenge : Challenges, pubkey : PublicKeys]

AuthTypeOK ==
    /\ DOMAIN challenges \subseteq Challenges
    /\ challenges \in [DOMAIN challenges -> 0..CHALLENGE_TIMEOUT]
    /\ DOMAIN access_tokens \subseteq Tokens
    /\ access_tokens \in [DOMAIN access_tokens ->
            [pubkey : PublicKeys, ttl : 0..ACCESS_TOKEN_TIMEOUT]]
    /\ logins \subseteq Login
    /\ requests \in [Requests -> User \cup {NoUser}]
    /\ given \subseteq Challenges
    /\ signed \subseteq Challenges \X PublicKeys
    /\ DOMAIN issued \subseteq Tokens
    /\ issued \in [DOMAIN issued -> Login]

AuthInit ==
    /\ challenges = [c \in {} |-> 0]
    /\ access_tokens = [t \in {} |-> 0]
    /\ logins = {}
    /\ requests = [r \in Requests |-> NoUser]
    /\ given = {}
    /\ signed = {}
    /\ issued = [t \in {} |-> 0]

-----------------------------------------------------------------------------

\* Mutant: a challenge lives as long as a token.
ChallengeForTokenTimeout(c) ==
    /\ c \notin given
    /\ challenges' = [x \in DOMAIN challenges \cup {c} |->
         IF x = c THEN ACCESS_TOKEN_TIMEOUT ELSE challenges[x]]
    /\ given' = given \cup {c}
    /\ UNCHANGED <<access_tokens, logins, requests, signed, issued>>

\* The challenge handler.
Challenge(c) ==
    /\ c \notin given                  \* Uuid::new_v4 never repeats
    /\ challenges' = [x \in DOMAIN challenges \cup {c} |->
         IF x = c THEN CHALLENGE_TIMEOUT ELSE challenges[x]]
    /\ given' = given \cup {c}
    /\ UNCHANGED <<access_tokens, logins, requests, signed, issued>>

\* A client signs a challenge it was given, with its own key.
Sign(c, pk) ==
    /\ c \in given
    /\ <<c, pk>> \notin signed
    /\ signed' = signed \cup {<<c, pk>>}
    /\ UNCHANGED <<challenges, access_tokens, logins, requests, given, issued>>

\* Mutant: the signature is not verified.
LoginResultUnverified(c, pk) ==
    IF c \notin DOMAIN challenges THEN "Unauthorized" ELSE "Ok"

\* What a login call meets before it changes anything: arguments that do not
\* parse are refused like signatures that do not verify.
LoginResult(c, pk) ==
    IF <<c, pk>> \notin signed THEN "Unauthorized"
    ELSE IF c \notin DOMAIN challenges THEN "Unauthorized" ELSE "Ok"

\* Mutant: the challenge is looked up and not removed.
LoginWithoutConsuming(c, pk) ==
    /\ LoginResult(c, pk) = "Ok"
    /\ logins' = logins \cup {[challenge |-> c, pubkey |-> pk]}
    /\ UNCHANGED <<challenges, access_tokens, requests, given, signed, issued>>

\* login, up to drop(challenges).
LoginConsume(c, pk) ==
    /\ LoginResult(c, pk) = "Ok"
    /\ challenges' = Restrict(challenges, DOMAIN challenges \ {c})
    /\ logins' = logins \cup {[challenge |-> c, pubkey |-> pk]}
    /\ UNCHANGED <<access_tokens, requests, given, signed, issued>>

\* login, the rest: a new token for the key.
LoginIssue(l, t) ==
    /\ l \in logins
    /\ t \notin DOMAIN issued          \* Uuid::new_v4 never repeats
    /\ access_tokens' = [x \in DOMAIN access_tokens \cup {t} |->
         IF x = t THEN [pubkey |-> l.pubkey, ttl |-> ACCESS_TOKEN_TIMEOUT]
         ELSE access_tokens[x]]
    /\ issued' = [x \in DOMAIN issued \cup {t} |-> IF x = t THEN l ELSE issued[x]]
    /\ logins' = logins \ {l}
    /\ UNCHANGED <<challenges, requests, given, signed>>

\* Mutant: a token is accepted for ever once it was issued.
AuthenticateByIssued(r, t) ==
    /\ requests[r] = NoUser
    /\ t \in DOMAIN issued
    /\ requests' = [requests EXCEPT
         ![r] = [pubkey |-> issued[t].pubkey, current_token |-> t]]
    /\ UNCHANGED <<challenges, access_tokens, logins, given, signed, issued>>

\* Mutant: using a token renews it.
AuthenticateRenewing(r, t) ==
    /\ requests[r] = NoUser
    /\ t \in DOMAIN access_tokens
    /\ requests' = [requests EXCEPT
         ![r] = [pubkey |-> access_tokens[t].pubkey, current_token |-> t]]
    /\ access_tokens' = [access_tokens EXCEPT ![t].ttl = ACCESS_TOKEN_TIMEOUT]
    /\ UNCHANGED <<challenges, logins, given, signed, issued>>

\* User::from_request_parts: the token is looked up and its key copied.
Authenticate(r, t) ==
    /\ requests[r] = NoUser
    /\ t \in DOMAIN access_tokens
    /\ requests' = [requests EXCEPT
         ![r] = [pubkey |-> access_tokens[t].pubkey, current_token |-> t]]
    /\ UNCHANGED <<challenges, access_tokens, logins, given, signed, issued>>

\* A request that presents a token that is unknown, revoked or expired, and a
\* login that is refused, change nothing.
Unauthorized ==
    /\ \/ \E t \in Tokens : t \notin DOMAIN access_tokens
       \/ \E c \in Challenges, pk \in PublicKeys : LoginResult(c, pk) # "Ok"
    /\ UNCHANGED authVars

\* The logout handler: the request's own token goes (if it is still there).
Logout(r) ==
    /\ requests[r] # NoUser
    /\ access_tokens' = Restrict(access_tokens,
         DOMAIN access_tokens \ {requests[r].current_token})
    /\ requests' = [requests EXCEPT ![r] = NoUser]
    /\ UNCHANGED <<challenges, logins, given, signed, issued>>

\* Any other handler ends: nothing of this module's state changes but that
\* the request is over.
Answer(r) ==
    /\ requests[r] # NoUser
    /\ requests' = [requests EXCEPT ![r] = NoUser]
    /\ UNCHANGED <<challenges, access_tokens, logins, given, signed, issued>>

Older(ttl) == IF ttl = 0 THEN 0 ELSE ttl - 1

AuthTick ==
    /\ \/ \E c \in DOMAIN challenges : challenges[c] > 0
       \/ \E t \in DOMAIN access_tokens : access_tokens[t].ttl > 0
    /\ challenges' = [c \in DOMAIN challenges |-> Older(challenges[c])]
    /\ access_tokens' = [t \in DOMAIN access_tokens |->
         [pubkey |-> access_tokens[t].pubkey, ttl |-> Older(access_tokens[t].ttl)]]
    /\ UNCHANGED <<logins, requests, given, signed, issued>>

\* The two expiry tasks: the poll itself removes the entry.
ExpireChallenge(c) ==
    /\ c \in DOMAIN challenges
    /\ challenges[c] = 0
    /\ challenges' = Restrict(challenges, DOMAIN challenges \ {c})
    /\ UNCHANGED <<access_tokens, logins, requests, given, signed, issued>>

ExpireToken(t) ==
    /\ t \in DOMAIN access_tokens
    /\ access_tokens[t].ttl = 0
    /\ access_tokens' = Restrict(access_tokens, DOMAIN access_tokens \ {t})
    /\ UNCHANGED <<challenges, logins, requests, given, signed, issued>>

\* Everything but the handlers that an authenticated request runs.
AuthStep ==
    \/ \E c \in Challenges : Challenge(c) \/ ExpireChallenge(c)
    \/ \E c \in Challenges, pk \in PublicKeys : Sign(c, pk) \/ LoginConsume(c, pk)
    \/ \E l \in logins, t \in Tokens : LoginIssue(l, t)
    \/ \E r \in Requests, t \in Tokens : Authenticate(r, t)
    \/ Unauthorized
    \/ AuthTick
    \/ \E t \in Tokens : ExpireToken(t)

AuthNext ==
    \/ AuthStep
    \/ \E r \in Requests : Logout(r) \/ Answer(r)

AuthSpec == AuthInit /\ [][AuthNext]_authVars

\* The clock advances, the expiry tasks keep polling, a login call that has
\* started is finished, a request being served is answered.
AuthFairness ==
    /\ WF_authVars(AuthTick)
    /\ \A c \in Challenges : WF_authVars(ExpireChallenge(c))
    /\ \A t \in Tokens : WF_authVars(ExpireToken(t))
    /\ WF_authVars(\E l \in logins, t \in Tokens : LoginIssue(l, t))
    /\ \A r \in Requests : WF_authVars(Logout(r) \/ Answer(r))

FairAuthSpec == AuthSpec /\ AuthFairness

-----------------------------------------------------------------------------
(* Properties.                                                             *)

\* A challenge opens at most one login, however often, and by however many
\* clients at once, the call is repeated: tokens issued and logins on their
\* way all come from different challenges.
ChallengesUsedOnce ==
    /\ \A t, u \in DOMAIN issued :
          issued[t].challenge = issued[u].challenge => t = u
    /\ \A l \in logins :
          /\ l.challenge \notin DOMAIN challenges
          /\ \A k \in logins : k.challenge = l.challenge => k = l
          /\ \A t \in DOMAIN issued : issued[t].challenge # l.challenge

\* A request is served only for a key whose owner signed the challenge its
\* token was issued for, also after the token is revoked or has expired.
RequestsAreAuthentic ==
    \A r \in Requests : requests[r] # NoUser =>
        LET t == requests[r].current_token IN
        /\ t \in DOMAIN issued
        /\ issued[t].pubkey = requests[r].pubkey
        /\ <<issued[t].challenge, requests[r].pubkey>> \in signed

\* A token that was revoked by logout or has expired never authenticates a
\* request again; requests it authenticated earlier may still be running.
DeadTokensStayDead ==
    [][\A t \in DOMAIN issued \ DOMAIN access_tokens :
          /\ t \notin DOMAIN access_tokens'
          /\ \A r \in Requests :
                requests'[r] # requests[r] /\ requests'[r] # NoUser =>
                    requests'[r].current_token # t]_authVars

\* A token dies, however often it is used: nothing renews it.
TokensExpire ==
    \A t \in Tokens :
        (t \in DOMAIN access_tokens) ~> (t \notin DOMAIN access_tokens)

=============================================================================
