-------------------------- MODULE FrostdAuthProofs ---------------------------
(***************************************************************************)
(* Proofs about frostd's authentication, for every set of keys, challenges *)
(* and tokens, any number of requests at a time and every timeout.         *)
(*                                                                         *)
(* The argument: a challenge is in one place at a time.  It is             *)
(* outstanding, or a login call that presented its owner's signature has   *)
(* taken it, or a token was issued for it; and it never goes back.  What   *)
(* was issued is never forgotten, so it still explains a request whose     *)
(* token is gone.                                                          *)
(***************************************************************************)
EXTENDS FrostdAuth, TLAPS

\* The challenge that x, a login call or an issued token, has used up, was
\* given out and is no longer outstanding, and x's key has signed it.
Used(x) ==
    /\ x.challenge \in given \ DOMAIN challenges
    /\ <<x.challenge, x.pubkey>> \in signed

\* What ChallengesUsedOnce and RequestsAreAuthentic need to be inductive.
AuthInv ==
    /\ DOMAIN challenges \subseteq given
    /\ \A l \in logins : Used(l)
    /\ \A t \in DOMAIN issued : Used(issued[t])
    /\ \A t \in DOMAIN access_tokens :
          t \in DOMAIN issued /\ access_tokens[t].pubkey = issued[t].pubkey
    /\ ChallengesUsedOnce
    /\ RequestsAreAuthentic

-----------------------------------------------------------------------------
(* Type correctness.                                                       *)

\* A map without one of its entries keeps its type: what remove does to the
\* challenges and to the tokens.
LEMMA RestrictType ==
    ASSUME NEW T, NEW f, f \in [DOMAIN f -> T], NEW x
    PROVE  /\ Restrict(f, DOMAIN f \ {x}) \in [DOMAIN f \ {x} -> T]
           /\ DOMAIN Restrict(f, DOMAIN f \ {x}) = DOMAIN f \ {x}
           /\ \A y \in DOMAIN f \ {x} : Restrict(f, DOMAIN f \ {x})[y] = f[y]
  BY DEF Restrict

\* The empty maps of AppState::new have the right types.
LEMMA AuthInitType == AuthInit => AuthTypeOK
  BY DEF AuthInit, AuthTypeOK

\* One case per action that changes the state.
LEMMA AuthNextType == AuthTypeOK /\ [AuthNext]_authVars => AuthTypeOK'
<1> SUFFICES ASSUME AuthTypeOK, [AuthNext]_authVars PROVE AuthTypeOK'
  OBVIOUS
<1> USE DEF AuthTypeOK
<1>1. ASSUME NEW c \in Challenges, Challenge(c) PROVE AuthTypeOK'
  <2>1. CHALLENGE_TIMEOUT \in 0..CHALLENGE_TIMEOUT
    BY AuthTimeoutAssumption
  <2>2. /\ DOMAIN challenges' = DOMAIN challenges \cup {c}
        /\ challenges' \in [DOMAIN challenges \cup {c} -> 0..CHALLENGE_TIMEOUT]
    BY <1>1, <2>1 DEF Challenge
  <2> QED
    BY <1>1, <2>2 DEF Challenge
<1>2. ASSUME NEW c \in Challenges, ExpireChallenge(c) PROVE AuthTypeOK'
  <2>1. challenges' \in [DOMAIN challenges \ {c} -> 0..CHALLENGE_TIMEOUT]
    BY <1>2, RestrictType DEF ExpireChallenge
  <2> QED
    BY <1>2, <2>1 DEF ExpireChallenge
<1>3. ASSUME NEW c \in Challenges, NEW pk \in PublicKeys, Sign(c, pk)
      PROVE  AuthTypeOK'
  BY <1>3 DEF Sign
<1>4. ASSUME NEW c \in Challenges, NEW pk \in PublicKeys, LoginConsume(c, pk)
      PROVE  AuthTypeOK'
  <2>1. challenges' \in [DOMAIN challenges \ {c} -> 0..CHALLENGE_TIMEOUT]
    BY <1>4, RestrictType DEF LoginConsume
  <2>2. logins' \subseteq Login
    BY <1>4 DEF LoginConsume, Login
  <2> QED
    BY <1>4, <2>1, <2>2 DEF LoginConsume
<1>5. ASSUME NEW l \in logins, NEW t \in Tokens, LoginIssue(l, t)
      PROVE  AuthTypeOK'
  <2> DEFINE AccessToken == [pubkey : PublicKeys, ttl : 0..ACCESS_TOKEN_TIMEOUT]
  <2>1. ACCESS_TOKEN_TIMEOUT \in 0..ACCESS_TOKEN_TIMEOUT
    BY AuthTimeoutAssumption
  <2>2. [pubkey |-> l.pubkey, ttl |-> ACCESS_TOKEN_TIMEOUT] \in AccessToken
    BY <2>1 DEF Login
  <2>3. access_tokens' \in [DOMAIN access_tokens \cup {t} -> AccessToken]
    BY <1>5, <2>2 DEF LoginIssue
  <2>4. issued' \in [DOMAIN issued \cup {t} -> Login]
    BY <1>5 DEF LoginIssue
  <2>5. /\ DOMAIN access_tokens' = DOMAIN access_tokens \cup {t}
        /\ DOMAIN issued' = DOMAIN issued \cup {t}
    BY <1>5 DEF LoginIssue
  <2> QED
    BY <1>5, <2>3, <2>4, <2>5 DEF LoginIssue
<1>6. ASSUME NEW r \in Requests, NEW t \in Tokens, Authenticate(r, t)
      PROVE  AuthTypeOK'
  <2>1. [pubkey |-> access_tokens[t].pubkey, current_token |-> t] \in User
    BY <1>6 DEF Authenticate, User
  <2> QED
    BY <1>6, <2>1 DEF Authenticate
<1>7. CASE AuthTick
  <2>1. \A T \in Nat : \A ttl \in 0..T : Older(ttl) \in 0..T
    BY DEF Older
  <2>2. /\ CHALLENGE_TIMEOUT \in Nat
        /\ ACCESS_TOKEN_TIMEOUT \in Nat
    BY AuthTimeoutAssumption
  <2>3. challenges' \in [DOMAIN challenges -> 0..CHALLENGE_TIMEOUT]
    BY <1>7, <2>1, <2>2 DEF AuthTick
  <2>4. access_tokens' \in [DOMAIN access_tokens ->
            [pubkey : PublicKeys, ttl : 0..ACCESS_TOKEN_TIMEOUT]]
    BY <1>7, <2>1, <2>2 DEF AuthTick
  <2> QED
    BY <1>7, <2>3, <2>4 DEF AuthTick
<1>8. ASSUME NEW t \in Tokens, ExpireToken(t) PROVE AuthTypeOK'
  <2>1. access_tokens' \in [DOMAIN access_tokens \ {t} ->
            [pubkey : PublicKeys, ttl : 0..ACCESS_TOKEN_TIMEOUT]]
    BY <1>8, RestrictType DEF ExpireToken
  <2> QED
    BY <1>8, <2>1 DEF ExpireToken
<1>9. ASSUME NEW r \in Requests, Logout(r) PROVE AuthTypeOK'
  <2> DEFINE t == requests[r].current_token
  <2>1. access_tokens' \in [DOMAIN access_tokens \ {t} ->
            [pubkey : PublicKeys, ttl : 0..ACCESS_TOKEN_TIMEOUT]]
    BY <1>9, RestrictType DEF Logout
  <2> QED
    BY <1>9, <2>1 DEF Logout
<1>10. ASSUME NEW r \in Requests, Answer(r) PROVE AuthTypeOK'
  BY <1>10 DEF Answer
<1>11. CASE UNCHANGED authVars
  BY <1>11 DEF authVars
<1> QED
  BY <1>1, <1>2, <1>3, <1>4, <1>5, <1>6, <1>7, <1>8, <1>9, <1>10, <1>11
  DEF AuthNext, AuthStep, Unauthorized

\* Type correctness of the authentication state, whatever clients, the clock
\* and the expiry tasks do.
THEOREM AuthTypesAreCorrect == AuthSpec => []AuthTypeOK
  BY AuthInitType, AuthNextType, PTL DEF AuthSpec

-----------------------------------------------------------------------------
(* Challenges are used once, requests are authentic.                       *)

\* Nothing is outstanding, nothing issued and nobody served at the start.
LEMMA AuthInitInv == AuthInit => AuthInv
  BY DEF AuthInit, AuthInv, ChallengesUsedOnce, RequestsAreAuthentic

\* A step that issues no token and serves no request anew keeps what is known
\* of tokens and requests, as long as no challenge becomes outstanding again.
LEMMA QuietAuthStep ==
    ASSUME AuthTypeOK, AuthInv,
           DOMAIN challenges' \cap given \subseteq DOMAIN challenges,
           DOMAIN challenges' \subseteq given',
           given \subseteq given', signed \subseteq signed',
           DOMAIN access_tokens' \subseteq DOMAIN access_tokens,
           \A t \in DOMAIN access_tokens' :
               access_tokens'[t].pubkey = access_tokens[t].pubkey,
           \A r \in Requests : requests'[r] \in {requests[r], NoUser},
           UNCHANGED <<logins, issued>>
    PROVE  AuthInv'
<1> USE DEF AuthInv
<1>1. ASSUME NEW x, Used(x) PROVE Used(x)'
  BY <1>1 DEF Used
<1>2. (\A l \in logins : Used(l))'
  BY <1>1
<1>3. (\A t \in DOMAIN issued : Used(issued[t]))'
  BY <1>1
<1>4. ChallengesUsedOnce'
  BY <1>2 DEF ChallengesUsedOnce, Used
<1>5. RequestsAreAuthentic'
  BY DEF RequestsAreAuthentic
<1> QED
  BY <1>2, <1>3, <1>4, <1>5 DEF Used

\* login takes the challenge: it leaves the map, and the call holds it.
LEMMA ConsumeInv ==
    ASSUME AuthTypeOK, AuthInv,
           NEW c \in Challenges, NEW pk \in PublicKeys, LoginConsume(c, pk)
    PROVE  AuthInv'
<1> DEFINE new == [challenge |-> c, pubkey |-> pk]
<1> USE DEF AuthInv
<1>1. /\ <<c, pk>> \in signed /\ c \in DOMAIN challenges
      /\ DOMAIN challenges' = DOMAIN challenges \ {c}
      /\ logins' = logins \cup {new}
      /\ UNCHANGED <<access_tokens, requests, given, signed, issued>>
  BY DEF LoginConsume, LoginResult, Restrict
<1>2. ASSUME NEW x, Used(x) PROVE Used(x)'
  BY <1>1, <1>2 DEF Used
<1>3. Used(new)'
  BY <1>1 DEF Used
<1>4. (\A l \in logins : Used(l))'
  BY <1>1, <1>2, <1>3
<1>5. (\A t \in DOMAIN issued : Used(issued[t]))'
  BY <1>1, <1>2
<1>6. /\ \A l \in logins : l.challenge # c
      /\ \A t \in DOMAIN issued : issued[t].challenge # c
  BY <1>1 DEF Used
<1>7. ChallengesUsedOnce'
  BY <1>1, <1>4, <1>6 DEF ChallengesUsedOnce, Used
<1>8. RequestsAreAuthentic'
  BY <1>1 DEF RequestsAreAuthentic
<1> QED
  BY <1>1, <1>4, <1>5, <1>7, <1>8

\* The rest of login: the token takes the challenge over from the call.
LEMMA IssueInv ==
    ASSUME AuthTypeOK, AuthInv,
           NEW l \in logins, NEW t \in Tokens, LoginIssue(l, t)
    PROVE  AuthInv'
<1> USE DEF AuthInv
<1>1. /\ t \notin DOMAIN issued
      /\ DOMAIN issued' = DOMAIN issued \cup {t}
      /\ issued'[t] = l
      /\ \A u \in DOMAIN issued : issued'[u] = issued[u]
      /\ DOMAIN access_tokens' = DOMAIN access_tokens \cup {t}
      /\ access_tokens'[t].pubkey = l.pubkey
      /\ \A u \in DOMAIN access_tokens \ {t} : access_tokens'[u] = access_tokens[u]
      /\ logins' = logins \ {l}
      /\ UNCHANGED <<challenges, requests, given, signed>>
  BY DEF LoginIssue
<1>2. ASSUME NEW x, Used(x) PROVE Used(x)'
  BY <1>1, <1>2 DEF Used
<1>3. (\A k \in logins : Used(k))'
  BY <1>1, <1>2
<1>4. (\A u \in DOMAIN issued : Used(issued[u]))'
  BY <1>1, <1>2
<1>5. \A u \in DOMAIN access_tokens' :
         u \in DOMAIN issued' /\ access_tokens'[u].pubkey = issued'[u].pubkey
  BY <1>1
<1>6. ChallengesUsedOnce'
  <2>1. \A u, v \in DOMAIN issued' :
            issued'[u].challenge = issued'[v].challenge => u = v
    BY <1>1 DEF ChallengesUsedOnce
  <2>2. \A k \in logins' :
            /\ \A j \in logins' : j.challenge = k.challenge => j = k
            /\ \A u \in DOMAIN issued' : issued'[u].challenge # k.challenge
    BY <1>1 DEF ChallengesUsedOnce
  <2> QED
    BY <1>3, <2>1, <2>2 DEF ChallengesUsedOnce, Used
<1>7. RequestsAreAuthentic'
  BY <1>1 DEF RequestsAreAuthentic
<1> QED
  BY <1>1, <1>3, <1>4, <1>5, <1>6, <1>7

\* The User extractor: the key it copies is the one the token was issued for.
LEMMA AuthenticateInv ==
    ASSUME AuthTypeOK, AuthInv,
           NEW r \in Requests, NEW t \in Tokens, Authenticate(r, t)
    PROVE  AuthInv'
<1> USE DEF AuthInv
<1>1. /\ t \in DOMAIN issued
      /\ access_tokens[t].pubkey = issued[t].pubkey
      /\ Used(issued[t])
  BY DEF Authenticate
<1>2. /\ UNCHANGED <<challenges, access_tokens, logins, given, signed, issued>>
      /\ requests'[r] = [pubkey |-> issued[t].pubkey, current_token |-> t]
      /\ \A x \in Requests \ {r} : requests'[x] = requests[x]
  BY <1>1 DEF Authenticate, AuthTypeOK
<1>3. RequestsAreAuthentic'
  BY <1>1, <1>2 DEF RequestsAreAuthentic, Used
<1>4. ChallengesUsedOnce'
  BY <1>2 DEF ChallengesUsedOnce
<1> QED
  BY <1>2, <1>3, <1>4 DEF Used

\* One case per action.
LEMMA AuthNextInv == AuthTypeOK /\ AuthInv /\ [AuthNext]_authVars => AuthInv'
<1> SUFFICES ASSUME AuthTypeOK, AuthInv, [AuthNext]_authVars PROVE AuthInv'
  OBVIOUS
<1>0. DOMAIN challenges \subseteq given
  BY DEF AuthInv
<1>1. ASSUME NEW c \in Challenges, Challenge(c) PROVE AuthInv'
  BY <1>0, <1>1, QuietAuthStep DEF Challenge
<1>2. ASSUME NEW c \in Challenges, ExpireChallenge(c) PROVE AuthInv'
  BY <1>0, <1>2, QuietAuthStep DEF ExpireChallenge, Restrict
<1>3. ASSUME NEW c \in Challenges, NEW pk \in PublicKeys, Sign(c, pk)
      PROVE  AuthInv'
  BY <1>0, <1>3, QuietAuthStep DEF Sign
<1>4. CASE AuthTick
  BY <1>0, <1>4, QuietAuthStep DEF AuthTick
<1>5. ASSUME NEW t \in Tokens, ExpireToken(t) PROVE AuthInv'
  BY <1>0, <1>5, QuietAuthStep DEF ExpireToken, Restrict
<1>6. ASSUME NEW r \in Requests, Logout(r) PROVE AuthInv'
  BY <1>0, <1>6, QuietAuthStep DEF Logout, Restrict, AuthTypeOK
<1>7. ASSUME NEW r \in Requests, Answer(r) PROVE AuthInv'
  BY <1>0, <1>7, QuietAuthStep DEF Answer, AuthTypeOK
<1>8. CASE UNCHANGED authVars
  BY <1>0, <1>8, QuietAuthStep DEF authVars
<1> QED
  BY <1>1, <1>2, <1>3, <1>4, <1>5, <1>6, <1>7, <1>8,
     ConsumeInv, IssueInv, AuthenticateInv DEF AuthNext, AuthStep, Unauthorized

\* The inductive invariant of the authentication.
LEMMA AuthInvariant == AuthSpec => [](AuthTypeOK /\ AuthInv)
  BY AuthInitType, AuthNextType, AuthInitInv, AuthNextInv, PTL DEF AuthSpec

\* A challenge opens at most one login: login removes it under the lock of the
\* challenges, before it makes a token.
THEOREM ChallengesOpenOneLogin == AuthSpec => []ChallengesUsedOnce
<1>1. AuthInv => ChallengesUsedOnce
  BY DEF AuthInv
<1> QED
  BY <1>1, AuthInvariant, PTL

\* Whoever a request is served for has signed the challenge its token was
\* issued for; the key the User extractor copies needs no second look-up.
THEOREM RequestsAreOfSigners == AuthSpec => []RequestsAreAuthentic
<1>1. AuthInv => RequestsAreAuthentic
  BY DEF AuthInv
<1> QED
  BY <1>1, AuthInvariant, PTL

-----------------------------------------------------------------------------
(* Tokens that are gone.                                                   *)

\* Only login inserts a token, and always a new one; so one that logout or the
\* expiry task has removed is not found again by the User extractor.
LEMMA DeadStep ==
    ASSUME AuthTypeOK, [AuthNext]_authVars,
           NEW t \in DOMAIN issued \ DOMAIN access_tokens
    PROVE  /\ t \notin DOMAIN access_tokens'
           /\ \A r \in Requests :
                 requests'[r] # requests[r] /\ requests'[r] # NoUser =>
                     requests'[r].current_token # t
<1> DEFINE Goal == /\ t \notin DOMAIN access_tokens'
                   /\ \A r \in Requests :
                         requests'[r] # requests[r] /\ requests'[r] # NoUser =>
                             requests'[r].current_token # t
<1>1. ASSUME NEW l \in logins, NEW u \in Tokens, LoginIssue(l, u) PROVE Goal
  BY <1>1 DEF LoginIssue
<1>2. ASSUME NEW r \in Requests, NEW u \in Tokens, Authenticate(r, u) PROVE Goal
  BY <1>2 DEF Authenticate, AuthTypeOK
<1>3. ASSUME NEW r \in Requests, Logout(r) \/ Answer(r) PROVE Goal
  BY <1>3 DEF Logout, Answer, Restrict, AuthTypeOK
<1>4. ASSUME NEW u \in Tokens, ExpireToken(u) PROVE Goal
  BY <1>4 DEF ExpireToken, Restrict
<1>5. CASE AuthTick
  BY <1>5 DEF AuthTick
<1>6. ASSUME NEW c \in Challenges, NEW pk \in PublicKeys,
             Sign(c, pk) \/ LoginConsume(c, pk)
      PROVE  Goal
  BY <1>6 DEF Sign, LoginConsume
<1>7. ASSUME NEW c \in Challenges, Challenge(c) \/ ExpireChallenge(c) PROVE Goal
  BY <1>7 DEF Challenge, ExpireChallenge
<1>8. CASE UNCHANGED authVars
  BY <1>8 DEF authVars
<1> QED
  BY <1>1, <1>2, <1>3, <1>4, <1>5, <1>6, <1>7, <1>8
  DEF AuthNext, AuthStep, Unauthorized

\* A token that was revoked or has expired never authenticates again.
THEOREM DeadTokensAreNotRevived == AuthSpec => DeadTokensStayDead
<1>1. AuthTypeOK /\ [AuthNext]_authVars =>
          [\A t \in DOMAIN issued \ DOMAIN access_tokens :
              /\ t \notin DOMAIN access_tokens'
              /\ \A r \in Requests :
                    requests'[r] # requests[r] /\ requests'[r] # NoUser =>
                        requests'[r].current_token # t]_authVars
  BY DeadStep
<1> QED
  BY <1>1, AuthTypesAreCorrect, PTL DEF AuthSpec, DeadTokensStayDead

=============================================================================
