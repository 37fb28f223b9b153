\* Two keys, two challenges, two tokens and two requests at a time.
SPECIFICATION FairAuthSpec
CONSTANTS
    PublicKeys = {a, b}
    Challenges = {c1, c2}
    Tokens = {t1, t2}
    Requests = {r1, r2}
    NoUser = NoUser
    CHALLENGE_TIMEOUT = 1
    ACCESS_TOKEN_TIMEOUT = 2
INVARIANTS AuthTypeOK ChallengesUsedOnce RequestsAreAuthentic
PROPERTIES DeadTokensStayDead TokensExpire
