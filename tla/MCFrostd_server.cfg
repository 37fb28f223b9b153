\* Two keys that may each log in once, two requests at a time, one session.
SPECIFICATION Spec
CONSTANTS
    PublicKeys = {a, b}
    Challenges = {c1, c2}
    Tokens = {t1, t2}
    Requests = {r1, r2}
    NoUser = NoUser
    CHALLENGE_TIMEOUT = 1
    ACCESS_TOKEN_TIMEOUT = 1
    Coordinator = Coordinator
    SessionIds = {s1}
    MessageCounts = {1}
    Messages = {m1}
    Oversized = {}
    SESSION_TIMEOUT = 1
    MaxRecipients = 1
    MaxSends = 1
SYMMETRY ServerSymmetry
INVARIANTS ActorsAreAuthentic
PROPERTIES EndedByCoordinatorOrTimeout DeliveredToAddressee SentInOwnName
