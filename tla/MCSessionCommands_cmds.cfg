\* Two keys, each of which runs commands, and two sessions, without traffic.
SPECIFICATION CommandSpec
CONSTANTS
    PublicKeys = {a, b}
    Coordinator = Coordinator
    SessionIds = {s1, s2}
    NoSession = NoSession
    MessageCounts = {1}
    Messages = {m1}
    Oversized = {}
    SESSION_TIMEOUT = 1
    MaxRecipients = 1
    MaxSends = 0
SYMMETRY CommandSymmetry
INVARIANTS CommandOutcomes
