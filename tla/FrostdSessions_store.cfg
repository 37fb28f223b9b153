\* Two keys and one session, with traffic, under fairness.
SPECIFICATION FairSpec
CONSTANTS
    PublicKeys = {a, b}
    Coordinator = Coordinator
    SessionIds = {s1}
    MessageCounts = {0, 1}
    Messages = {m1, big}
    Oversized = {big}
    SESSION_TIMEOUT = 2
    MaxRecipients = 2
    MaxSends = 2
INVARIANTS TypeOK LiveSessionsListed StaleEntriesExplained QueuesBelong ExactlyOnceInOrder
PROPERTIES NoEarlyExpiry AbandonedSessionsEnd
