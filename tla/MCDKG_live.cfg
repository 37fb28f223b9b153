\* Two participants, tokens that may expire and up to two faults, under fairness.
SPECIFICATION FairSpec
CONSTANTS
    Participants = {a, b}
    Creator = a
    Versions = {v1}
    OwnVersion = v1
    Inconsistent = {}
    ExpiringTokens = {a, b}
    MaxFaults = 2
PROPERTIES RunsEndWithToken ClosedSessionStopsAll
