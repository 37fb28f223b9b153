\* Three participants, one of whom may send different packages to the others,
\* and one connection lost or process crashed.
SPECIFICATION Spec
CONSTANTS
    Participants = {a, b, c}
    Creator = a
    Versions = {v1, v2}
    OwnVersion = v1
    Inconsistent = {c}
    ExpiringTokens = {}
    MaxFaults = 1
INVARIANTS TypeOK EchoAgreement NoFalseAccusation KeyOnlyAfterAllValidated
