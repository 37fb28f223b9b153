\* Two participants and no fault: does the Round 1 loop end?
SPECIFICATION Spec
CONSTANTS
    Participants = {a, b}
    Creator = a
    Versions = {v1}
    OwnVersion = v1
    Inconsistent = {}
    ExpiringTokens = {}
    MaxFaults = 0
INVARIANTS Round1LoopSeesPackages
