\* Up to four spends in two pools, two of which fit one command, and two faults.
SPECIFICATION FairSpec
CONSTANTS
    NoSig = NoSig
    Dummy = Dummy
    None = None
    Half = Half
    MaxActions = 2
    MaxCount = 2
    MaxFaults = 2
INVARIANTS TypeOK SpendsAuthorised
PROPERTIES SpendsComplete
