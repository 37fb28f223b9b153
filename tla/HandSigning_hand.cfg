\* Both signers of a threshold of two sign two messages; one error in copying,
\* refusal or crash, and 3 may be typed for an identifier that is none.
SPECIFICATION FairSpec
CONSTANTS
    Identifiers = {1, 2}
    Typed = {1, 2, 3}
    MinSigners = 2
    num_signers = 2
    num_messages = 2
    Nothing = Nothing
    MaxRuns = 2
    MaxFaults = 1
INVARIANTS TypeOK
PROPERTIES ImplementsFrostSigning UndisturbedSigningSucceeds
