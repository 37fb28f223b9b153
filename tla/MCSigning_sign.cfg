\* Two signers, each of whom may start twice, tokens that may expire, a fault.
SPECIFICATION FairSpec
CONSTANTS
    Signers = {a, b}
    Coordinator = Coordinator
    num_messages = 2
    ExpiringTokens = {a, Coordinator}
    MaxProcesses = 2
    MaxFaults = 1
INVARIANTS TypeOK NoncesUsedAsCommitted SharesFit
PROPERTIES ImplementsFrostSigning UndisturbedSigningSucceeds RunsEndWithToken
