\* Does a signer who tries again end the signing?
SPECIFICATION Spec
CONSTANTS
    Signers = {a, b}
    Coordinator = Coordinator
    num_messages = 1
    ExpiringTokens = {}
    MaxProcesses = 2
    MaxFaults = 1
SYMMETRY SignerSymmetry
INVARIANTS RetriesAreTolerated
