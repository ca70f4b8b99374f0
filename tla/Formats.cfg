SPECIFICATION Spec
CHECK_DEADLOCK FALSE
CONSTANTS
    Rank <- MCRank
    WordSize = 128
    MaxEpoch = 90
    Compared <- MCCompared
    Constrained <- MCConstrained
    VersionTexts <- MCSpelled
    ControlTexts <- MCControlTexts
    Arch = 1
    Modulus = 4
    Profiles <- MCProfiles
    Calls <- MCCalls
    Ids = {"k", "l", "m", "n", "o"}
    Certs <- MCCerts
    Histories <- MCHistories
    Rings <- MCRings
    Signers <- MCSigners
    Policies <- MCPolicies
    Label = {"f", "g"}
    Value = {"1", "2"}
    Radix = 4
    MaxBytes = 2
    Deltas <- MCDeltas
    Basis <- MCBasis
    Archives <- MCArchives
    Streams <- MCStreams
    Parts <- MCParts
    Tars <- MCTars
INVARIANTS
    VersionsAgree
    ControlReadersAgree
    SourcesAndConfigRead
    ArchiveIsRead
    DifferencesRebuild
    FilterIsAllowlist
    
