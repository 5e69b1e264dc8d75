SPECIFICATION ServerSpec
CONSTANTS
    Branches <- MCBranches
    None = None
    Structures <- MCStructures
    Simple <- MCSimple
    MaxStarts = 3
    Repositories <- MCRepositories
    Requests <- MCRequests
INVARIANTS
    ServerTypeOK
    TypeOK
    ReturnsAllUpstream
    NewClonesAreWhole
    ConflictsAreExplained
    ConflictsAreMinimal
PROPERTY RequestsAreAnswered
