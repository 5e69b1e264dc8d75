SPECIFICATION Spec
CONSTANTS
    None = None
    MaxVersion = 2
    MaxBuild = 1
    MaxWire = 2
    MaxPolls = 2
INVARIANTS
    TypeOK
    AppMirrorsHub
    OutdatedPageReloads
    OutdatedPageWillKnow
PROPERTY CatchesUp
