SPECIFICATION Spec
CONSTANTS
    None = None
    MaxVersion = 2
    MaxBuild = 0
    MaxWire = 2
    MaxPolls = 1
INVARIANT LoadedPageWillKnow
