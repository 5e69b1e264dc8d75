SPECIFICATION Spec
CONSTANTS
    Tasks = {t1}
    Fetchers = {f1, f2}
    GitUpstreamData = GitUpstreamData
    GitBranchUpstreamDetails = GitBranchUpstreamDetails
    GitGetObject = GitGetObject
    Commands <- MCCommands
    Cacheable <- MCCacheable
    Uses <- MCUses
    None = None
    MaxVersion = 1
    MaxFetches = 3
SYMMETRY Symmetry
INVARIANT FreshLeafWhenQuiet
