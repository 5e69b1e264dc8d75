SPECIFICATION Spec
CONSTANTS
    Tasks = {t1, t2}
    Fetchers = {f1}
    GitUpstreamData = GitUpstreamData
    GitBranchUpstreamDetails = GitBranchUpstreamDetails
    GitGetObject = GitGetObject
    Commands <- MCCommands
    Cacheable <- MCCacheable
    Uses <- MCUses
    None = None
    MaxVersion = 1
    MaxFetches = 2
SYMMETRY Symmetry
INVARIANT FreshCommand
