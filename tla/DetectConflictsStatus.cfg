SPECIFICATION Spec
CONSTANTS
    Branches <- MCBranches
    Repositories <- Trees
    Requests <- MCRequests
INVARIANT AnswersAreListed
