CONSTANTS
    Sizes = {1, 2}
    Unset = Unset
    MaxSurge = 1
    MaxUnavailable = 0
    MaxGeneration = 3
SPECIFICATION RolloutSpec
INVARIANT
    CompleteMeansRolledOut
