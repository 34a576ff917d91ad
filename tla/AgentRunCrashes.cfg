SPECIFICATION FairSpec
CONSTANTS
    k1 = k1  k2 = k2
    ToolKeys = {k1}
    DelegateForms = {"no_objective", "bad_fields", "well_formed"}
    DelegationWired = TRUE
    MaxSteps = 2
    MaxParseErrors = 2
    MaxSameToolCalls = 1
    MaxLag = 2
    MaxDowns = 2
INVARIANTS RunInv SameToolBounded LifecycleEvents OutcomeSound
PROPERTIES ProjectionFresh CheckpointFollowsGraph ResumedRunEnds
