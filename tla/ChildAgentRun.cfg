SPECIFICATION ChildFairSpec
CONSTANTS
    k1 = k1  k2 = k2  caller = caller  one = one  none = none  target = target
    ToolKeys = {k1, k2}
    DelegateForms = {"bad_shape", "well_formed"}
    DelegationWired = FALSE
    MaxSteps = 4
    MaxParseErrors = 3
    MaxSameToolCalls = 2
    Caller = caller
    Child = one
    None = none
    Target = target
INVARIANTS WithinRecursionLimit StepsReported OutcomeAgrees
PROPERTIES ImplementsDelegation ChildEnds
CHECK_DEADLOCK FALSE
