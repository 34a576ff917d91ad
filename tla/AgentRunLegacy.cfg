SPECIFICATION Spec
CONSTANTS
    k1 = k1  k2 = k2
    ToolKeys = {k1}
    DelegateForms = {}
    DelegationWired = TRUE
    MaxSteps = 1
    MaxParseErrors = 1
    MaxSameToolCalls = 1
    MaxLag = 2
    MaxDowns = 1
INVARIANTS LegacyRemainsResumable
