SPECIFICATION FairSpec
CONSTANTS
    r1 = r1  d1 = d1  d2 = d2  none = none  c1 = c1  c2 = c2
    here = here  gone = gone  e1 = e1  e2 = e2  a1 = a1
    None = none
    Targets = {here, gone}
    Resolvable = {here}
    Roots = {r1}
    Delegations = {d1, d2}
    Capabilities = {c1, c2}
    Asked <- MixedAsked
    Events = {e1, e2}
    Artifacts = {a1}
    Returns <- MixedReturns
    EngineSteps = 2
    EngineDepth = 2
INVARIANTS DelegationInv ScopeNested
PROPERTIES DelegationEnds
CHECK_DEADLOCK FALSE
