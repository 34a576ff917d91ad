SPECIFICATION Spec
CONSTANTS
    r1 = r1  d1 = d1  d2 = d2  none = none  c1 = c1  c2 = c2
    here = here  gone = gone  e1 = e1  e2 = e2  a1 = a1
    None = none
    Targets = {here, gone}
    Resolvable = {here}
    Roots = {r1}
    Delegations = {d1}
    Capabilities = {c1, c2}
    Asked <- RuleAsked
    Events = {}
    Artifacts = {}
    Returns <- NoReturns
    EngineSteps = 1
    EngineDepth = 2
PROPERTIES ExplicitEmptyDenies
CHECK_DEADLOCK FALSE
