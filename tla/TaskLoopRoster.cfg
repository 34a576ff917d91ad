SPECIFICATION Spec
CONSTANTS
    a1 = a1  a2 = a2  d1 = d1  k1 = k1  c1 = c1
    Agents = {a1, a2}
    Catalog = {a1, a2}
    Depts = {d1}
    Members <- MCMembers
    CustomKeys = {k1}
    Commands <- MCCommands
    Criteria = {}
    EvidenceSets <- NoEvidence
    MaxRounds = 2
    MaxParseErrors = 1
    MaxRepeats = 1
    Tools = {}
    MaxMentions = 1
    MaxWorkerArts = 0
    Emitters = {FALSE, TRUE}
INVARIANTS LoopInv TurnsOnce
PROPERTIES AtomicCheckpoint ImplementsDurable
