SPECIFICATION EffectsSpec
CONSTANTS
    a1 = a1  c1 = c1  t1 = t1
    Agents = {a1}
    Catalog = {}
    Depts = {}
    Members <- NoMembers
    CustomKeys = {}
    Commands = {}
    Criteria = {c1}
    EvidenceSets <- MCEvidence
    MaxRounds = 2
    MaxParseErrors = 2
    MaxRepeats = 1
    Tools = {t1}
    MaxMentions = 2
    MaxWorkerArts = 0
    Emitters = {FALSE}
    MaxLost = 1
INVARIANTS EvidenceInv ToolsOncePerInvocation NoProgressSound
PROPERTIES DriveTerminates
