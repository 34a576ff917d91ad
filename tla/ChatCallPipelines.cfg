SPECIFICATION ChatSpec
CONSTANTS
    chat = chat  t1 = t1  s1 = s1
    Tools = {chat, t1}
    Sessions = {s1}
    Directs = {}
    Denied = {t1}
    Attempts = 2
    MaxLayers = 3
    Chat = chat
    MaxRetries = 2
INVARIANTS KernelInv EffectsOnce RefusedNeverRuns RequestsBounded
PROPERTIES CallsAnswered ImplementsKernel
