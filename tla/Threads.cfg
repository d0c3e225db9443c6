SPECIFICATION MCSpec
CONSTANTS
    Scenes <- MCAllScenes
    Sessions = {1, 2}
    Threads = {t1, t2}
    MaxEntities = 4
    PoolSize = 2
    Capacity = 2
    Numbers = {n1, n2}
    MaxDepth = 3
    Callers = {c1, c2}
    FlushTogether = FALSE
    TwoStreams = FALSE
    MaxRequestId = 11
SYMMETRY MCThreadsSymmetry
INVARIANTS SmTypeOK PoolConserved HandedIsWritten RepliesFindTheirRequester  SomeoneGoesOn
INVARIANTS ThreadsTypeOK  LocksGivenBack NoCircle NumbersDiffer
