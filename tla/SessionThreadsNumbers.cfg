SPECIFICATION ThreadsSpec
CONSTANTS
    Callers = {t1, t2}
    FlushTogether = FALSE
    TwoStreams = TRUE
    MaxRequestId = 11
SYMMETRY CallersSymmetry
INVARIANT NumbersDiffer
