SPECIFICATION ThreadsSpec
CONSTANTS
    Callers = {t1, t2}
    FlushTogether = TRUE
    TwoStreams = FALSE
    MaxRequestId = 11
SYMMETRY CallersSymmetry
INVARIANT NoCircle
