SPECIFICATION MCSpec
CONSTANTS
    MaxRequestId = 11
    MaxAttempts = 2
    Lists <- MCRequestLists
    refused = refused
    Refusals = {refused}
    Quiet = TRUE
    Timeout = 2
    MaxTries = 2
    Start = 1
    MaxTime = 4
    Skews <- MCSkews
    NanosPerSecond = 2
    MaxUnderWay = 2
    MaxCalls = 2
INVARIANTS SessionTypeOK SessionAgreed StatusMatches PongIsAnswered CallEndsInTime SyncedWithinTrip
PROPERTY ListsUntouched
