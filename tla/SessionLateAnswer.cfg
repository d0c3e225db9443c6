SPECIFICATION Spec
CONSTANTS
    MaxRequestId = 11
    MaxAttempts = 2
    Lists <- MCWrittenLists
    refused = refused
    Refusals = {refused}
    Quiet = FALSE
INVARIANT DeletedIsDeleted
