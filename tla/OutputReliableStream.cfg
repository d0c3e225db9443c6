SPECIFICATION ContinuousSpec
CONSTANTS
    SeqNumSize = 12
    History = 3
    Capacity = 20
    Offset = 4
    SubheaderSize = 4
    small = small
    large = large
    huge = huge
    endless = endless
    Messages = {small, large, huge, endless}
    Continued = {endless}
    Length <- MCLength
    HeartbeatInterval = 1
    HeartbeatTriesSize = 2
INVARIANTS TypeOK  
  
