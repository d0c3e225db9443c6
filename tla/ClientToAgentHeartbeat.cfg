SPECIFICATION FairChannelSpec
CONSTANTS
    SeqNumSize = 8
    History = 2
    Capacity = 20
    Offset = 4
    SubheaderSize = 4
    whole = whole
    large = large
    Messages = {whole}
    Length <- MCLength
    HeartbeatInterval = 2
    HeartbeatTriesSize = 2
    Lifetime = 1
    MaxAcknacks = 1
    ShortCalls = TRUE
PROPERTY HeartbeatsGoOn
