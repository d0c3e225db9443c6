SPECIFICATION MCSpec
CONSTANTS
    SeqNumSize = 8
    BufferSize = 84
    Offset = 4
    ProfileSharedMemory = TRUE
    HardLiveliness = TRUE
    Calls <- MCCalls
    MoreCalls <- MCMoreCalls
    Answers <- MCAnswers
    LaterAnswers <- MCLaterAnswers
    AsideAnswers <- MCAsideAnswers
    MaxCalls = 2
    MaxOnTheWay = 2
    MaxAnswers = 5
    RingSize = 6
    MaxLength = 2
    Payloads <- MCPayloads
    CutPayloads <- MCCutPayloads
    local_addr = 1
    remote_addr = 0
    other_addr = 2
    MaxFrames = 2
    TcpMessages <- MCTcpMessages
    OctetSize = 2
    SizeTaken = {2}
    UXR_MAX_WRITE_TCP_ATTEMPS = 2
    MaxUnread = 2
INVARIANTS OctetsTypeOK AgentUnderstands AsideIsUnderstood
PROPERTIES ImplementsBestEffortDelivery ImplementsFramedLine ImplementsConnection
