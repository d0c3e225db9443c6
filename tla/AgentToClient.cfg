SPECIFICATION AgentSpec
CONSTANTS
    SeqNumSize = 18
    History = 3
    BitmapWidth = 16
    Names = {a}
    large = large
    Messages <- MCMessages
    AgentWindow = 4
    MaxFragments = 2
    Lifetime = 1
INVARIANTS AgentTypeOK BuffersMatchStream AcknowledgedIsHeld NackIsExact NeverLoops
PROPERTY ImplementsInOrderDelivery
