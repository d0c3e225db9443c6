SPECIFICATION AgentSpec
CONSTANTS
    SeqNumSize = 18
    History = 2
    BitmapWidth = 16
    Names = {a}
    large = large
    Messages <- MCMessages
    AgentWindow = 3
    MaxFragments = 3
    Lifetime = 3
INVARIANT NeverLoops
