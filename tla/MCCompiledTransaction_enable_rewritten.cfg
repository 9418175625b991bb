SPECIFICATION Spec
CONSTANTS
    Width <- BitWidths
    Externals = {"s"}
    ChannelWidth <- DeclaredChannels
    Pools <- EnableRewritten
    MaxItems = 3
    StableGuards = FALSE
INVARIANTS SameOutcome
