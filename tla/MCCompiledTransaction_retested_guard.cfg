SPECIFICATION Spec
CONSTANTS
    Width <- BitWidths
    Externals = {"s"}
    ChannelWidth <- DeclaredChannels
    Pools <- RetestedGuard
    MaxItems = 5
    StableGuards = FALSE
INVARIANTS NoUndefinedValue
