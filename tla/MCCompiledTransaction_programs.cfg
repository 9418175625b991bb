SPECIFICATION Spec
CONSTANTS
    Width <- BitWidths
    Externals = {"s"}
    ChannelWidth <- DeclaredChannels
    Pools <- AllPools
    MaxItems = 5
    StableGuards = TRUE
INVARIANTS TypeOK SameOutcome ViewSameOutcome RestsAfterTransaction NetlistClosed NoImplicitResize
           EveryUseHasItsEdge NoUndefinedValue
PROPERTIES RegionsInOrder
