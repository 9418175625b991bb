\* Three inputs and three outputs: two cells in each join, one behind the other.
CONSTANTS
    N = 3
    M = 3
    MaxTokens = 2
    HoldsUntilAckLow = TRUE
SPECIFICATION Spec
INVARIANTS TypeOK BundledPayload Inv
PROPERTIES PayloadStable JoinedHandshake SpeedIndependent AnsweredInputs NoSwallowedEdge ImplementsFlow
