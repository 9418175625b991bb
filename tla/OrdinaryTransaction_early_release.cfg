\* Senders that keep their payload only while their request is high.
CONSTANTS
    N = 2
    M = 2
    MaxTokens = 3
    HoldsUntilAckLow = FALSE
SPECIFICATION Spec
PROPERTY PayloadStable
