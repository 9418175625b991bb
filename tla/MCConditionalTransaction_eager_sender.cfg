\* A sender that offers its next token as soon as the protocol lets it.
CONSTANTS
    N = 1
    M = 1
    RecvWhen <- OnlySel
    SendWhen <- OnlyAlways
    Tokens = 2
    Paced = FALSE
    SettledPartners = TRUE
    SelHeld = TRUE
    ResetAgain = FALSE
SPECIFICATION Spec
CHECK_DEADLOCK FALSE
PROPERTY RecvEnableConsumed
