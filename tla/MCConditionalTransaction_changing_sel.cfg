\* The external input changes after the PRE_INPUT enables have captured it.
CONSTANTS
    N = 2
    M = 2
    RecvWhen <- SelOrNot
    SendWhen <- SelOrNot
    Tokens = 2
    Paced = TRUE
    SettledPartners = TRUE
    SelHeld = FALSE
    ResetAgain = FALSE
SPECIFICATION Spec
INVARIANT ResultDelivered
