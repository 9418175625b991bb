\* The BODY starts its next transaction while the external receiver of the
\* last one is still in its handshake.
CONSTANTS
    N = 1
    M = 1
    RecvWhen <- OnlyAlways
    SendWhen <- OnlySel
    Tokens = 2
    Paced = FALSE
    SettledPartners = TRUE
    SelHeld = TRUE
    ResetAgain = FALSE
SPECIFICATION Spec
CHECK_DEADLOCK FALSE
PROPERTY SendEnableConsumed
