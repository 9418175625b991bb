\* One unconditional and one conditional port on each side, as in
\*   A.Receive(a); if (sel) B.Receive(b); C.Send(..); if (sel) D.Send(..);
CONSTANTS
    N = 2
    M = 2
    RecvWhen <- AlwaysAndSel
    SendWhen <- AlwaysAndSel
    Tokens = 2
    Paced = TRUE
    SettledPartners = TRUE
    SelHeld = TRUE
    ResetAgain = FALSE
SPECIFICATION Spec
INVARIANTS TypeOK Inv ResultDelivered DisabledUntouched EvaluatedOnce
PROPERTIES ImplementsFlow ExternalHandshake RecvEnableConsumed SendEnableConsumed ResultsTaken KeepsRunning
