\* Every port conditional: if (sel) { A.Receive; C.Send } else { B.Receive; D.Send }
CONSTANTS
    N = 2
    M = 2
    RecvWhen <- SelOrNot
    SendWhen <- SelOrNot
    Tokens = 2
    Paced = TRUE
    SettledPartners = TRUE
    SelHeld = TRUE
    ResetAgain = TRUE
SPECIFICATION Spec
INVARIANTS Inv DisabledUntouched
PROPERTIES ImplementsFlow JoinedHandshake
