\* A reset while a request is inside Token: ResetIsFinal does not hold.
CONSTANTS
    g1 = g1
    g2 = g2
    g3 = g3
    None = None
    Callers = {g1, g2, g3}
    MaxTokens = 2
SPECIFICATION Spec
CHECK_DEADLOCK FALSE
PROPERTY
    ResetIsFinal
