\* A refresh whose answer is lost, and a grant that fails: RefreshOnce does not hold.
CONSTANTS
    g1 = g1
    g2 = g2
    g3 = g3
    None = None
    Callers = {g1, g2, g3}
    MaxTokens = 2
SPECIFICATION Spec
CHECK_DEADLOCK FALSE
INVARIANT
    RefreshOnce
