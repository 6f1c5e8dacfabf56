\* Three requests, a leader, a waiter and one that comes when the first call is
\* done; two tokens, so that one is restored or fetched and then refreshed.
CONSTANTS
    g1 = g1
    g2 = g2
    g3 = g3
    None = None
    Callers = {g1, g2, g3}
    MaxTokens = 2
SPECIFICATION FairSpec
CHECK_DEADLOCK FALSE
INVARIANTS
    OneFetch
    RefreshNewest
PROPERTIES
    ServedIsReal
    TokenReturns
