SPECIFICATION Spec
CONSTANTS
    btc = btc
    c1 = c1
    c2 = c2
    Alerts = {a1, a2}
    Symbols = {btc}
    Scopes = {c1}
    NotOpen = NotOpen
    MaxTime = 1
    NoScope = NoScope
    NoUser = NoUser
    NoSetup = NoSetup
    Setups <- MCSetups
    Callers <- MCCallers
    Loops = {l1, l2}
    Queues = {q1}
    MaxPrice = 3
    Wired = TRUE
INVARIANT ArmedAlertsAreAnswered
