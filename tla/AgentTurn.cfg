SPECIFICATION Spec
CONSTANTS
    NoSymbol = NoSymbol
    Unreadable = Unreadable
    NoRequest = NoRequest
    t1 = t1
    t2 = t2
    btc = btc
    eth = eth
    Turns <- MCTurns
    Symbols <- MCSymbols
    Workloads <- MCWorkloads
    MaxFaults = 2
CHECK_DEADLOCK FALSE
INVARIANTS
    TypeOK
    AnalysisTurnsDoNotDraw
    DisabledToolsAreWithheld
    FailuresReachThePosture
    DrawingsAreNotRepeated
    DrawingsAreOnTheirSymbol
    TraceTellsTheTurn
PROPERTIES
    TurnsEnd
