SPECIFICATION Spec
CONSTANTS
    Scopes = {c1}
    Symbols = {btc, eth}
    Alerts = {a1, a2}
    NotOpen = NotOpen
    MaxTime = 3
    MaxSetups = 3
INVARIANTS
    TypeOK
    WindowsMatchAlerts
    TriggersAreSetUp
PROPERTY MeterSpec
