SPECIFICATION FairSpec
CONSTANTS
    w1 = w1
    w2 = w2
    Scopes = {s1, s2}
    Wallets = {w1, w2}
    Owner <- MCOwner
    Requests = {r1, r2}
    Models = {m1, m2}
    NoScope = NoScope
    NoWallet = NoWallet
    NoRecord = NoRecord
    MaxCost = 2
INVARIANTS
    TypeOK
    RecordNamesItsTransaction
    CleanScopeChargedAtMostOnce
    AcknowledgedSettlementStands
    
PROPERTY RequestsEnd
