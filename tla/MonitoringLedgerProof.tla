------------------------- MODULE MonitoringLedgerProof -------------------------
(***************************************************************************)
(* The monitoring ledger implements the meter, for every set of scopes,    *)
(* symbols and alerts.  The inductive invariant is that every record is    *)
(* well formed and consistent: an open window has an alert that watches    *)
(* the symbol, and was not opened in the future.                           *)
(***************************************************************************)
EXTENDS MonitoringLedger, FiniteSetTheorems, TLAPS

Good(rec, now) == rec \in ScopeRecord /\ Consistent(rec, now)

LedgerInv ==
    /\ clock \in 0..MaxTime
    /\ memory \in Ledger
    /\ file \in Ledger
    /\ WindowsMatchAlerts

-----------------------------------------------------------------------------
(* What each call does to the record of a scope *)

\* Starting an alert keeps a record well formed and consistent, and switches
\* the alert on in the account of one symbol.
LEMMA StartedIsGood ==
    ASSUME NEW now \in Nat, NEW rec, Good(rec, now), NEW a \in Alerts, NEW s \in Symbols
    PROVE  Good(Started(rec, a, s, now), now)
<1>1. CASE IsActive(rec, a)
  BY <1>1 DEF Started
<1>2. CASE ~IsActive(rec, a)
  <2> DEFINE new == Started(rec, a, s, now)
  <2>1. new = [alerts   |-> [rec.alerts EXCEPT ![a] = [status |-> "active", symbol |-> s]],
               symbols  |-> [rec.symbols EXCEPT ![s] = Watched(rec.symbols[s], a, now)],
               setups   |-> rec.setups + 1,
               triggers |-> rec.triggers]
    BY <1>2 DEF Started
  <2>2. Watched(rec.symbols[s], a, now) \in Window
    BY DEF Good, ScopeRecord, Window, Watched
  <2>3. new \in ScopeRecord
    BY <2>1, <2>2 DEF Good, ScopeRecord, Alert
  <2>4. ASSUME NEW t \in Symbols
        PROVE  /\ new.symbols[t].ids
                  = {b \in Alerts : IsActive(new, b) /\ new.alerts[b].symbol = t}
               /\ new.symbols[t].opened = NotOpen <=> new.symbols[t].ids = {}
               /\ new.symbols[t].opened # NotOpen => new.symbols[t].opened <= now
    BY <1>2, <2>1, NotOpenAssumption
    DEF Good, ScopeRecord, Alert, Window, Consistent, Watched, IsActive
  <2>5. QED
    BY <2>3, <2>4 DEF Good, Consistent
<1>3. QED
  BY <1>1, <1>2

LEMMA EndedIsGood ==
    ASSUME NEW now \in Nat, NEW rec, Good(rec, now), NEW a \in Alerts,
           NEW status \in {"triggered", "removed"}
    PROVE  Good(Ended(rec, a, status, now), now)
<1>1. CASE ~IsActive(rec, a)
  BY <1>1 DEF Ended
<1>2. CASE IsActive(rec, a)
  <2> DEFINE new == Ended(rec, a, status, now)
             s == rec.alerts[a].symbol
  <2>0. s \in Symbols
    BY DEF Good, ScopeRecord, Alert
  <2>1. new = [alerts   |-> [rec.alerts EXCEPT ![a] = [status |-> status, symbol |-> s]],
               symbols  |-> [rec.symbols EXCEPT ![s] = Unwatched(rec.symbols[s], a, now)],
               setups   |-> rec.setups,
               triggers |-> rec.triggers + IF status = "triggered" THEN 1 ELSE 0]
    BY <1>2 DEF Ended
  <2>2. Unwatched(rec.symbols[s], a, now) \in Window
    BY <2>0 DEF Good, ScopeRecord, Window, Unwatched, Duration
  <2>3. new \in ScopeRecord
    BY <2>0, <2>1, <2>2 DEF Good, ScopeRecord, Alert
  <2>4. ASSUME NEW t \in Symbols
        PROVE  /\ new.symbols[t].ids
                  = {b \in Alerts : IsActive(new, b) /\ new.alerts[b].symbol = t}
               /\ new.symbols[t].opened = NotOpen <=> new.symbols[t].ids = {}
               /\ new.symbols[t].opened # NotOpen => new.symbols[t].opened <= now
    BY <1>2, <2>0, <2>1, NotOpenAssumption
    DEF Good, ScopeRecord, Alert, Window, Consistent, Unwatched, IsActive
  <2>5. QED
    BY <2>3, <2>4 DEF Good, Consistent
<1>3. QED
  BY <1>1, <1>2

LEMMA EmptyIsGood == \A now \in Nat : Good(EmptyRecord, now)
<1>1. (CHOOSE s \in Symbols : TRUE) \in Symbols
  BY SymbolsAssumption
<1>2. EmptyRecord \in ScopeRecord
  BY <1>1 DEF EmptyRecord, ScopeRecord, Alert, Window
<1>3. \A now \in Nat : Consistent(EmptyRecord, now)
  BY NotOpenAssumption DEF EmptyRecord, Consistent, IsActive
<1>4. QED
  BY <1>2, <1>3 DEF Good

\* A record only needs to know that time does not run backwards.
LEMMA GoodLater ==
    ASSUME NEW now \in Nat, NEW rec, Good(rec, now)
    PROVE  Good(rec, now + 1)
BY NotOpenAssumption DEF Good, Consistent, ScopeRecord, Window

-----------------------------------------------------------------------------
(* Types and windows *)

LEMMA InvStep == LedgerInv /\ [Next]_vars => LedgerInv'
<1> SUFFICES ASSUME LedgerInv, [Next]_vars
             PROVE  LedgerInv'
  OBVIOUS
<1>0. /\ clock \in Nat
      /\ memory \in Ledger
      /\ file \in Ledger
      /\ \A c \in Scopes : Good(memory[c], clock) /\ Good(file[c], clock)
  BY BoundsAssumption DEF LedgerInv, WindowsMatchAlerts, Good, Ledger
<1>1. CASE Tick
  <2>1. clock' = clock + 1 /\ clock' \in 0..MaxTime
    BY <1>0, <1>1, BoundsAssumption DEF Tick
  <2>2. \A c \in Scopes : Good(memory[c], clock') /\ Good(file[c], clock')
    BY <1>0, <2>1, GoodLater
  <2>3. QED
    BY <1>0, <1>1, <2>1, <2>2 DEF Tick, LedgerInv, WindowsMatchAlerts, Good
<1>2. ASSUME NEW c \in Scopes, NEW rec, Good(rec, clock), Upsert(c, rec)
      PROVE  LedgerInv'
  <2>1. memory' \in Ledger /\ \A d \in Scopes : Good(memory'[d], clock)
    BY <1>0, <1>2 DEF Upsert, Ledger, Good
  <2>2. Blank \in Ledger /\ \A d \in Scopes : Good(Blank[d], clock)
    BY <1>0, EmptyIsGood DEF Blank, Ledger, Good
  <2>3. file' \in Ledger /\ \A d \in Scopes : Good(file'[d], clock)
    BY <1>0, <1>2, <2>1, <2>2 DEF Upsert
  <2>4. clock' = clock
    BY <1>2 DEF Upsert
  <2>5. QED
    BY <2>1, <2>3, <2>4 DEF LedgerInv, WindowsMatchAlerts, Good
<1>3. ASSUME NEW c \in Scopes, NEW a \in Alerts, NEW s \in Symbols,
             RecordAlertStarted(c, a, s)
      PROVE  LedgerInv'
  BY <1>0, <1>2, <1>3, StartedIsGood DEF RecordAlertStarted
<1>4. ASSUME NEW c \in Scopes, NEW a \in Alerts, NEW status \in {"triggered", "removed"},
             RecordAlertEnded(c, a, status)
      PROVE  LedgerInv'
  BY <1>0, <1>2, <1>4, EndedIsGood DEF RecordAlertEnded
<1>5. CASE Restart
  <2>1. Blank \in Ledger /\ \A d \in Scopes : Good(Blank[d], clock)
    BY <1>0, EmptyIsGood DEF Blank, Ledger, Good
  <2>2. QED
    BY <1>0, <1>5, <2>1 DEF Restart, LedgerInv, WindowsMatchAlerts, Good
<1>6. CASE UNCHANGED vars
  BY <1>6 DEF vars, LedgerInv, WindowsMatchAlerts
<1>7. QED
  BY <1>1, <1>3, <1>4, <1>5, <1>6 DEF Next

LEMMA LedgerInvariant == Spec => []LedgerInv
<1>1. Init => LedgerInv
  <2> SUFFICES ASSUME Init PROVE LedgerInv
    OBVIOUS
  <2>1. Blank \in Ledger /\ \A d \in Scopes : Good(Blank[d], 0)
    BY EmptyIsGood DEF Blank, Ledger, Good
  <2>2. QED
    BY <2>1, BoundsAssumption DEF Init, LedgerInv, WindowsMatchAlerts, Good
<1>2. QED
  BY <1>1, InvStep, PTL DEF Spec

\* The ledger only ever holds well-formed records.
THEOREM LedgerTypes == Spec => []TypeOK
<1>1. LedgerInv => TypeOK
  BY DEF LedgerInv, TypeOK
<1>2. QED
  BY <1>1, LedgerInvariant, PTL

\* A symbol's window is open exactly while an alert of the scope watches it,
\* in memory and in the file, whatever saves fail and whenever the process dies.
THEOREM WindowsAreRight == Spec => []WindowsMatchAlerts
<1>1. LedgerInv => WindowsMatchAlerts
  BY DEF LedgerInv
<1>2. QED
  BY <1>1, LedgerInvariant, PTL

-----------------------------------------------------------------------------
(* Setups and triggers *)

Active(rec) == {a \in Alerts : IsActive(rec, a)}

\* What TriggersAreSetUp says of one record, and that the active alerts of a record
\* are finitely many, whether or not the alert ids are.
Paid(rec) ==
    /\ IsFiniteSet(Active(rec))
    /\ rec.triggers + Cardinality(Active(rec)) <= rec.setups

LedgerPaid == \A c \in Scopes : Paid(memory[c]) /\ Paid(file[c])

LEMMA EmptyIsPaid == Paid(EmptyRecord)
<1>1. Active(EmptyRecord) = {}
  BY DEF Active, EmptyRecord, IsActive
<1>2. IsFiniteSet({}) /\ Cardinality({}) = 0
  BY FS_EmptySet
<1>3. EmptyRecord.setups = 0 /\ EmptyRecord.triggers = 0
  BY DEF EmptyRecord
<1>4. QED
  BY <1>1, <1>2, <1>3 DEF Paid

\* A start pays for one more alert than may trigger, or changes nothing.
LEMMA StartedIsPaid ==
    ASSUME NEW now, NEW rec \in ScopeRecord, Paid(rec), NEW a \in Alerts, NEW s \in Symbols
    PROVE  Paid(Started(rec, a, s, now))
<1>1. CASE IsActive(rec, a)
  BY <1>1 DEF Started
<1>2. CASE ~IsActive(rec, a)
  <2> DEFINE new == Started(rec, a, s, now)
  <2>1. /\ new.alerts = [rec.alerts EXCEPT ![a] = [status |-> "active", symbol |-> s]]
        /\ new.setups = rec.setups + 1 /\ new.triggers = rec.triggers
    BY <1>2 DEF Started
  <2>2. Active(new) = Active(rec) \cup {a} /\ a \notin Active(rec)
    BY <1>2, <2>1 DEF Active, IsActive, ScopeRecord, Alert
  <2>3. /\ IsFiniteSet(Active(new)) /\ Cardinality(Active(rec)) \in Nat
        /\ Cardinality(Active(new)) = Cardinality(Active(rec)) + 1
    BY <2>2, FS_AddElement, FS_CardinalityType DEF Paid
  <2>4. rec.setups \in Nat /\ rec.triggers \in Nat
    BY DEF ScopeRecord
  <2>5. QED
    BY <2>1, <2>3, <2>4 DEF Paid
<1>3. QED
  BY <1>1, <1>2

\* An end takes one alert from those that may trigger, for at most one trigger.
LEMMA EndedIsPaid ==
    ASSUME NEW now, NEW rec \in ScopeRecord, Paid(rec), NEW a \in Alerts,
           NEW status \in {"triggered", "removed"}
    PROVE  Paid(Ended(rec, a, status, now))
<1>1. CASE ~IsActive(rec, a)
  BY <1>1 DEF Ended
<1>2. CASE IsActive(rec, a)
  <2> DEFINE new == Ended(rec, a, status, now)
             more == IF status = "triggered" THEN 1 ELSE 0
  <2>1. /\ new.alerts = [rec.alerts EXCEPT
                           ![a] = [status |-> status, symbol |-> rec.alerts[a].symbol]]
        /\ new.setups = rec.setups /\ new.triggers = rec.triggers + more
    BY <1>2 DEF Ended
  <2>2. Active(new) = Active(rec) \ {a} /\ a \in Active(rec)
    BY <1>2, <2>1 DEF Active, IsActive, ScopeRecord, Alert
  <2>3. /\ IsFiniteSet(Active(new)) /\ Cardinality(Active(rec)) \in Nat
        /\ Cardinality(Active(new)) = Cardinality(Active(rec)) - 1
    BY <2>2, FS_RemoveElement, FS_CardinalityType DEF Paid
  <2>4. rec.setups \in Nat /\ rec.triggers \in Nat /\ more \in 0..1
    BY DEF ScopeRecord
  <2> HIDE DEF more
  <2>5. QED
    BY <2>1, <2>3, <2>4 DEF Paid
<1>3. QED
  BY <1>1, <1>2

LEMMA PaidStep == LedgerInv /\ LedgerPaid /\ [Next]_vars => LedgerPaid'
<1> SUFFICES ASSUME LedgerInv, LedgerPaid, [Next]_vars
             PROVE  LedgerPaid'
  OBVIOUS
<1>1. /\ memory \in [Scopes -> ScopeRecord]
      /\ \A c \in Scopes : Paid(memory[c]) /\ Paid(file[c]) /\ Paid(Blank[c])
  BY EmptyIsPaid DEF LedgerInv, LedgerPaid, Ledger, Blank
<1>2. ASSUME NEW c \in Scopes, NEW rec, Paid(rec), Upsert(c, rec)
      PROVE  LedgerPaid'
  <2>1. \A d \in Scopes : Paid(memory'[d])
    BY <1>1, <1>2 DEF Upsert
  <2>2. QED
    BY <1>1, <1>2, <2>1 DEF Upsert, LedgerPaid
<1>3. ASSUME NEW c \in Scopes, NEW a \in Alerts, NEW s \in Symbols,
             RecordAlertStarted(c, a, s)
      PROVE  LedgerPaid'
  BY <1>1, <1>2, <1>3, StartedIsPaid DEF RecordAlertStarted
<1>4. ASSUME NEW c \in Scopes, NEW a \in Alerts, NEW status \in {"triggered", "removed"},
             RecordAlertEnded(c, a, status)
      PROVE  LedgerPaid'
  BY <1>1, <1>2, <1>4, EndedIsPaid DEF RecordAlertEnded
<1>5. CASE Restart
  BY <1>1, <1>5 DEF Restart, LedgerPaid
<1>6. CASE Tick
  BY <1>1, <1>6 DEF Tick, LedgerPaid
<1>7. CASE UNCHANGED vars
  BY <1>1, <1>7 DEF vars, LedgerPaid
<1>8. QED
  BY <1>3, <1>4, <1>5, <1>6, <1>7 DEF Next

\* No scope is ever charged for more triggers than it paid setups, however saves
\* fail, alerts are started again and the process restarts.
THEOREM TriggersArePaid == Spec => []TriggersAreSetUp
<1>1. Init => LedgerPaid
  BY EmptyIsPaid DEF Init, LedgerPaid, Blank
<1>2. LedgerPaid => TriggersAreSetUp
  BY DEF LedgerPaid, Paid, Active, TriggersAreSetUp
<1>3. QED
  BY <1>1, <1>2, LedgerInvariant, PaidStep, PTL DEF Spec

-----------------------------------------------------------------------------
(* The meter *)

\* The second account is the first with an alert switched on or off at a symbol.
Switches(before, after, a) ==
    \E s \in Symbols : \E on \in {before[s].on \cup {a}, before[s].on \ {a}} :
        after = Meter!Switched(before, s, on)

\* Starting an alert switches it on in the account of one symbol and charges
\* nothing.
LEMMA StartedSwitches ==
    ASSUME NEW now \in Nat, NEW rec, Good(rec, now), NEW a \in Alerts, NEW s \in Symbols
    PROVE  Switches(Account(rec, now), Account(Started(rec, a, s, now), now), a)
<1> DEFINE old == Account(rec, now)
<1>0. \A t \in Symbols : old[t].on = rec.symbols[t].ids
  BY DEF Account
<1>1. CASE IsActive(rec, a)
  <2> DEFINE t == rec.alerts[a].symbol
  <2>1. t \in Symbols /\ a \in rec.symbols[t].ids
    BY <1>1 DEF Good, ScopeRecord, Alert, Consistent
  <2>2. old[t].on \cup {a} = old[t].on
    BY <1>0, <2>1
  <2>3. old = Meter!Switched(old, t, old[t].on \cup {a})
    BY <2>1, <2>2 DEF Account, Meter!Switched
  <2>4. Started(rec, a, s, now) = rec
    BY <1>1 DEF Started
  <2>5. QED
    BY <2>1, <2>3, <2>4 DEF Switches
<1>2. CASE ~IsActive(rec, a)
  <2> DEFINE new == Started(rec, a, s, now)
  <2>1. new.symbols = [rec.symbols EXCEPT ![s] = Watched(rec.symbols[s], a, now)]
    BY <1>2 DEF Started
  <2>2. Seconds(Watched(rec.symbols[s], a, now), now) = Seconds(rec.symbols[s], now)
    BY NotOpenAssumption
    DEF Watched, Seconds, Duration, Good, Consistent, ScopeRecord, Window
  <2>3. Watched(rec.symbols[s], a, now).ids = rec.symbols[s].ids \cup {a}
    BY DEF Watched
  <2>4. rec.symbols \in [Symbols -> Window]
    BY DEF Good, ScopeRecord
  <2>5. ASSUME NEW t \in Symbols
        PROVE  Account(new, now)[t]
               = IF t = s THEN [on |-> old[s].on \cup {a}, due |-> old[s].due] ELSE old[t]
    BY <2>1, <2>2, <2>3, <2>4 DEF Account
  <2>6. Account(new, now) = Meter!Switched(old, s, old[s].on \cup {a})
    BY <2>5 DEF Account, Meter!Switched
  <2>7. QED
    BY <2>6 DEF Switches
<1>3. QED
  BY <1>1, <1>2

LEMMA EndedSwitches ==
    ASSUME NEW now \in Nat, NEW rec, Good(rec, now), NEW a \in Alerts, NEW status
    PROVE  Switches(Account(rec, now), Account(Ended(rec, a, status, now), now), a)
<1> DEFINE old == Account(rec, now)
           s == rec.alerts[a].symbol
<1>0. s \in Symbols /\ \A t \in Symbols : old[t].on = rec.symbols[t].ids
  BY DEF Account, Good, ScopeRecord, Alert
<1>1. CASE ~IsActive(rec, a)
  <2>1. a \notin rec.symbols[s].ids
    BY <1>0, <1>1 DEF Good, Consistent
  <2>2. old[s].on \ {a} = old[s].on
    BY <1>0, <2>1
  <2>3. old = Meter!Switched(old, s, old[s].on \ {a})
    BY <1>0, <2>2 DEF Account, Meter!Switched
  <2>4. Ended(rec, a, status, now) = rec
    BY <1>1 DEF Ended
  <2>5. QED
    BY <1>0, <2>3, <2>4 DEF Switches
<1>2. CASE IsActive(rec, a)
  <2> DEFINE new == Ended(rec, a, status, now)
  <2>1. new.symbols = [rec.symbols EXCEPT ![s] = Unwatched(rec.symbols[s], a, now)]
    BY <1>2 DEF Ended
  <2>2. Seconds(Unwatched(rec.symbols[s], a, now), now) = Seconds(rec.symbols[s], now)
    BY <1>0, NotOpenAssumption
    DEF Unwatched, Seconds, Duration, Good, Consistent, ScopeRecord, Window
  <2>3. Unwatched(rec.symbols[s], a, now).ids = rec.symbols[s].ids \ {a}
    BY DEF Unwatched
  <2>4. rec.symbols \in [Symbols -> Window]
    BY DEF Good, ScopeRecord
  <2>5. ASSUME NEW t \in Symbols
        PROVE  Account(new, now)[t]
               = IF t = s THEN [on |-> old[s].on \ {a}, due |-> old[s].due] ELSE old[t]
    BY <1>0, <2>1, <2>2, <2>3, <2>4 DEF Account
  <2>6. Account(new, now) = Meter!Switched(old, s, old[s].on \ {a})
    BY <1>0, <2>5 DEF Account, Meter!Switched
  <2>7. QED
    BY <1>0, <2>6 DEF Switches
<1>3. QED
  BY <1>1, <1>2

\* The account after one more tick.
Charged(account) ==
    [s \in Symbols |-> [on  |-> account[s].on,
                        due |-> account[s].due + IF account[s].on = {} THEN 0 ELSE 1]]

\* Time passes: each watched symbol is due for one more tick, no other is.
LEMMA TickCharges ==
    ASSUME NEW now \in Nat, NEW rec, Good(rec, now)
    PROVE  Account(rec, now + 1) = Charged(Account(rec, now))
<1>1. ASSUME NEW s \in Symbols
      PROVE  Seconds(rec.symbols[s], now + 1)
             = Seconds(rec.symbols[s], now) + IF rec.symbols[s].ids = {} THEN 0 ELSE 1
  BY NotOpenAssumption DEF Seconds, Duration, Good, Consistent, ScopeRecord, Window
<1>2. QED
  BY <1>1 DEF Account, Charged

LEMMA BlankAccounts == \A now : [c \in Scopes |-> Account(Blank[c], now)] = Meter!Blank
BY DEF Blank, EmptyRecord, Account, Seconds, Meter!Blank

LEMMA MeterStep ==
    ASSUME LedgerInv, [Next]_vars
    PROVE  [Meter!Next]_(Meter!vars)
<1>0. /\ clock \in Nat
      /\ \A c \in Scopes : Good(memory[c], clock) /\ Good(file[c], clock)
      /\ memory \in Ledger
  BY BoundsAssumption DEF LedgerInv, WindowsMatchAlerts, Good, Ledger
<1>1. CASE Tick
  <2>1. Accounts(memory)' = Meter!AfterTick(Accounts(memory))
    <3>1. Accounts(memory)' = [c \in Scopes |-> Account(memory[c], clock + 1)]
      BY <1>1 DEF Tick, Accounts
    <3>2. \A c \in Scopes : Account(memory[c], clock + 1) = Charged(Account(memory[c], clock))
      BY <1>0, TickCharges
    <3>3. \A c \in Scopes : Accounts(memory)[c] = Account(memory[c], clock)
      BY DEF Accounts
    <3>4. Accounts(memory)' = [c \in Scopes |-> Charged(Accounts(memory)[c])]
      BY <3>1, <3>2, <3>3
    <3>5. QED
      BY <3>4 DEF Charged, Meter!AfterTick
  <2>2. Accounts(file)' = Meter!AfterTick(Accounts(file))
    <3>1. Accounts(file)' = [c \in Scopes |-> Account(file[c], clock + 1)]
      BY <1>1 DEF Tick, Accounts
    <3>2. \A c \in Scopes : Account(file[c], clock + 1) = Charged(Account(file[c], clock))
      BY <1>0, TickCharges
    <3>3. \A c \in Scopes : Accounts(file)[c] = Account(file[c], clock)
      BY DEF Accounts
    <3>4. Accounts(file)' = [c \in Scopes |-> Charged(Accounts(file)[c])]
      BY <3>1, <3>2, <3>3
    <3>5. QED
      BY <3>4 DEF Charged, Meter!AfterTick
  <2>3. QED
    BY <2>1, <2>2 DEF Meter!Next, Meter!Tick
<1>2. ASSUME NEW c \in Scopes, NEW rec, Upsert(c, rec), NEW a \in Alerts,
             Switches(Account(memory[c], clock), Account(rec, clock), a)
      PROVE  Meter!Next
  <2>1. PICK t \in Symbols, on \in SUBSET Alerts :
            /\ on \in {Account(memory[c], clock)[t].on \cup {a},
                       Account(memory[c], clock)[t].on \ {a}}
            /\ Account(rec, clock) = Meter!Switched(Account(memory[c], clock), t, on)
    BY <1>0, <1>2 DEF Switches, Account, Good, ScopeRecord, Window
  <2>2. clock' = clock /\ memory' = [memory EXCEPT ![c] = rec]
    BY <1>2 DEF Upsert
  <2>3. Accounts(memory)' = [Accounts(memory) EXCEPT ![c] = Account(rec, clock)]
    BY <1>0, <2>2 DEF Accounts, Ledger
  <2>4. Accounts(memory)[c] = Account(memory[c], clock)
    BY DEF Accounts
  <2>5. Accounts(memory)' = [Accounts(memory) EXCEPT
                               ![c] = Meter!Switched(Accounts(memory)[c], t, on)]
    BY <2>1, <2>3, <2>4
  <2>6. Accounts(file)' \in {Accounts(memory)', Accounts(file), Meter!Blank}
    <3>1. CASE file' = memory'
      BY <3>1 DEF Accounts
    <3>2. CASE file' = file
      BY <2>2, <3>2 DEF Accounts
    <3>3. CASE file' = Blank
      BY <3>3, BlankAccounts DEF Accounts
    <3>4. QED
      BY <1>2, <3>1, <3>2, <3>3 DEF Upsert
  <2>7. Meter!Switch(c, t, a)
    BY <2>1, <2>4, <2>5, <2>6 DEF Meter!Switch
  <2>8. QED
    BY <2>7 DEF Meter!Next
<1>3. ASSUME NEW c \in Scopes, NEW a \in Alerts, NEW s \in Symbols,
             RecordAlertStarted(c, a, s)
      PROVE  Meter!Next
  BY <1>0, <1>2, <1>3, StartedSwitches DEF RecordAlertStarted
<1>4. ASSUME NEW c \in Scopes, NEW a \in Alerts, NEW status \in {"triggered", "removed"},
             RecordAlertEnded(c, a, status)
      PROVE  Meter!Next
  BY <1>0, <1>2, <1>4, EndedSwitches DEF RecordAlertEnded
<1>5. CASE Restart
  <2>1. Accounts(file)' \in {Accounts(file), Meter!Blank}
    <3>1. CASE file' = file
      BY <1>5, <3>1 DEF Restart, Accounts
    <3>2. CASE file' = Blank
      BY <3>2, BlankAccounts DEF Accounts
    <3>3. QED
      BY <1>5, <3>1, <3>2 DEF Restart
  <2>2. Accounts(memory)' = Accounts(file)'
    BY <1>5 DEF Restart, Accounts
  <2>3. QED
    BY <2>1, <2>2 DEF Meter!Next, Meter!Restart
<1>6. CASE UNCHANGED vars
  BY <1>6 DEF vars, Accounts, Meter!vars
<1>7. QED
  BY <1>1, <1>3, <1>4, <1>5, <1>6 DEF Next

\* The ledger, with its windows, charges what a meter that ticks once per
\* watched symbol charges: never twice for two alerts on one symbol, never for
\* a symbol nobody watches.
THEOREM LedgerIsAMeter == Spec => MeterSpec
<1>1. Init => Meter!Init
  BY BlankAccounts DEF Init, Meter!Init, Accounts
<1>2. QED
  BY <1>1, LedgerInvariant, MeterStep, PTL DEF Spec, MeterSpec, Meter!Spec

=============================================================================
