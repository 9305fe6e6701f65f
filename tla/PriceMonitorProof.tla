--------------------------- MODULE PriceMonitorProof ---------------------------
(***************************************************************************)
(* Proofs about PriceMonitor, for every set of alerts, scopes, symbols,    *)
(* loops and subscribers.                                                  *)
(*                                                                         *)
(* The ledger's counters are compared with numbers of alerts, so that the  *)
(* invariant has to know that only finitely many were ever added, and that *)
(* an alert not added yet is unknown to every ledger.                      *)
(***************************************************************************)
EXTENDS PriceMonitor, FiniteSetTheorems, TLAPS

\* The alerts that were ever added.
Armed == {a \in Alerts : setup[a] # NoSetup}

Known ==
    /\ IsFiniteSet(Armed)
    /\ alerts \subseteq Armed
    /\ \A a \in Alerts : a \in Armed <=> answer[a] # "none"
    /\ \A a \in Alerts \ Armed : outcome[a] = "pending"

Typed == TypeOK /\ Known

\* A queue that has the event of an alert got it once, when the alert fired.
Events ==
    \A q \in Queues, a \in Alerts :
        inbox[q][a] = 0 \/ (inbox[q][a] = 1 /\ outcome[a] # "pending")

\* What a scope's record says of each alert.
StatusOf(a, c) ==
    IF a \notin Added(c) THEN "unknown"
    ELSE IF outcome[a] # "pending" THEN "triggered"
    ELSE IF a \in alerts THEN "active" ELSE "removed"

Follows(rec, c) ==
    /\ rec.setups = Cardinality(Added(c))
    /\ rec.triggers = Cardinality(Fired(c))
    /\ \A a \in Alerts : rec.alerts[a].status = StatusOf(a, c)

Accords == ~disturbed => \A c \in Scopes : memory[c] = file[c] /\ Follows(memory[c], c)

Inv == Typed /\ Events /\ Accords

-----------------------------------------------------------------------------
(* A round's calls *)

\* The alerts a round ends, those of one symbol, who watches it afterwards, whether
\* its window closes and what it was open for.
Ending(rec, set) == {b \in set : Ledger!IsActive(rec, b)}
On(rec, set, s) == {b \in Ending(rec, set) : rec.alerts[b].symbol = s}
Left(rec, set, s) == rec.symbols[s].ids \ On(rec, set, s)
Closes(rec, set, s) ==
    On(rec, set, s) # {} /\ Left(rec, set, s) = {} /\ rec.symbols[s].opened # NotOpen
Opened(rec, set, s) == IF Closes(rec, set, s) THEN NotOpen ELSE rec.symbols[s].opened
Total(rec, set, s, now) ==
    rec.symbols[s].closed
    + IF Closes(rec, set, s) THEN Ledger!Duration(rec.symbols[s].opened, now) ELSE 0

AlertsAfter(rec, set) ==
    [b \in Alerts |-> [status |-> IF b \in Ending(rec, set) THEN "triggered"
                                                            ELSE rec.alerts[b].status,
                       symbol |-> rec.alerts[b].symbol]]
WindowAfter(rec, set, s, now) ==
    [ids |-> Left(rec, set, s), opened |-> Opened(rec, set, s),
     closed |-> Total(rec, set, s, now)]

LEMMA TriggeredShape ==
    ASSUME NEW rec, NEW set, NEW now
    PROVE  TriggeredAll(rec, set, now)
           = [alerts   |-> AlertsAfter(rec, set),
              symbols  |-> [s \in Symbols |-> WindowAfter(rec, set, s, now)],
              setups   |-> rec.setups,
              triggers |-> rec.triggers + Cardinality(Ending(rec, set))]
BY DEF TriggeredAll, AlertsAfter, WindowAfter, Opened, Total, Closes, Left, On, Ending

\* A call about one alert more changes the window of that alert's symbol as
\* the ledger's own step does.
LEMMA WindowOfOneMore ==
    ASSUME NEW rec \in Ledger!ScopeRecord, NEW now \in Nat, NEW set \in SUBSET Alerts,
           NEW a \in Alerts \ set, Ledger!IsActive(rec, a)
    PROVE  LET s == rec.alerts[a].symbol IN
           WindowAfter(rec, set \cup {a}, s, now)
           = Ledger!Unwatched(WindowAfter(rec, set, s, now), a, now)
<1> DEFINE s == rec.alerts[a].symbol
           all == set \cup {a}
           w == WindowAfter(rec, set, s, now)
<1>1. s \in Symbols /\ rec.symbols[s] \in Ledger!Window
  BY DEF Ledger!ScopeRecord, Ledger!Alert
<1>2. On(rec, all, s) = On(rec, set, s) \cup {a} /\ Left(rec, all, s) = Left(rec, set, s) \ {a}
  BY DEF On, Left, Ending
<1>3. w.ids = Left(rec, set, s) /\ w.opened = Opened(rec, set, s)
      /\ w.closed = Total(rec, set, s, now)
  BY DEF WindowAfter
<1>4. Closes(rec, all, s)
      <=> (Left(rec, set, s) \ {a} = {} /\ rec.symbols[s].opened # NotOpen)
  BY <1>2 DEF Closes
<1>5. CASE Closes(rec, set, s)
  <2>1. Closes(rec, all, s)
    BY <1>2, <1>5 DEF Closes
  <2>2. w.opened = NotOpen /\ Opened(rec, all, s) = NotOpen
    BY <1>3, <1>5, <2>1 DEF Opened
  <2>3. Total(rec, all, s, now) = Total(rec, set, s, now)
    BY <1>5, <2>1 DEF Total
  <2>4. Ledger!Unwatched(w, a, now)
        = [ids |-> w.ids \ {a}, opened |-> w.opened, closed |-> w.closed]
    BY <2>2 DEF Ledger!Unwatched
  <2>5. QED
    BY <1>2, <1>3, <2>2, <2>3, <2>4 DEF WindowAfter
<1>6. CASE ~Closes(rec, set, s)
  <2>1. w.opened = rec.symbols[s].opened
    BY <1>3, <1>6 DEF Opened
  <2>2. w.closed = rec.symbols[s].closed
    BY <1>1, <1>3, <1>6 DEF Total, Ledger!Window
  <2>3. CASE Closes(rec, all, s)
    <3>1. Ledger!Unwatched(w, a, now)
          = [ids |-> w.ids \ {a}, opened |-> NotOpen,
             closed |-> w.closed + Ledger!Duration(w.opened, now)]
      BY <1>3, <1>4, <2>1, <2>3 DEF Ledger!Unwatched
    <3>2. Opened(rec, all, s) = NotOpen
          /\ Total(rec, all, s, now) = w.closed + Ledger!Duration(w.opened, now)
      BY <2>1, <2>2, <2>3 DEF Opened, Total
    <3>3. QED
      BY <1>2, <1>3, <3>1, <3>2 DEF WindowAfter
  <2>4. CASE ~Closes(rec, all, s)
    <3>1. Ledger!Unwatched(w, a, now)
          = [ids |-> w.ids \ {a}, opened |-> w.opened, closed |-> w.closed]
      BY <1>3, <1>4, <2>1, <2>4 DEF Ledger!Unwatched
    <3>2. Opened(rec, all, s) = w.opened /\ Total(rec, all, s, now) = w.closed
      BY <1>1, <2>1, <2>2, <2>4 DEF Opened, Total, Ledger!Window
    <3>3. QED
      BY <1>2, <1>3, <3>1, <3>2 DEF WindowAfter
  <2>5. QED
    BY <2>3, <2>4
<1>7. QED
  BY <1>5, <1>6

\* The calls of a round, made one after the other, are what TriggeredAll says they
\* do together: no call changes nothing, and each further one adds its own effect.
THEOREM RoundIsItsCalls ==
    ASSUME NEW rec \in Ledger!ScopeRecord, NEW now \in Nat, NEW set \in SUBSET Alerts,
           IsFiniteSet(set), NEW a \in Alerts \ set
    PROVE  /\ TriggeredAll(rec, {}, now) = rec
           /\ TriggeredAll(rec, set \cup {a}, now)
              = Ledger!Ended(TriggeredAll(rec, set, now), a, "triggered", now)
<1> DEFINE all == set \cup {a}
           s0 == rec.alerts[a].symbol
<1>1. /\ rec.alerts \in [Alerts -> Ledger!Alert] /\ rec.symbols \in [Symbols -> Ledger!Window]
      /\ rec.setups \in Nat /\ rec.triggers \in Nat
      /\ rec = [alerts |-> rec.alerts, symbols |-> rec.symbols,
                setups |-> rec.setups, triggers |-> rec.triggers]
  BY DEF Ledger!ScopeRecord
<1>2. TriggeredAll(rec, {}, now) = rec
  <2>1. Ending(rec, {}) = {} /\ Cardinality(Ending(rec, {})) = 0
    <3>1. Ending(rec, {}) = {}
      BY DEF Ending
    <3>2. QED
      BY <3>1, FS_EmptySet
  <2>2. \A b \in Alerts : [status |-> rec.alerts[b].status, symbol |-> rec.alerts[b].symbol]
                          = rec.alerts[b]
    BY <1>1 DEF Ledger!Alert
  <2>3. AlertsAfter(rec, {}) = rec.alerts
    BY <1>1, <2>1, <2>2 DEF AlertsAfter
  <2>4. \A s \in Symbols : WindowAfter(rec, {}, s, now) = rec.symbols[s]
    <3> TAKE s \in Symbols
    <3>1. On(rec, {}, s) = {} /\ Left(rec, {}, s) = rec.symbols[s].ids /\ ~Closes(rec, {}, s)
      BY <2>1 DEF On, Left, Closes
    <3>2. Total(rec, {}, s, now) = rec.symbols[s].closed
          /\ Opened(rec, {}, s) = rec.symbols[s].opened
      BY <1>1, <3>1 DEF Total, Opened, Ledger!Window
    <3>3. QED
      BY <1>1, <3>1, <3>2 DEF WindowAfter, Ledger!Window
  <2>5. [s \in Symbols |-> WindowAfter(rec, {}, s, now)] = rec.symbols
    BY <1>1, <2>4
  <2>6. rec.triggers + Cardinality(Ending(rec, {})) = rec.triggers
    BY <1>1, <2>1
  <2>7. QED
    BY <1>1, <2>3, <2>5, <2>6, TriggeredShape
<1>3. PICK new : new = TriggeredAll(rec, set, now)
  OBVIOUS
<1>4. /\ new.alerts = AlertsAfter(rec, set)
      /\ new.symbols = [s \in Symbols |-> WindowAfter(rec, set, s, now)]
      /\ new.setups = rec.setups
      /\ new.triggers = rec.triggers + Cardinality(Ending(rec, set))
  BY <1>3, TriggeredShape
<1>5. CASE ~Ledger!IsActive(rec, a)
  <2>1. Ending(rec, all) = Ending(rec, set) /\ a \notin Ending(rec, set)
    BY <1>5 DEF Ending
  <2>2. TriggeredAll(rec, all, now) = new
    BY <1>3, <2>1 DEF TriggeredAll, Ending
  <2>3. new.alerts[a].status = rec.alerts[a].status
    BY <1>4, <2>1 DEF AlertsAfter
  <2>4. ~Ledger!IsActive(new, a)
    BY <1>5, <2>3 DEF Ledger!IsActive
  <2>5. QED
    BY <1>2, <1>3, <2>2, <2>4 DEF Ledger!Ended
<1>6. CASE Ledger!IsActive(rec, a)
  <2>1. Ending(rec, all) = Ending(rec, set) \cup {a} /\ a \notin Ending(rec, set)
        /\ s0 \in Symbols
    BY <1>1, <1>6 DEF Ending, Ledger!Alert
  <2>2. Cardinality(Ending(rec, all)) = Cardinality(Ending(rec, set)) + 1
        /\ Cardinality(Ending(rec, set)) \in Nat
    <3>1. IsFiniteSet(Ending(rec, set))
      BY FS_Subset DEF Ending
    <3>2. QED
      BY <2>1, <3>1, FS_AddElement, FS_CardinalityType
  <2>3. new.alerts[a] = [status |-> rec.alerts[a].status, symbol |-> s0]
    BY <1>4, <2>1 DEF AlertsAfter
  <2>4. Ledger!IsActive(new, a) /\ new.alerts[a].symbol = s0
    BY <1>6, <2>3 DEF Ledger!IsActive
  <2>5. Ledger!Ended(new, a, "triggered", now)
        = [alerts   |-> [new.alerts EXCEPT ![a] = [status |-> "triggered", symbol |-> s0]],
           symbols  |-> [new.symbols EXCEPT ![s0] = Ledger!Unwatched(new.symbols[s0], a, now)],
           setups   |-> new.setups,
           triggers |-> new.triggers + 1]
    BY <2>4 DEF Ledger!Ended
  <2>6. [new.alerts EXCEPT ![a] = [status |-> "triggered", symbol |-> s0]]
        = AlertsAfter(rec, all)
    BY <1>4, <2>1 DEF AlertsAfter
  <2>7. \A s \in Symbols \ {s0} : WindowAfter(rec, all, s, now) = WindowAfter(rec, set, s, now)
    <3> TAKE s \in Symbols \ {s0}
    <3>1. On(rec, all, s) = On(rec, set, s)
      BY <2>1 DEF On
    <3>2. QED
      BY <3>1 DEF WindowAfter, Opened, Total, Closes, Left
  <2>8. WindowAfter(rec, all, s0, now) = Ledger!Unwatched(new.symbols[s0], a, now)
    BY <1>4, <1>6, <2>1, WindowOfOneMore
  <2>9. [new.symbols EXCEPT ![s0] = Ledger!Unwatched(new.symbols[s0], a, now)]
        = [s \in Symbols |-> WindowAfter(rec, all, s, now)]
    BY <1>4, <2>1, <2>7, <2>8
  <2>10. new.triggers + 1 = rec.triggers + Cardinality(Ending(rec, all))
    BY <1>1, <1>4, <2>2
  <2>11. QED
    BY <1>2, <1>3, <1>4, <2>5, <2>6, <2>9, <2>10, TriggeredShape
<1>7. QED
  BY <1>5, <1>6

-----------------------------------------------------------------------------
(* Types *)

LEMMA StartedTyped ==
    ASSUME NEW rec \in Ledger!ScopeRecord, NEW now \in Nat,
           NEW a \in Alerts, NEW s \in Symbols
    PROVE  Ledger!Started(rec, a, s, now) \in Ledger!ScopeRecord
<1>1. Ledger!Watched(rec.symbols[s], a, now) \in Ledger!Window
  BY DEF Ledger!ScopeRecord, Ledger!Window, Ledger!Watched
<1>2. QED
  BY <1>1 DEF Ledger!Started, Ledger!ScopeRecord, Ledger!Alert

LEMMA EndedTyped ==
    ASSUME NEW rec \in Ledger!ScopeRecord, NEW now \in Nat, NEW a \in Alerts,
           NEW status \in {"triggered", "removed"}
    PROVE  Ledger!Ended(rec, a, status, now) \in Ledger!ScopeRecord
<1>1. rec.alerts[a].symbol \in Symbols
  BY DEF Ledger!ScopeRecord, Ledger!Alert
<1>2. Ledger!Unwatched(rec.symbols[rec.alerts[a].symbol], a, now) \in Ledger!Window
  BY <1>1 DEF Ledger!ScopeRecord, Ledger!Window, Ledger!Unwatched, Ledger!Duration
<1>3. QED
  BY <1>1, <1>2 DEF Ledger!Ended, Ledger!ScopeRecord, Ledger!Alert

LEMMA TriggeredTyped ==
    ASSUME NEW rec \in Ledger!ScopeRecord, NEW now \in Nat, NEW set \in SUBSET Alerts,
           IsFiniteSet(set)
    PROVE  TriggeredAll(rec, set, now) \in Ledger!ScopeRecord
<1>1. AlertsAfter(rec, set) \in [Alerts -> Ledger!Alert]
  BY DEF AlertsAfter, Ledger!ScopeRecord, Ledger!Alert
<1>2. ASSUME NEW s \in Symbols
      PROVE  WindowAfter(rec, set, s, now) \in Ledger!Window
  <2>1. rec.symbols[s] \in Ledger!Window
    BY DEF Ledger!ScopeRecord
  <2>2. Left(rec, set, s) \subseteq Alerts /\ Opened(rec, set, s) \in Nat \cup {NotOpen}
    BY <2>1 DEF Left, Opened, Ledger!Window
  <2>3. Closes(rec, set, s) => rec.symbols[s].opened \in Nat
    BY <2>1 DEF Closes, Ledger!Window
  <2>4. Total(rec, set, s, now) \in Nat
    BY <2>1, <2>3 DEF Total, Ledger!Duration, Ledger!Window
  <2>5. QED
    BY <2>2, <2>4 DEF WindowAfter, Ledger!Window
<1>3. Cardinality(Ending(rec, set)) \in Nat
  BY FS_Subset, FS_CardinalityType DEF Ending
<1>4. QED
  BY <1>1, <1>2, <1>3, TriggeredShape DEF Ledger!ScopeRecord

LEMMA BlankTyped == Ledger!Blank \in Ledger!Ledger
<1>1. (CHOOSE s \in Symbols : TRUE) \in Symbols
  BY LedgerAssumption
<1>2. QED
  BY <1>1 DEF Ledger!Blank, Ledger!EmptyRecord, Ledger!Ledger, Ledger!ScopeRecord,
              Ledger!Alert, Ledger!Window

LEMMA CloseTyped ==
    ASSUME Typed, NEW a \in Armed, IsCharged(a), NEW status \in {"triggered", "removed"}
    PROVE  Close(a, memory, status) \in Ledger!Ledger
<1>1. setup[a].scope \in Scopes
  BY SetupsAssumption DEF Typed, TypeOK, Armed, IsCharged
<1>2. clock \in Nat /\ memory \in [Scopes -> Ledger!ScopeRecord]
  BY LedgerAssumption DEF Typed, TypeOK, Ledger!TypeOK, Ledger!Ledger
<1>3. QED
  BY <1>1, <1>2, EndedTyped DEF Close, Armed, Ledger!Ledger

LEMMA CloseAllTyped ==
    ASSUME Typed, NEW set \in SUBSET Armed
    PROVE  CloseAll(set, memory) \in Ledger!Ledger
<1>1. clock \in Nat /\ memory \in [Scopes -> Ledger!ScopeRecord]
  BY LedgerAssumption DEF Typed, TypeOK, Ledger!TypeOK, Ledger!Ledger
<1>2. ASSUME NEW c \in Scopes
      PROVE  TriggeredAll(memory[c], {a \in set : setup[a].scope = c}, clock)
                \in Ledger!ScopeRecord
  <2>1. IsFiniteSet({a \in set : setup[a].scope = c})
        /\ {a \in set : setup[a].scope = c} \in SUBSET Alerts
    BY FS_Subset DEF Typed, Known, Armed
  <2>2. QED
    BY <1>1, <2>1, TriggeredTyped
<1>3. QED
  BY <1>2 DEF CloseAll, Ledger!Ledger

\* A call that saved or failed to save a ledger leaves ledgers.
LEMMA LedgerCalls ==
    ASSUME Typed, NEW new \in Ledger!Ledger, NEW before \in Ledger!Ledger,
           Saved(new) \/ SaveFails(before, new)
    PROVE  memory' \in Ledger!Ledger /\ file' \in Ledger!Ledger /\ disturbed' \in BOOLEAN
BY BlankTyped DEF Typed, TypeOK, Saved, SaveFails

LEMMA HitsFacts ==
    ASSUME Typed
    PROVE  /\ Hits \subseteq Armed
           /\ \A a \in Hits : /\ outcome[a] = "pending" /\ a \in alerts
                              /\ Check(setup[a], Price(setup[a].symbol))
                                    \in {"VALIDATION", "INVALIDATION"}
<1>1. \A d, p : Check(d, p) \in {"pending", "VALIDATION", "INVALIDATION"}
  BY DEF Check
<1>2. QED
  BY <1>1 DEF Hits, Watching, Typed, Known

\* A round that triggers a set of hit alerts fires exactly these.
LEMMA TriggerFires ==
    ASSUME Typed, NEW set \in SUBSET Hits, Trigger(set)
    PROVE  /\ outcome' \in [Alerts -> {"pending", "VALIDATION", "INVALIDATION"}]
           /\ \A a \in Alerts : outcome'[a] # "pending" <=> outcome[a] # "pending" \/ a \in set
           /\ (UNCHANGED <<alerts, setup, answer>> => Known')
<1>1. \A a \in Alerts : /\ a \in set => outcome'[a] \in {"VALIDATION", "INVALIDATION"}
                        /\ a \notin set => outcome'[a] = outcome[a]
  BY HitsFacts DEF Trigger
<1>2. outcome' \in [Alerts -> {"pending", "VALIDATION", "INVALIDATION"}]
  BY <1>1 DEF Trigger, Typed, TypeOK
<1>3. ASSUME UNCHANGED <<alerts, setup, answer>>
      PROVE  Known'
  BY <1>1, <1>3, HitsFacts DEF Typed, Known, Armed
<1>4. QED
  BY <1>1, <1>2, <1>3

\* An alert that is added is one more known alert.
LEMMA ArmAdds ==
    ASSUME Typed, NEW a \in Alerts, NEW d \in Setups, NEW reply \in {"armed", "failed"},
           Arm(a, d, reply)
    PROVE  /\ a \notin Armed /\ Armed' = Armed \cup {a}
           /\ setup' \in [Alerts -> Setups \cup {NoSetup}]
           /\ answer' \in [Alerts -> {"none", "armed", "failed"}]
           /\ alerts' \subseteq Alerts
           /\ Known'
<1>1. a \notin Armed
  BY DEF Arm, Typed, Known
<1>2. Armed' = Armed \cup {a}
  BY NoneAssumption DEF Arm, Armed, Typed, TypeOK
<1>3. /\ setup' \in [Alerts -> Setups \cup {NoSetup}]
      /\ answer' \in [Alerts -> {"none", "armed", "failed"}]
      /\ alerts' \subseteq Alerts
  BY DEF Arm, Typed, TypeOK
<1>4. IsFiniteSet(Armed')
  BY <1>2, FS_AddElement DEF Typed, Known
<1>5. alerts' \subseteq Armed'
  BY <1>2 DEF Arm, Typed, Known
<1>6. \A b \in Alerts : b \in Armed' <=> answer'[b] # "none"
  BY <1>2 DEF Arm, Typed, TypeOK, Known
<1>7. \A b \in Alerts \ Armed' : outcome'[b] = "pending"
  BY <1>2 DEF Arm, Typed, Known
<1>8. QED
  BY <1>1, <1>2, <1>3, <1>4, <1>5, <1>6, <1>7 DEF Known

LEMMA TypedStep == Typed /\ [Next]_vars => Typed'
<1> SUFFICES ASSUME Typed, [Next]_vars
             PROVE  Typed'
  OBVIOUS
<1>0. /\ memory \in Ledger!Ledger /\ file \in Ledger!Ledger /\ clock \in 0..MaxTime
      /\ clock \in Nat /\ disturbed \in BOOLEAN
      /\ memory \in [Scopes -> Ledger!ScopeRecord]
  BY LedgerAssumption DEF Typed, TypeOK, Ledger!TypeOK, Ledger!Ledger
<1>1. ASSUME NEW a \in Alerts, NEW d \in Setups, NEW reply \in {"armed", "failed"},
             Arm(a, d, reply),
             memory' \in Ledger!Ledger, file' \in Ledger!Ledger, disturbed' \in BOOLEAN
      PROVE  Typed'
  <2>1. /\ setup' \in [Alerts -> Setups \cup {NoSetup}] /\ Known' /\ alerts' \subseteq Alerts
        /\ answer' \in [Alerts -> {"none", "armed", "failed"}]
    BY <1>1, ArmAdds
  <2>2. UNCHANGED <<outcome, loopVars, eventVars, market, clock>>
    BY <1>1 DEF Arm
  <2>3. QED
    BY <1>1, <2>1, <2>2 DEF Typed, TypeOK, Ledger!TypeOK, loopVars, eventVars
<1>2. ASSUME NEW a \in Alerts, NEW d \in Setups, d.scope # NoScope
      PROVE  [memory EXCEPT ![d.scope]
                = Ledger!Started(memory[d.scope], a, d.symbol, clock)] \in Ledger!Ledger
  <2>1. d.scope \in Scopes /\ d.symbol \in Symbols
    BY <1>2, SetupsAssumption
  <2>2. QED
    BY <1>0, <2>1, StartedTyped DEF Ledger!Ledger
<1>3. ASSUME NEW a \in Alerts, NEW d \in Setups, AddAlert(a, d)
      PROVE  Typed'
  <2>1. CASE d.scope = NoScope
    BY <1>0, <1>1, <1>3, <2>1 DEF AddAlert, ledgerVars
  <2>2. CASE d.scope # NoScope
    <3>1. PICK reply \in {"armed", "failed"} : Arm(a, d, reply)
      BY <1>3, <2>2 DEF AddAlert
    <3>2. Saved([memory EXCEPT ![d.scope]
                    = Ledger!Started(memory[d.scope], a, d.symbol, clock)])
      BY <1>3, <2>2 DEF AddAlert
    <3>3. QED
      BY <1>0, <1>1, <1>2, <2>2, <3>1, <3>2, LedgerCalls
  <2>3. QED
    BY <2>1, <2>2
<1>4. ASSUME NEW a \in Alerts, NEW d \in Setups, AddAlertUnsaved(a, d)
      PROVE  Typed'
  <2>1. SaveFails(file, [memory EXCEPT ![d.scope]
                            = Ledger!Started(memory[d.scope], a, d.symbol, clock)])
        /\ Arm(a, d, "failed") /\ d.scope # NoScope
    BY <1>4 DEF AddAlertUnsaved
  <2>2. QED
    BY <1>0, <1>1, <1>2, <2>1, LedgerCalls
<1>5. ASSUME NEW a \in Alerts, NEW caller \in Callers, RemoveAlert(a, caller)
      PROVE  Typed'
  <2>1. memory' \in Ledger!Ledger /\ file' \in Ledger!Ledger /\ disturbed' \in BOOLEAN
    <3>1. CASE outcome[a] = "pending" /\ IsCharged(a)
      <4>1. Close(a, memory, "removed") \in Ledger!Ledger
        BY <1>5, <3>1, CloseTyped DEF RemoveAlert, Typed, Known
      <4>2. QED
        BY <1>0, <1>5, <3>1, <4>1, LedgerCalls DEF RemoveAlert
    <3>2. CASE ~(outcome[a] = "pending" /\ IsCharged(a))
      BY <1>0, <1>5, <3>2 DEF RemoveAlert, ledgerVars
    <3>3. QED
      BY <3>1, <3>2
  <2>2. /\ alerts' = alerts \ {a}
        /\ UNCHANGED <<setup, outcome, answer, loopVars, eventVars, market, clock>>
    BY <1>5 DEF RemoveAlert, Drop
  <2>3. Known'
    BY <2>2 DEF Typed, Known, Armed
  <2>4. QED
    BY <2>1, <2>2, <2>3 DEF Typed, TypeOK, Ledger!TypeOK, loopVars, eventVars
<1>6. ASSUME UNCHANGED monitorVars
      PROVE  Known'
  BY <1>6 DEF monitorVars, Typed, Known, Armed
<1>7. ASSUME NEW a \in Alerts, NEW caller \in Callers, RemoveAlertUnsaved(a, caller)
      PROVE  Typed'
  <2>1. Close(a, memory, "removed") \in Ledger!Ledger
    BY <1>7, CloseTyped DEF RemoveAlertUnsaved, Typed, Known
  <2>2. memory' \in Ledger!Ledger /\ file' \in Ledger!Ledger /\ disturbed' \in BOOLEAN
    BY <1>0, <1>7, <2>1, LedgerCalls DEF RemoveAlertUnsaved
  <2>3. UNCHANGED <<monitorVars, loopVars, eventVars, market, clock>>
    BY <1>7 DEF RemoveAlertUnsaved
  <2>4. QED
    BY <1>6, <2>2, <2>3
    DEF Typed, TypeOK, Ledger!TypeOK, monitorVars, loopVars, eventVars
<1>8. ASSUME UNCHANGED <<monitorVars, eventVars, market, ledgerVars, clock>>,
             running' \in BOOLEAN, loops' \subseteq Loops
      PROVE  Typed'
  BY <1>6, <1>8 DEF Typed, TypeOK, Ledger!TypeOK, monitorVars, eventVars, ledgerVars
<1>9. ASSUME NEW l \in Loops, Start(l) \/ LoopEnds(l)
      PROVE  Typed'
  <2>1. running' \in BOOLEAN /\ loops' \subseteq Loops
    BY <1>9 DEF Start, LoopEnds, Typed, TypeOK
  <2>2. QED
    BY <1>8, <1>9, <2>1 DEF Start, LoopEnds
<1>10. ASSUME NEW l \in Loops, Poll(l)
       PROVE  Typed'
  <2>1. memory' \in Ledger!Ledger /\ file' \in Ledger!Ledger /\ disturbed' \in BOOLEAN
    <3>1. CloseAll(Hits, memory) \in Ledger!Ledger
      BY CloseAllTyped, HitsFacts
    <3>2. CASE \E a \in Hits : IsCharged(a)
      BY <1>0, <1>10, <3>1, <3>2, LedgerCalls DEF Poll
    <3>3. CASE ~ \E a \in Hits : IsCharged(a)
      BY <1>0, <1>10, <3>3 DEF Poll, ledgerVars
    <3>4. QED
      BY <3>2, <3>3
  <2>2. Trigger(Hits) /\ Broadcast(Hits)
        /\ UNCHANGED <<alerts, setup, answer, loopVars, subscribers, market, clock>>
    BY <1>10 DEF Poll
  <2>3. inbox' \in [Queues -> [Alerts -> Nat]]
    BY <2>2 DEF Broadcast, Typed, TypeOK
  <2>4. Known' /\ outcome' \in [Alerts -> {"pending", "VALIDATION", "INVALIDATION"}]
    BY <2>2, TriggerFires
  <2>5. QED
    BY <2>1, <2>2, <2>3, <2>4 DEF Typed, TypeOK, Ledger!TypeOK, loopVars
<1>11. ASSUME NEW l \in Loops, PollFails(l)
       PROVE  Typed'
  <2>1. PICK bad \in Hits, before \in SUBSET Hits :
          /\ Trigger(before \cup {bad})
          /\ SaveFails(IF \E a \in before : IsCharged(a)
                       THEN CloseAll(before, memory) ELSE file,
                       CloseAll(before \cup {bad}, memory))
    BY <1>11 DEF PollFails
  <2>2. CloseAll(before, memory) \in Ledger!Ledger
        /\ CloseAll(before \cup {bad}, memory) \in Ledger!Ledger
    BY CloseAllTyped, HitsFacts
  <2>3. memory' \in Ledger!Ledger /\ file' \in Ledger!Ledger /\ disturbed' \in BOOLEAN
    BY <1>0, <2>1, <2>2, LedgerCalls
  <2>4. UNCHANGED <<alerts, setup, answer, loopVars, eventVars, market, clock>>
    BY <1>11 DEF PollFails
  <2>5. Known' /\ outcome' \in [Alerts -> {"pending", "VALIDATION", "INVALIDATION"}]
    BY <2>1, <2>4, TriggerFires
  <2>6. QED
    BY <2>3, <2>4, <2>5 DEF Typed, TypeOK, Ledger!TypeOK, loopVars, eventVars
<1>12. ASSUME NEW q \in Queues, Subscribe(q) \/ Unsubscribe(q)
       PROVE  Typed'
  <2>1. subscribers' \subseteq Queues /\ inbox' \in [Queues -> [Alerts -> Nat]]
    BY <1>12 DEF Subscribe, Unsubscribe, NoEvents, Typed, TypeOK
  <2>2. UNCHANGED <<monitorVars, loopVars, market, ledgerVars, clock>>
    BY <1>12 DEF Subscribe, Unsubscribe
  <2>3. QED
    BY <1>6, <2>1, <2>2
    DEF Typed, TypeOK, Ledger!TypeOK, monitorVars, loopVars, ledgerVars
<1>13. ASSUME NEW s \in Symbols, NEW p \in 1..MaxPrice, PriceUpdate(s, p)
       PROVE  Typed'
  <2>1. market' \in [Symbols -> 0..MaxPrice]
    BY <1>13 DEF PriceUpdate, Typed, TypeOK
  <2>2. UNCHANGED <<monitorVars, loopVars, eventVars, ledgerVars, clock>>
    BY <1>13 DEF PriceUpdate
  <2>3. QED
    BY <1>6, <2>1, <2>2
    DEF Typed, TypeOK, Ledger!TypeOK, monitorVars, loopVars, eventVars, ledgerVars
<1>14. CASE Tick
  <2>1. clock' \in 0..MaxTime
    BY <1>0, <1>14, LedgerAssumption DEF Tick
  <2>2. UNCHANGED <<monitorVars, loopVars, eventVars, market, ledgerVars>>
    BY <1>14 DEF Tick
  <2>3. QED
    BY <1>6, <2>1, <2>2
    DEF Typed, TypeOK, Ledger!TypeOK, monitorVars, loopVars, eventVars, ledgerVars
<1>15. CASE Restart
  <2>1. memory' \in Ledger!Ledger /\ file' \in Ledger!Ledger /\ disturbed' \in BOOLEAN
    BY <1>0, <1>15, BlankTyped DEF Restart
  <2>2. /\ alerts' = {} /\ running' = FALSE /\ loops' = {} /\ subscribers' = {}
        /\ inbox' = [q \in Queues |-> NoEvents] /\ market' = [s \in Symbols |-> 0]
        /\ UNCHANGED <<setup, outcome, answer, clock>>
    BY <1>15 DEF Restart
  <2>3. inbox' \in [Queues -> [Alerts -> Nat]]
    BY <2>2 DEF NoEvents
  <2>4. market' \in [Symbols -> 0..MaxPrice]
    BY <2>2, PriceAssumption
  <2>5. Known'
    BY <2>2 DEF Typed, Known, Armed
  <2>6. QED
    BY <2>1, <2>2, <2>3, <2>4, <2>5 DEF Typed, TypeOK, Ledger!TypeOK
<1>16. CASE UNCHANGED vars
  BY <1>6, <1>16
  DEF vars, Typed, TypeOK, Ledger!TypeOK, monitorVars, loopVars, eventVars, ledgerVars
<1>17. CASE Stop
  <2>1. running' \in BOOLEAN /\ loops' \subseteq Loops
    BY <1>17 DEF Stop, Typed, TypeOK
  <2>2. QED
    BY <1>8, <1>17, <2>1 DEF Stop
<1>18. QED
  BY <1>3, <1>4, <1>5, <1>7, <1>9, <1>10, <1>11, <1>12, <1>13, <1>14, <1>15, <1>16, <1>17
  DEF Next, Round

-----------------------------------------------------------------------------
(* Events *)

LEMMA EventsStep == Typed /\ Events /\ [Next]_vars => Events'
<1> SUFFICES ASSUME Typed, Events, [Next]_vars
             PROVE  Events'
  OBVIOUS
<1>1. ASSUME UNCHANGED <<outcome, inbox>>
      PROVE  Events'
  BY <1>1 DEF Events
<1>2. ASSUME NEW l \in Loops, Poll(l)
      PROVE  Events'
  <2>1. Trigger(Hits) /\ Broadcast(Hits)
    BY <1>2 DEF Poll
  <2> SUFFICES ASSUME NEW q \in Queues, NEW a \in Alerts
               PROVE  inbox'[q][a] = 0 \/ (inbox'[q][a] = 1 /\ outcome'[a] # "pending")
    BY DEF Events
  <2>2. outcome'[a] # "pending" <=> outcome[a] # "pending" \/ a \in Hits
    BY <2>1, TriggerFires
  <2>3. inbox[q][a] = 0 \/ (inbox[q][a] = 1 /\ outcome[a] # "pending")
    BY DEF Events
  <2>4. inbox'[q][a] = inbox[q][a] + IF q \in subscribers /\ a \in Hits THEN 1 ELSE 0
    BY <2>1 DEF Broadcast
  <2>5. CASE a \in Hits
    BY <2>2, <2>3, <2>4, <2>5, HitsFacts
  <2>6. CASE a \notin Hits
    BY <2>2, <2>3, <2>4, <2>6
  <2>7. QED
    BY <2>5, <2>6
<1>3. ASSUME NEW l \in Loops, PollFails(l)
      PROVE  Events'
  <2>1. PICK set \in SUBSET Hits : Trigger(set)
    BY <1>3 DEF PollFails
  <2>2. \A a \in Alerts : outcome[a] # "pending" => outcome'[a] # "pending"
    BY <2>1, TriggerFires
  <2>3. inbox' = inbox
    BY <1>3 DEF PollFails, eventVars
  <2>4. QED
    BY <2>2, <2>3 DEF Events
<1>4. ASSUME NEW q \in Queues, Unsubscribe(q)
      PROVE  Events'
  BY <1>4 DEF Unsubscribe, NoEvents, Events, monitorVars, Typed, TypeOK
<1>5. CASE Restart
  BY <1>5 DEF Restart, NoEvents, Events
<1>6. QED
  BY <1>1, <1>2, <1>3, <1>4, <1>5
  DEF Next, Round, AddAlert, AddAlertUnsaved, Arm, RemoveAlert, RemoveAlertUnsaved, Drop,
      Start, Stop, LoopEnds, Subscribe, PriceUpdate, Tick, vars, monitorVars, eventVars

\* Only a round fires alerts, and one that fires without a failed save puts each
\* of them on every queue.
LEMMA BroadcastStep ==
    ASSUME Typed, [Next]_vars, NEW a \in Alerts, NEW q \in subscribers,
           outcome[a] = "pending", outcome'[a] # "pending", ~disturbed'
    PROVE  inbox'[q][a] > inbox[q][a]
<1>1. outcome' # outcome
  OBVIOUS
<1>2. ASSUME NEW l \in Loops, Poll(l)
      PROVE  inbox'[q][a] > inbox[q][a]
  <2>1. Trigger(Hits) /\ Broadcast(Hits)
    BY <1>2 DEF Poll
  <2>2. a \in Hits /\ q \in Queues
    BY <2>1, TriggerFires DEF Typed, TypeOK
  <2>3. inbox'[q][a] = inbox[q][a] + 1 /\ inbox[q][a] \in Nat
    BY <2>1, <2>2 DEF Broadcast, Typed, TypeOK
  <2>4. QED
    BY <2>3
<1>3. ASSUME NEW l \in Loops, PollFails(l)
      PROVE  FALSE
  BY <1>3 DEF PollFails, SaveFails
<1>4. QED
  BY <1>1, <1>2, <1>3
  DEF Next, Round, AddAlert, AddAlertUnsaved, Arm, RemoveAlert, RemoveAlertUnsaved, Drop,
      Start, Stop, LoopEnds, Subscribe, Unsubscribe, PriceUpdate, Tick, Restart, vars,
      monitorVars

-----------------------------------------------------------------------------
(* The ledger and the monitor *)

LEMMA FiniteAdded ==
    ASSUME Typed, NEW c
    PROVE  /\ IsFiniteSet(Added(c)) /\ IsFiniteSet(Fired(c))
           /\ Cardinality(Added(c)) \in Nat /\ Cardinality(Fired(c)) \in Nat
BY FS_Subset, FS_CardinalityType DEF Typed, Known, Armed, Added, Fired

\* What adding an alert, removing one and firing some change in a scope.
LEMMA AddedOneMore ==
    ASSUME Typed, NEW a \in Alerts, NEW d \in Setups, NEW reply \in {"armed", "failed"},
           Arm(a, d, reply), NEW c \in Scopes
    PROVE  /\ a \notin Added(c)
           /\ Added(c)' = IF d.scope = c THEN Added(c) \cup {a} ELSE Added(c)
           /\ Fired(c)' = Fired(c)
           /\ \A b \in Alerts :
                 StatusOf(b, c)' = IF b = a /\ d.scope = c THEN "active" ELSE StatusOf(b, c)
<1>1. a \notin Armed /\ outcome[a] = "pending" /\ outcome' = outcome
  BY ArmAdds DEF Typed, Known, Arm
<1>2. a \notin Added(c)
  BY <1>1 DEF Added, Armed
<1>3. \A b \in Alerts : setup'[b] = IF b = a THEN d ELSE setup[b]
  BY DEF Arm, Typed, TypeOK
<1>4. Added(c)' = IF d.scope = c THEN Added(c) \cup {a} ELSE Added(c)
  BY <1>1, <1>3, NoneAssumption DEF Added, Armed
<1>5. Fired(c)' = Fired(c)
  BY <1>1, <1>2, <1>4 DEF Fired
<1>6. alerts' = alerts \cup {a}
  BY DEF Arm
<1>7. QED
  BY <1>1, <1>2, <1>4, <1>5, <1>6 DEF StatusOf

LEMMA RemovedOne ==
    ASSUME Typed, NEW a \in Alerts, Drop(a), NEW c \in Scopes
    PROVE  /\ Added(c)' = Added(c) /\ Fired(c)' = Fired(c)
           /\ \A b \in Alerts :
                 StatusOf(b, c)' = IF b = a /\ a \in Added(c) /\ outcome[a] = "pending"
                                   THEN "removed" ELSE StatusOf(b, c)
<1>1. setup' = setup /\ outcome' = outcome /\ alerts' = alerts \ {a}
  BY DEF Drop
<1>2. Added(c)' = Added(c) /\ Fired(c)' = Fired(c)
  BY <1>1 DEF Added, Fired
<1>3. QED
  BY <1>1, <1>2 DEF StatusOf

LEMMA FiredSome ==
    ASSUME Typed, NEW set \in SUBSET Hits, Trigger(set), UNCHANGED <<alerts, setup>>,
           NEW c \in Scopes
    PROVE  /\ Added(c)' = Added(c)
           /\ Fired(c)' = Fired(c) \cup {b \in set : setup[b].scope = c}
           /\ Cardinality(Fired(c)') = Cardinality(Fired(c))
                                       + Cardinality({b \in set : setup[b].scope = c})
           /\ \A b \in Alerts :
                 StatusOf(b, c)' = IF b \in {x \in set : setup[x].scope = c}
                                   THEN "triggered" ELSE StatusOf(b, c)
<1> DEFINE own == {b \in set : setup[b].scope = c}
<1>1. own \subseteq Added(c) /\ \A b \in own : outcome[b] = "pending" /\ b \in Alerts
  BY HitsFacts DEF Added, Armed
<1>2. \A b \in Alerts : outcome'[b] # "pending" <=> outcome[b] # "pending" \/ b \in set
  BY TriggerFires
<1>3. Added(c)' = Added(c)
  BY DEF Added
<1>4. Fired(c)' = Fired(c) \cup own /\ Fired(c) \cap own = {}
  BY <1>1, <1>2, <1>3 DEF Fired, Added
<1>5. IsFiniteSet(own) /\ IsFiniteSet(Fired(c))
  BY <1>1, FiniteAdded, FS_Subset
<1>6. Cardinality(Fired(c)') = Cardinality(Fired(c)) + Cardinality(own)
  <2>1. Cardinality(Fired(c)') = Cardinality(Fired(c)) + Cardinality(own) - Cardinality({})
    BY <1>4, <1>5, FS_Union
  <2>2. Cardinality({}) = 0 /\ Cardinality(Fired(c)) \in Nat /\ Cardinality(own) \in Nat
    BY <1>5, FS_EmptySet, FS_CardinalityType
  <2>3. QED
    BY <2>1, <2>2
<1>7. ASSUME NEW b \in Alerts
      PROVE  StatusOf(b, c)' = IF b \in own THEN "triggered" ELSE StatusOf(b, c)
  <2>1. CASE b \in own
    BY <1>1, <1>2, <1>3, <2>1 DEF StatusOf
  <2>2. CASE b \notin own
    <3>1. b \in Added(c) => b \notin set
      BY <2>2 DEF Added
    <3>2. QED
      BY <1>2, <1>3, <2>2, <3>1 DEF StatusOf
  <2>3. QED
    BY <2>1, <2>2
<1>8. QED
  BY <1>3, <1>4, <1>6, <1>7

LEMMA AccordsStep == Typed /\ Accords /\ [Next]_vars => Accords'
<1> SUFFICES ASSUME Typed, Accords, [Next]_vars, ~disturbed', NEW c \in Scopes
             PROVE  memory'[c] = file'[c] /\ Follows(memory[c], c)'
  BY DEF Accords
<1>0. memory \in [Scopes -> Ledger!ScopeRecord] /\ clock \in Nat
  BY LedgerAssumption DEF Typed, TypeOK, Ledger!TypeOK, Ledger!Ledger
<1>1. ASSUME ~disturbed
      PROVE  /\ memory[c] = file[c] /\ memory[c] \in Ledger!ScopeRecord
             /\ memory[c].setups = Cardinality(Added(c))
             /\ memory[c].triggers = Cardinality(Fired(c))
             /\ \A a \in Alerts : memory[c].alerts[a].status = StatusOf(a, c)
  BY <1>0, <1>1 DEF Accords, Follows
<1>2. ASSUME ~disturbed, memory'[c] = memory[c], file'[c] = file[c],
             Added(c)' = Added(c), Fired(c)' = Fired(c),
             \A a \in Alerts : StatusOf(a, c)' = StatusOf(a, c)
      PROVE  memory'[c] = file'[c] /\ Follows(memory[c], c)'
  BY <1>1, <1>2 DEF Follows
<1>3. ASSUME NEW a \in Alerts, NEW d \in Setups, AddAlert(a, d)
      PROVE  memory'[c] = file'[c] /\ Follows(memory[c], c)'
  <2>1. PICK reply \in {"armed", "failed"} : Arm(a, d, reply)
    BY <1>3 DEF AddAlert
  <2>2. ~disturbed
    BY <1>3 DEF AddAlert, ledgerVars, Saved
  <2>3. CASE d.scope # c
    <3>1. memory'[c] = memory[c] /\ file'[c] = file[c]
      <4>1. CASE d.scope = NoScope
        BY <1>3, <4>1 DEF AddAlert, ledgerVars
      <4>2. CASE d.scope # NoScope
        BY <1>0, <1>1, <1>3, <2>2, <2>3, <4>2 DEF AddAlert, Saved
      <4>3. QED
        BY <4>1, <4>2
    <3>2. QED
      BY <1>2, <2>1, <2>2, <2>3, <3>1, AddedOneMore
  <2>4. CASE d.scope = c
    <3> DEFINE rec == memory[c]
               new == Ledger!Started(rec, a, d.symbol, clock)
    <3>1. memory' = [memory EXCEPT ![c] = new] /\ file' = memory'
      BY <1>3, <2>4, NoneAssumption DEF AddAlert, Saved
    <3>2. memory'[c] = new /\ file'[c] = new
      BY <1>0, <3>1
    <3>3. a \notin Added(c) /\ rec.alerts[a].status = "unknown"
      BY <1>1, <2>1, <2>2, AddedOneMore DEF StatusOf
    <3>4. ~Ledger!IsActive(rec, a)
      BY <3>3 DEF Ledger!IsActive
    <3>5. /\ new.alerts = [rec.alerts EXCEPT ![a] = [status |-> "active", symbol |-> d.symbol]]
          /\ new.setups = rec.setups + 1 /\ new.triggers = rec.triggers
      BY <3>4 DEF Ledger!Started
    <3>6. Added(c)' = Added(c) \cup {a} /\ Fired(c)' = Fired(c)
      BY <2>1, <2>4, AddedOneMore
    <3>7. Cardinality(Added(c)') = Cardinality(Added(c)) + 1
      BY <3>3, <3>6, FiniteAdded, FS_AddElement
    <3>8. ASSUME NEW b \in Alerts
          PROVE  new.alerts[b].status = StatusOf(b, c)'
      <4>1. StatusOf(b, c)' = IF b = a THEN "active" ELSE StatusOf(b, c)
        BY <2>1, <2>4, AddedOneMore
      <4>2. rec.alerts[b].status = StatusOf(b, c)
        BY <1>1, <2>2
      <4>3. rec.alerts \in [Alerts -> Ledger!Alert]
        BY <1>0 DEF Ledger!ScopeRecord
      <4>4. QED
        BY <3>5, <4>1, <4>2, <4>3
    <3> HIDE DEF new, rec
    <3>9. new.setups = Cardinality(Added(c)') /\ new.triggers = Cardinality(Fired(c)')
      BY <1>1, <2>2, <3>5, <3>6, <3>7 DEF rec
    <3>10. QED
      BY <3>2, <3>8, <3>9 DEF Follows
  <2>5. QED
    BY <2>3, <2>4
<1>4. ASSUME NEW a \in Alerts, NEW caller \in Callers, RemoveAlert(a, caller)
      PROVE  memory'[c] = file'[c] /\ Follows(memory[c], c)'
  <2>1. Drop(a) /\ a \in alerts /\ a \in Armed
    BY <1>4 DEF RemoveAlert, Typed, Known
  <2>2. ~disturbed
    BY <1>4 DEF RemoveAlert, ledgerVars, Saved
  <2>3. a \in Added(c) <=> setup[a].scope = c
    BY <2>1 DEF Added, Armed
  <2>4. CASE outcome[a] # "pending" \/ ~IsCharged(a)
    <3>1. memory' = memory /\ file' = file
      BY <1>4, <2>4 DEF RemoveAlert, ledgerVars
    <3>2. ~(a \in Added(c) /\ outcome[a] = "pending")
      BY <2>3, <2>4, NoneAssumption DEF IsCharged
    <3>3. QED
      BY <1>2, <2>1, <2>2, <3>1, <3>2, RemovedOne
  <2>5. CASE outcome[a] = "pending" /\ IsCharged(a)
    <3>1. memory' = Close(a, memory, "removed") /\ file' = memory'
      BY <1>4, <2>5 DEF RemoveAlert, Saved
    <3>2. CASE setup[a].scope # c
      <4>1. memory'[c] = memory[c] /\ file'[c] = file[c]
        BY <1>0, <1>1, <2>2, <3>1, <3>2 DEF Close
      <4>2. QED
        BY <1>2, <2>1, <2>2, <2>3, <3>2, <4>1, RemovedOne
    <3>3. CASE setup[a].scope = c
      <4> DEFINE rec == memory[c]
                 new == Ledger!Ended(rec, a, "removed", clock)
      <4>1. memory'[c] = new /\ file'[c] = new
        BY <1>0, <3>1, <3>3 DEF Close
      <4>2. rec.alerts[a].status = "active"
        BY <1>1, <2>1, <2>2, <2>3, <2>5, <3>3 DEF StatusOf
      <4>3. Ledger!IsActive(rec, a)
        BY <4>2 DEF Ledger!IsActive
      <4>4. /\ new.alerts = [rec.alerts EXCEPT
                               ![a] = [status |-> "removed", symbol |-> rec.alerts[a].symbol]]
            /\ new.setups = rec.setups /\ new.triggers = rec.triggers + 0
        BY <4>3 DEF Ledger!Ended
      <4>5. Added(c)' = Added(c) /\ Fired(c)' = Fired(c)
        BY <2>1, RemovedOne
      <4>6. ASSUME NEW b \in Alerts
            PROVE  new.alerts[b].status = StatusOf(b, c)'
        <5>1. StatusOf(b, c)' = IF b = a THEN "removed" ELSE StatusOf(b, c)
          BY <2>1, <2>3, <2>5, <3>3, RemovedOne
        <5>2. rec.alerts[b].status = StatusOf(b, c)
          BY <1>1, <2>2
        <5>3. rec.alerts \in [Alerts -> Ledger!Alert]
          BY <1>0 DEF Ledger!ScopeRecord
        <5>4. QED
          BY <4>4, <5>1, <5>2, <5>3
      <4>7. new.setups = Cardinality(Added(c)') /\ new.triggers = Cardinality(Fired(c)')
        <5>1. rec.triggers \in Nat
          BY <1>0 DEF Ledger!ScopeRecord
        <5> HIDE DEF new, rec
        <5>2. QED
          BY <1>1, <2>2, <4>4, <4>5, <5>1 DEF rec
      <4> HIDE DEF new, rec
      <4>8. QED
        BY <4>1, <4>6, <4>7 DEF Follows
    <3>4. QED
      BY <3>2, <3>3
  <2>6. QED
    BY <2>4, <2>5
<1>5. ASSUME NEW l \in Loops, Poll(l)
      PROVE  memory'[c] = file'[c] /\ Follows(memory[c], c)'
  <2> DEFINE own == {b \in Hits : setup[b].scope = c}
  <2>1. Trigger(Hits) /\ UNCHANGED <<alerts, setup>>
    BY <1>5 DEF Poll
  <2>2. ~disturbed
    BY <1>5 DEF Poll, ledgerVars, Saved
  <2>3. \A b \in own : b \in Added(c) /\ outcome[b] = "pending" /\ b \in alerts /\ b \in Alerts
    BY HitsFacts DEF Added, Armed
  <2>4. /\ Added(c)' = Added(c)
        /\ Fired(c)' = Fired(c) \cup own
        /\ Cardinality(Fired(c)') = Cardinality(Fired(c)) + Cardinality(own)
        /\ \A b \in Alerts : StatusOf(b, c)' = IF b \in own THEN "triggered" ELSE StatusOf(b, c)
    BY <2>1, FiredSome
  <2>5. CASE ~ \E a \in Hits : IsCharged(a)
    <3>1. memory' = memory /\ file' = file
      BY <1>5, <2>5 DEF Poll, ledgerVars
    <3>2. own = {}
      BY <2>5, NoneAssumption DEF IsCharged
    <3> HIDE DEF own
    <3>3. QED
      BY <1>2, <2>2, <2>4, <3>1, <3>2
  <2>6. CASE \E a \in Hits : IsCharged(a)
    <3> DEFINE rec == memory[c]
               new == TriggeredAll(rec, own, clock)
    <3>1. memory'[c] = new /\ file'[c] = new
      BY <1>5, <2>6 DEF Poll, Saved, CloseAll
    <3>2. \A b \in own : rec.alerts[b].status = "active"
      BY <1>1, <2>2, <2>3 DEF StatusOf
    <3>3. Ending(rec, own) = own
      BY <3>2 DEF Ending, Ledger!IsActive
    <3>4. new.alerts = AlertsAfter(rec, own) /\ new.setups = rec.setups
          /\ new.triggers = rec.triggers + Cardinality(Ending(rec, own))
      BY TriggeredShape
    <3> HIDE DEF own, new
    <3>5. ASSUME NEW b \in Alerts
          PROVE  new.alerts[b].status = StatusOf(b, c)'
      BY <1>1, <2>2, <2>4, <3>3, <3>4 DEF AlertsAfter
    <3> HIDE DEF rec
    <3>6. new.setups = Cardinality(Added(c)') /\ new.triggers = Cardinality(Fired(c)')
      BY <1>1, <2>2, <2>4, <3>3, <3>4 DEF rec
    <3>7. QED
      BY <3>1, <3>5, <3>6 DEF Follows
  <2>7. QED
    BY <2>5, <2>6
<1>6. CASE Restart
  <2>1. /\ ~disturbed /\ memory' = memory /\ file' = memory' /\ alerts' = {}
        /\ setup' = setup /\ outcome' = outcome /\ \A a \in Alerts : ~Watching(a)
    BY <1>6 DEF Restart
  <2>2. Added(c)' = Added(c) /\ Fired(c)' = Fired(c)
    BY <2>1 DEF Added, Fired
  <2>3. \A a \in Alerts : StatusOf(a, c)' = StatusOf(a, c)
    BY <2>1, <2>2 DEF StatusOf, Watching
  <2>4. memory'[c] = memory[c] /\ file'[c] = file[c]
    BY <1>1, <2>1
  <2>5. QED
    BY <1>2, <2>1, <2>2, <2>3, <2>4
<1>7. ASSUME UNCHANGED <<alerts, setup, outcome, memory, file, disturbed>>
      PROVE  memory'[c] = file'[c] /\ Follows(memory[c], c)'
  <2>1. Added(c)' = Added(c) /\ Fired(c)' = Fired(c)
        /\ \A a \in Alerts : StatusOf(a, c)' = StatusOf(a, c)
    BY <1>7 DEF Added, Fired, StatusOf
  <2>2. QED
    BY <1>2, <1>7, <2>1
<1>8. ASSUME NEW before, NEW new, SaveFails(before, new)
      PROVE  FALSE
  BY <1>8 DEF SaveFails
<1>9. ASSUME NEW l \in Loops, PollFails(l)
      PROVE  FALSE
  BY <1>9 DEF PollFails, SaveFails
<1>10. QED
  BY <1>3, <1>4, <1>5, <1>6, <1>7, <1>8, <1>9
  DEF Next, Round, AddAlertUnsaved, RemoveAlertUnsaved, Start, Stop, LoopEnds, Subscribe,
      Unsubscribe, PriceUpdate, Tick, vars, monitorVars, ledgerVars

-----------------------------------------------------------------------------
(* Theorems *)

LEMMA InvInit == Init => Inv
<1> SUFFICES ASSUME Init
             PROVE  Inv
  OBVIOUS
<1>1. /\ memory = Ledger!Blank /\ file = Ledger!Blank /\ clock = 0 /\ alerts = {}
      /\ \A a \in Alerts : /\ setup[a] = NoSetup /\ outcome[a] = "pending"
                           /\ answer[a] = "none"
  BY DEF Init, Ledger!Init
<1>2. Armed = {}
  BY <1>1 DEF Armed
<1>3. Known
  BY <1>1, <1>2, FS_EmptySet DEF Known
<1>4. TypeOK
  <2>1. Ledger!TypeOK
    BY <1>1, BlankTyped, LedgerAssumption DEF Ledger!TypeOK
  <2>2. inbox \in [Queues -> [Alerts -> Nat]]
    BY DEF Init, NoEvents
  <2>3. market \in [Symbols -> 0..MaxPrice]
    BY PriceAssumption DEF Init
  <2>4. QED
    BY <2>1, <2>2, <2>3 DEF Init, TypeOK
<1>5. Events
  BY DEF Init, NoEvents, Events
<1>6. Accords
  <2> SUFFICES ASSUME NEW c \in Scopes
               PROVE  memory[c] = file[c] /\ Follows(memory[c], c)
    BY DEF Accords
  <2>1. Added(c) = {} /\ Fired(c) = {}
    BY <1>1 DEF Added, Fired
  <2>2. memory[c] = Ledger!EmptyRecord /\ file[c] = Ledger!EmptyRecord
    BY <1>1 DEF Ledger!Blank
  <2>3. /\ Ledger!EmptyRecord.setups = 0 /\ Ledger!EmptyRecord.triggers = 0
        /\ \A a \in Alerts : Ledger!EmptyRecord.alerts[a].status = "unknown"
    BY DEF Ledger!EmptyRecord
  <2>4. Cardinality(Added(c)) = 0 /\ Cardinality(Fired(c)) = 0
    BY <2>1, FS_EmptySet
  <2>5. \A a \in Alerts : StatusOf(a, c) = "unknown"
    BY <2>1 DEF StatusOf
  <2>6. QED
    BY <2>2, <2>3, <2>4, <2>5 DEF Follows
<1>7. QED
  BY <1>3, <1>4, <1>5, <1>6 DEF Inv, Typed

THEOREM Invariance == Spec => []Inv
<1>1. Inv /\ [Next]_vars => Inv'
  BY TypedStep, EventsStep, AccordsStep DEF Inv
<1>2. QED
  BY <1>1, InvInit, PTL DEF Spec

\* The alerts, the queues and the ledger keep their types, through failed saves,
\* rounds that fail half-way and restarts.
THEOREM TypeCorrectness == Spec => []TypeOK
<1>1. Inv => TypeOK
  BY DEF Inv, Typed
<1>2. QED
  BY <1>1, Invariance, PTL

\* While no save failed and no restart lost an alert, every scope is charged one
\* setup per alert it added and one trigger per alert that fired, and the ledger
\* meters exactly the alerts the loop still looks at.
THEOREM LedgerFollows == Spec => []LedgerFollowsMonitor
<1>1. Inv => LedgerFollowsMonitor
  <2> SUFFICES ASSUME Inv, ~disturbed, NEW c \in Scopes
               PROVE  /\ memory[c] = file[c]
                      /\ memory[c].setups = Cardinality(Added(c))
                      /\ memory[c].triggers = Cardinality(Fired(c))
                      /\ \A a \in Added(c) : memory[c].alerts[a].status =
                            CASE outcome[a] # "pending" -> "triggered"
                              [] Watching(a)            -> "active"
                              [] OTHER                  -> "removed"
    BY DEF LedgerFollowsMonitor
  <2>1. memory[c] = file[c] /\ Follows(memory[c], c)
    BY DEF Inv, Accords
  <2>2. QED
    BY <2>1 DEF Follows, StatusOf, Added, Watching
<1>2. QED
  BY <1>1, Invariance, PTL

\* However many loops run at once, a queue gets the event of an alert once.
THEOREM EventsOnce == Spec => []EventsAreNotRepeated
<1>1. Inv => EventsAreNotRepeated
  BY DEF Inv, Events, EventsAreNotRepeated
<1>2. QED
  BY <1>1, Invariance, PTL

\* A round of the loop that fires an alert and saves the ledger has put the event on
\* the queue of every subscriber when it ends.
THEOREM FiredAreBroadcast == Spec => FiredAlertsAreBroadcast
<1>1. Inv /\ [Next]_vars
      => [\A a \in Alerts, q \in subscribers :
            (outcome[a] = "pending" /\ outcome'[a] # "pending" /\ ~disturbed')
            => inbox'[q][a] > inbox[q][a]]_vars
  BY BroadcastStep DEF Inv
<1>2. QED
  BY <1>1, Invariance, PTL DEF Spec, FiredAlertsAreBroadcast

=============================================================================
