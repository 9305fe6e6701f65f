--------------------------- MODULE MonitoringLedger ---------------------------
(***************************************************************************)
(* agents/service_costs/monitoring.py: the JSON ledger of what each chat   *)
(* scope owes for its price alerts.  A symbol is charged for the time its  *)
(* window is open: the window opens with the first active alert on it and  *)
(* closes with the last, which adds its length to a closed total.          *)
(*                                                                         *)
(* Every call reads the scope's record, changes it and saves the whole     *)
(* ledger, in one piece: there is no await inside.  The save may fail or   *)
(* leave a truncated file; the dictionary keeps the change either way.     *)
(***************************************************************************)
EXTENDS Naturals, FiniteSets

CONSTANTS
    Scopes,     \* chat scopes
    Symbols,    \* trading symbols
    Alerts,     \* alert ids
    NotOpen,    \* active_window_started_at is None
    MaxTime,    \* bound on the clock
    MaxSetups   \* bound on the alerts started in a scope

ASSUME SymbolsAssumption == Symbols # {}
ASSUME NotOpenAssumption == NotOpen \notin Nat
ASSUME BoundsAssumption == MaxTime \in Nat /\ MaxSetups \in Nat

VARIABLES
    memory,     \* MonitoringCostDatabase.data
    file,       \* the content of its JSON file
    clock       \* the time

vars == <<memory, file, clock>>

Alert  == [status : {"unknown", "active", "triggered", "removed"},
           symbol : Symbols]
Window == [ids : SUBSET Alerts, opened : Nat \cup {NotOpen}, closed : Nat]
ScopeRecord == [alerts : [Alerts -> Alert], symbols : [Symbols -> Window],
                setups : Nat, triggers : Nat]
Ledger == [Scopes -> ScopeRecord]

TypeOK ==
    /\ memory \in Ledger
    /\ file \in Ledger
    /\ clock \in 0..MaxTime

-----------------------------------------------------------------------------
(* Windows *)

MutDuration(from, to) == from - to
\* The time between two stamps is never negative.
Duration(from, to) == IF to > from THEN to - from ELSE 0

\* What a symbol is charged for at a given time.
Seconds(w, now) ==
    w.closed + IF w.opened = NotOpen THEN 0 ELSE Duration(w.opened, now)

MutWatched(w, a, now) ==
    [ids |-> w.ids \cup {a}, opened |-> now, closed |-> w.closed]

\* The window with one more alert: the first one opens it.
Watched(w, a, now) ==
    [ids    |-> w.ids \cup {a},
     opened |-> IF w.ids = {} /\ w.opened = NotOpen THEN now ELSE w.opened,
     closed |-> w.closed]

MutUnwatched(w, a, now) ==
    [ids    |-> w.ids \ {a},
     opened |-> w.opened,
     closed |-> w.closed + IF w.ids \ {a} = {} THEN Duration(w.opened, now) ELSE 0]

\* The window with one alert less: the last one closes it.
Unwatched(w, a, now) ==
    LET ids == w.ids \ {a} IN
    IF w.opened # NotOpen /\ ids = {}
    THEN [ids |-> ids, opened |-> NotOpen,
          closed |-> w.closed + Duration(w.opened, now)]
    ELSE [ids |-> ids, opened |-> w.opened, closed |-> w.closed]

(* Scope records *)

EmptyRecord ==
    [alerts   |-> [a \in Alerts |-> [status |-> "unknown",
                                     symbol |-> CHOOSE s \in Symbols : TRUE]],
     symbols  |-> [s \in Symbols |-> [ids |-> {}, opened |-> NotOpen, closed |-> 0]],
     setups   |-> 0,
     triggers |-> 0]

Blank == [c \in Scopes |-> EmptyRecord]

\* A record exists as soon as one alert of the scope was started.
Exists(rec) == rec.setups > 0

IsActive(rec, a) == rec.alerts[a].status = "active"

\* An alert that is already active is left alone.
Started(rec, a, s, now) ==
    IF IsActive(rec, a) THEN rec
    ELSE [alerts   |-> [rec.alerts EXCEPT ![a] = [status |-> "active", symbol |-> s]],
          symbols  |-> [rec.symbols EXCEPT ![s] = Watched(@, a, now)],
          setups   |-> rec.setups + 1,
          triggers |-> rec.triggers]

MutEnded(rec, a, status, now) ==
    LET s == rec.alerts[a].symbol IN
    [alerts   |-> [rec.alerts EXCEPT ![a] = [status |-> status, symbol |-> s]],
     symbols  |-> [rec.symbols EXCEPT ![s] = Unwatched(@, a, now)],
     setups   |-> rec.setups,
     triggers |-> rec.triggers + IF status = "triggered" THEN 1 ELSE 0]

\* An alert that is not active is left alone; a removed one is never charged
\* for a trigger.
Ended(rec, a, status, now) ==
    LET s == rec.alerts[a].symbol IN
    IF ~IsActive(rec, a) THEN rec
    ELSE [alerts   |-> [rec.alerts EXCEPT ![a] = [status |-> status, symbol |-> s]],
          symbols  |-> [rec.symbols EXCEPT ![s] = Unwatched(@, a, now)],
          setups   |-> rec.setups,
          triggers |-> rec.triggers + IF status = "triggered" THEN 1 ELSE 0]

-----------------------------------------------------------------------------
(* The service *)

Init ==
    /\ memory = Blank
    /\ file = Blank
    /\ clock = 0

Tick ==
    /\ clock < MaxTime
    /\ clock' = clock + 1
    /\ UNCHANGED <<memory, file>>

\* upsert_scope: the dictionary, then the file: written, not opened, or
\* truncated and not written.
Upsert(c, rec) ==
    /\ memory' = [memory EXCEPT ![c] = rec]
    /\ file' \in {memory', file, Blank}
    /\ UNCHANGED clock

RecordAlertStarted(c, a, s) ==
    /\ memory[c].setups < MaxSetups
    /\ Upsert(c, Started(memory[c], a, s, clock))

\* _close_alert: nothing is stored for a scope without a record.
RecordAlertEnded(c, a, status) ==
    /\ Exists(memory[c])
    /\ Upsert(c, Ended(memory[c], a, status, clock))

\* The process restarts: load reads the file, or finds it broken (a crash in
\* the middle of a save).
Restart ==
    /\ file' \in {file, Blank}
    /\ memory' = file'
    /\ UNCHANGED clock

Next ==
    \/ Tick
    \/ \E c \in Scopes, a \in Alerts, s \in Symbols : RecordAlertStarted(c, a, s)
    \/ \E c \in Scopes, a \in Alerts, status \in {"triggered", "removed"} :
          RecordAlertEnded(c, a, status)
    \/ Restart

Spec == Init /\ [][Next]_vars

-----------------------------------------------------------------------------
(* Properties *)

\* The three places that say which alerts watch a symbol agree: the statuses
\* of the alerts, the symbol's active_alert_ids and whether its window is open.
Consistent(rec, now) ==
    \A s \in Symbols :
        LET w == rec.symbols[s] IN
        /\ w.ids = {a \in Alerts : IsActive(rec, a) /\ rec.alerts[a].symbol = s}
        /\ w.opened = NotOpen <=> w.ids = {}
        /\ w.opened # NotOpen => w.opened <= now

\* In memory and in the file, through failed saves and restarts, every scope's
\* record is consistent: a symbol is charged exactly while an alert watches it.
WindowsMatchAlerts ==
    \A c \in Scopes : Consistent(memory[c], clock) /\ Consistent(file[c], clock)

\* A scope pays for at most one trigger per alert it paid the setup of, the
\* alerts that may still trigger included.
TriggersAreSetUp ==
    \A c \in Scopes :
        memory[c].triggers + Cardinality({a \in Alerts : IsActive(memory[c], a)})
        <= memory[c].setups

\* Opening and closing windows charges what a meter that ticks would charge.
Account(rec, now) ==
    [s \in Symbols |-> [on  |-> rec.symbols[s].ids,
                        due |-> Seconds(rec.symbols[s], now)]]

Accounts(led) == [c \in Scopes |-> Account(led[c], clock)]

Meter == INSTANCE MonitoringMeter WITH live <- Accounts(memory), saved <- Accounts(file)

MeterSpec == Meter!Spec

=============================================================================
