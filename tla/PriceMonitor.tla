----------------------------- MODULE PriceMonitor -----------------------------
(***************************************************************************)
(* ws/price/monitor.py and the price-alert tools over it, composed with    *)
(* the monitoring ledger every alert of a chat scope is charged to.        *)
(*                                                                         *)
(* The tools run inside agent turns, the monitor's loop is a task of its   *)
(* own, and the market service pushes prices into a handler the loop reads.*)
(* All of them share one event loop, and none awaits inside an operation   *)
(* here, so each operation is one step.  The alerts live in memory only;   *)
(* the ledger is saved to a file on every call.                            *)
(***************************************************************************)
EXTENDS Naturals, FiniteSets

CONSTANTS
    Alerts,     \* alert ids: each is generated once, the bound on alerts
    Symbols, Scopes, NotOpen, MaxTime,
    NoScope,    \* an alert or a caller outside any chat scope
    NoUser,     \* an alert or a caller without a wallet
    Setups,     \* the fields alerts are added with
    NoSetup,    \* the fields of an alert not added yet
    Callers,    \* scope and user of the turns that remove alerts
    Loops,      \* monitor tasks alive at once
    Queues,     \* subscribers of triggered alerts
    MaxPrice,   \* bound on prices; 0 is "no price yet"
    Wired       \* the handler the monitor reads is the one the market feeds

ASSUME LedgerAssumption == Symbols # {} /\ NotOpen \notin Nat /\ MaxTime \in Nat
ASSUME NoneAssumption == NoScope \notin Scopes /\ NoSetup \notin Setups
ASSUME PriceAssumption == MaxPrice \in Nat
ASSUME SetupsAssumption ==
    Setups \subseteq [symbol : Symbols, direction : {"LONG", "SHORT"},
                      validation : Nat, invalidation : Nat,
                      scope : Scopes \cup {NoScope}, user : STRING \cup {NoUser}]

VARIABLES
    alerts,         \* ids in PriceMonitor.alerts
    setup,          \* the fields of each alert
    outcome,        \* trigger_type of each alert
    running,        \* PriceMonitor.running
    loops,          \* live _monitor_loop tasks
    subscribers,    \* PriceMonitor.subscribers
    inbox,          \* how often each queue has got each alert's event
    market,         \* prices in the handler the market service feeds
    answer,         \* what add_price_alert told its caller
    memory, file, clock,
    disturbed       \* history: a save failed, or a restart lost something

monitorVars == <<alerts, setup, outcome, answer>>
loopVars    == <<running, loops>>
eventVars   == <<subscribers, inbox>>
ledgerVars  == <<memory, file, disturbed>>
vars == <<monitorVars, loopVars, eventVars, market, ledgerVars, clock>>

Ledger == INSTANCE MonitoringLedger WITH MaxSetups <- Cardinality(Alerts)

TypeOK ==
    /\ alerts \subseteq Alerts
    /\ setup \in [Alerts -> Setups \cup {NoSetup}]
    /\ outcome \in [Alerts -> {"pending", "VALIDATION", "INVALIDATION"}]
    /\ answer \in [Alerts -> {"none", "armed", "failed"}]
    /\ running \in BOOLEAN
    /\ loops \subseteq Loops
    /\ subscribers \subseteq Queues
    /\ inbox \in [Queues -> [Alerts -> Nat]]
    /\ market \in [Symbols -> 0..MaxPrice]
    /\ Ledger!TypeOK
    /\ disturbed \in BOOLEAN

NoEvents == [a \in Alerts |-> 0]

Init ==
    /\ alerts = {}
    /\ setup = [a \in Alerts |-> NoSetup]
    /\ outcome = [a \in Alerts |-> "pending"]
    /\ answer = [a \in Alerts |-> "none"]
    /\ running = FALSE
    /\ loops = {}
    /\ subscribers = {}
    /\ inbox = [q \in Queues |-> NoEvents]
    /\ market = [s \in Symbols |-> 0]
    /\ Ledger!Init
    /\ disturbed = FALSE

-----------------------------------------------------------------------------
(* The ledger calls *)

Saved(new) ==
    /\ memory' = new
    /\ file' = new
    /\ UNCHANGED disturbed

\* The exception of a failed save reaches the caller; the dictionary has changed.
SaveFails(before, new) ==
    /\ memory' = new
    /\ file' \in {before, Ledger!Blank}
    /\ disturbed' = TRUE

\* Whether a call about the alert reaches the ledger at all.
IsCharged(a) == setup[a].scope # NoScope

Close(a, led, status) ==
    [led EXCEPT ![setup[a].scope] = Ledger!Ended(@, a, status, clock)]

\* record_alert_triggered for each alert of a set, one after the other and at one
\* time.  The order does not matter: every alert leaves its symbol, and a symbol
\* that none watches any more has its window closed.
TriggeredAll(rec, set, now) ==
    LET ending    == {a \in set : Ledger!IsActive(rec, a)}
        on(s)     == {a \in ending : rec.alerts[a].symbol = s}
        left(s)   == rec.symbols[s].ids \ on(s)
        closes(s) == on(s) # {} /\ left(s) = {} /\ rec.symbols[s].opened # NotOpen
    IN  [alerts   |-> [a \in Alerts |->
                          [status |-> IF a \in ending THEN "triggered"
                                                      ELSE rec.alerts[a].status,
                           symbol |-> rec.alerts[a].symbol]],
         symbols  |-> [s \in Symbols |->
                          [ids    |-> left(s),
                           opened |-> IF closes(s) THEN NotOpen ELSE rec.symbols[s].opened,
                           closed |-> rec.symbols[s].closed +
                               IF closes(s) THEN Ledger!Duration(rec.symbols[s].opened, now)
                                            ELSE 0]],
         setups   |-> rec.setups,
         triggers |-> rec.triggers + Cardinality(ending)]

CloseAll(set, led) ==
    [c \in Scopes |-> TriggeredAll(led[c], {a \in set : setup[a].scope = c}, clock)]

(* Tools *)

Valid(d) ==
    IF d.direction = "LONG" THEN d.validation > d.invalidation
                            ELSE d.validation < d.invalidation

\* get_scope_summary measures open windows, stamped with a naive local time,
\* up to an aware UTC time: datetime refuses to subtract the two.
SummaryRaises(rec) == \E s \in Symbols : rec.symbols[s].opened # NotOpen

Arm(a, d, reply) ==
    /\ answer[a] = "none"
    /\ Valid(d)
    /\ alerts' = alerts \cup {a}
    /\ setup' = [setup EXCEPT ![a] = d]
    /\ answer' = [answer EXCEPT ![a] = reply]
    /\ UNCHANGED <<outcome, loopVars, eventVars, market, clock>>

\* The alert is in the dictionary before the ledger is told, and the tool asks
\* for the scope's cost summary before it answers.
AddAlert(a, d) ==
    IF d.scope = NoScope
    THEN Arm(a, d, "armed") /\ UNCHANGED ledgerVars
    ELSE LET rec == Ledger!Started(memory[d.scope], a, d.symbol, clock)
         IN  /\ Arm(a, d, IF SummaryRaises(rec) THEN "failed" ELSE "armed")
             /\ Saved([memory EXCEPT ![d.scope] = rec])

AddAlertUnsaved(a, d) ==
    /\ d.scope # NoScope
    /\ Arm(a, d, "failed")
    /\ SaveFails(file, [memory EXCEPT
           ![d.scope] = Ledger!Started(@, a, d.symbol, clock)])

\* _alert_matches_owner: by scope when both have one, else by user when both
\* have one; a caller without either may touch any alert.
Matches(d, caller) ==
    IF caller.scope # NoScope /\ d.scope # NoScope THEN d.scope = caller.scope
    ELSE IF caller.user # NoUser /\ d.user # NoUser THEN d.user = caller.user
    ELSE caller.scope = NoScope /\ caller.user = NoUser

Drop(a) ==
    /\ alerts' = alerts \ {a}
    /\ UNCHANGED <<setup, outcome, answer, loopVars, eventVars, market, clock>>

MutRemoveAlert(a, caller) ==
    /\ a \in alerts
    /\ Matches(setup[a], caller)
    /\ Drop(a)
    /\ UNCHANGED ledgerVars

\* A triggered alert was closed in the ledger when it triggered.
RemoveAlert(a, caller) ==
    /\ a \in alerts
    /\ Matches(setup[a], caller)
    /\ Drop(a)
    /\ IF outcome[a] = "pending" /\ IsCharged(a)
       THEN Saved(Close(a, memory, "removed"))
       ELSE UNCHANGED ledgerVars

\* The ledger is told first: when its save fails the alert stays.
RemoveAlertUnsaved(a, caller) ==
    /\ a \in alerts
    /\ Matches(setup[a], caller)
    /\ outcome[a] = "pending"
    /\ IsCharged(a)
    /\ SaveFails(file, Close(a, memory, "removed"))
    /\ UNCHANGED <<monitorVars, loopVars, eventVars, market, clock>>

-----------------------------------------------------------------------------
(* The monitor *)

Start(l) ==
    /\ ~running
    /\ l \notin loops
    /\ running' = TRUE
    /\ loops' = loops \cup {l}
    /\ UNCHANGED <<monitorVars, eventVars, market, ledgerVars, clock>>

\* The loop is not cancelled: it ends at its next turn, if it still finds the
\* monitor stopped.
Stop ==
    /\ running
    /\ running' = FALSE
    /\ UNCHANGED <<loops, monitorVars, eventVars, market, ledgerVars, clock>>

LoopEnds(l) ==
    /\ l \in loops
    /\ ~running
    /\ loops' = loops \ {l}
    /\ UNCHANGED <<running, monitorVars, eventVars, market, ledgerVars, clock>>

\* get_price of the handler the monitor was made with.
Price(s) == IF Wired THEN market[s] ELSE 0

MutCheck(d, price) ==
    LET up   == IF d.direction = "LONG" THEN "VALIDATION" ELSE "INVALIDATION"
        down == IF d.direction = "LONG" THEN "INVALIDATION" ELSE "VALIDATION"
        high == IF d.direction = "LONG" THEN d.validation ELSE d.invalidation
        low  == IF d.direction = "LONG" THEN d.invalidation ELSE d.validation
    IN  CASE price > high -> up [] price < low -> down [] OTHER -> "pending"

MutCheckType(d, price) == IF price >= d.validation THEN "TRIGGERED" ELSE "pending"

\* check_price: the levels themselves count.
Check(d, price) ==
    LET up   == IF d.direction = "LONG" THEN "VALIDATION" ELSE "INVALIDATION"
        down == IF d.direction = "LONG" THEN "INVALIDATION" ELSE "VALIDATION"
        high == IF d.direction = "LONG" THEN d.validation ELSE d.invalidation
        low  == IF d.direction = "LONG" THEN d.invalidation ELSE d.validation
    IN  CASE price >= high -> up [] price <= low -> down [] OTHER -> "pending"

MutWatching(a) == a \in alerts
\* Alerts the loop looks at: in the dictionary and not triggered.
Watching(a) == a \in alerts /\ outcome[a] = "pending"

Hits == {a \in Alerts : /\ Watching(a)
                        /\ Price(setup[a].symbol) # 0
                        /\ Check(setup[a], Price(setup[a].symbol)) # "pending"}

Trigger(set) ==
    outcome' = [a \in Alerts |->
                   IF a \in set THEN Check(setup[a], Price(setup[a].symbol))
                                ELSE outcome[a]]

MutBroadcast(set) == UNCHANGED inbox

\* One message with all alerts of the round, put on each unbounded queue.
Broadcast(set) ==
    inbox' = [q \in Queues |-> [a \in Alerts |->
                 inbox[q][a] + IF q \in subscribers /\ a \in set THEN 1 ELSE 0]]

\* One turn of the loop.  It changes nothing when no alert is hit.
Poll(l) ==
    /\ l \in loops
    /\ running
    /\ Hits # {}
    /\ Trigger(Hits)
    /\ IF \E a \in Hits : IsCharged(a)
       THEN Saved(CloseAll(Hits, memory))
       ELSE UNCHANGED ledgerVars
    /\ Broadcast(Hits)
    /\ UNCHANGED <<alerts, setup, answer, loopVars, subscribers, market, clock>>

\* The ledger fails on one alert: it and those before it are triggered, those
\* after it are not looked at, and the round ends without a broadcast.  The
\* order of the dictionary is abstracted to any.
PollFails(l) ==
    /\ l \in loops
    /\ running
    /\ \E bad \in Hits : \E before \in SUBSET (Hits \ {bad}) :
          /\ IsCharged(bad)
          /\ Trigger(before \cup {bad})
          /\ LET saved == IF \E a \in before : IsCharged(a)
                          THEN CloseAll(before, memory) ELSE file
             IN  SaveFails(saved, CloseAll(before \cup {bad}, memory))
    /\ UNCHANGED <<alerts, setup, answer, loopVars, eventVars, market, clock>>

\* A new queue; one that is given up is never read again.
Subscribe(q) ==
    /\ q \notin subscribers
    /\ subscribers' = subscribers \cup {q}
    /\ UNCHANGED <<inbox, monitorVars, loopVars, market, ledgerVars, clock>>

Unsubscribe(q) ==
    /\ q \in subscribers
    /\ subscribers' = subscribers \ {q}
    /\ inbox' = [inbox EXCEPT ![q] = NoEvents]
    /\ UNCHANGED <<monitorVars, loopVars, market, ledgerVars, clock>>

(* The market, the clock and the process *)

PriceUpdate(s, p) ==
    /\ market' = [market EXCEPT ![s] = p]
    /\ UNCHANGED <<monitorVars, loopVars, eventVars, ledgerVars, clock>>

Tick ==
    /\ clock < MaxTime
    /\ clock' = clock + 1
    /\ UNCHANGED <<monitorVars, loopVars, eventVars, market, ledgerVars>>

\* The process dies, possibly inside a save, and comes back: the alerts, the
\* loop and the prices are gone, the ledger is what its file says, and nothing
\* starts the monitor.
Restart ==
    /\ file' \in {file, Ledger!Blank}
    /\ memory' = file'
    /\ alerts' = {}
    /\ running' = FALSE
    /\ loops' = {}
    /\ subscribers' = {}
    /\ inbox' = [q \in Queues |-> NoEvents]
    /\ market' = [s \in Symbols |-> 0]
    /\ disturbed' = (disturbed \/ memory' # memory \/ \E a \in Alerts : Watching(a))
    /\ UNCHANGED <<setup, outcome, answer, clock>>

-----------------------------------------------------------------------------

Round(l) == Poll(l) \/ PollFails(l) \/ LoopEnds(l)

Next ==
    \/ \E a \in Alerts, d \in Setups : AddAlert(a, d) \/ AddAlertUnsaved(a, d)
    \/ \E a \in Alerts, caller \in Callers :
          RemoveAlert(a, caller) \/ RemoveAlertUnsaved(a, caller)
    \/ \E l \in Loops : Start(l) \/ Round(l)
    \/ Stop
    \/ \E q \in Queues : Subscribe(q) \/ Unsubscribe(q)
    \/ \E s \in Symbols, p \in 1..MaxPrice : PriceUpdate(s, p)
    \/ Tick
    \/ Restart

\* asyncio wakes a sleeping loop up: each one gets its turn again and again.
Fairness == \A l \in Loops : WF_vars(Round(l))

Spec == Init /\ [][Next]_vars
FairSpec == Spec /\ Fairness

-----------------------------------------------------------------------------
(* Properties *)

Added(c) == {a \in Alerts : setup[a] # NoSetup /\ setup[a].scope = c}
Fired(c) == {a \in Added(c) : outcome[a] # "pending"}

\* As long as no save failed and no restart lost an alert, the ledger tells the
\* same story as the monitor: it charges a setup per alert, a trigger per
\* triggered alert and no other, and it meters exactly the alerts still watched.
LedgerFollowsMonitor ==
    ~disturbed => \A c \in Scopes :
        /\ memory[c] = file[c]
        /\ memory[c].setups = Cardinality(Added(c))
        /\ memory[c].triggers = Cardinality(Fired(c))
        /\ \A a \in Added(c) : memory[c].alerts[a].status =
              CASE outcome[a] # "pending" -> "triggered"
                [] Watching(a)            -> "active"
                [] OTHER                  -> "removed"

\* A queue gets the event of an alert at most once, however the monitor is
\* stopped and started: two loops that run at once never both fire it.
EventsAreNotRepeated ==
    \A q \in Queues, a \in Alerts : inbox[q][a] <= 1

\* A round that fires an alert tells every subscriber of it, unless the
\* ledger's save fails in that round.
FiredAlertsAreBroadcast ==
    [][\A a \in Alerts, q \in subscribers :
          (outcome[a] = "pending" /\ outcome'[a] # "pending" /\ ~disturbed')
          => inbox'[q][a] > inbox[q][a]]_vars

\* The market's price has reached one of the alert's two levels.
Reached(a) ==
    LET d == setup[a]  p == market[d.symbol] IN
    /\ p # 0
    /\ \/ d.direction = "LONG"  /\ (p >= d.validation \/ p <= d.invalidation)
       \/ d.direction = "SHORT" /\ (p <= d.validation \/ p >= d.invalidation)

\* An alert does not stay unfired for ever while the monitor runs and the
\* market stays beyond one of its levels.
ReachedAlertsFire ==
    \A a \in Alerts : []<>~(Watching(a) /\ running /\ Reached(a))

-----------------------------------------------------------------------------
(* A statement of the source that the code does not keep *)

\* price_monitor_tools.py, add_price_alert, "Returns: Alert details with
\* alert_id": an alert that was armed and saved is answered as such.
ArmedAlertsAreAnswered ==
    ~disturbed => \A a \in alerts : answer[a] = "armed"

=============================================================================
