---------------------------- MODULE MonitoringMeter ----------------------------
(***************************************************************************)
(* What the monitoring ledger promises: every tick of the clock is charged *)
(* once to each symbol a scope watches, however many alerts watch it, and  *)
(* to no other symbol.                                                     *)
(*                                                                         *)
(* The ledger is kept twice: live, and in a file it is reloaded from.  The *)
(* promise covers both: a reloaded ledger has charged its open symbols for *)
(* the time it was only a file.                                            *)
(***************************************************************************)
EXTENDS Naturals

CONSTANTS
    Scopes,     \* chat scopes that pay for monitoring
    Symbols,    \* trading symbols
    Alerts      \* alert ids

VARIABLES
    live,       \* per scope and symbol: the alerts that watch it, the ticks due
    saved       \* the same, in the file

vars == <<live, saved>>

Meters == [Scopes -> [Symbols -> [on : SUBSET Alerts, due : Nat]]]

Blank == [c \in Scopes |-> [s \in Symbols |-> [on |-> {}, due |-> 0]]]

TypeOK == live \in Meters /\ saved \in Meters

Init == live = Blank /\ saved = Blank

-----------------------------------------------------------------------------

AfterTick(m) ==
    [c \in Scopes |-> [s \in Symbols |->
        [on  |-> m[c][s].on,
         due |-> m[c][s].due + IF m[c][s].on = {} THEN 0 ELSE 1]]]

Tick ==
    /\ live' = AfterTick(live)
    /\ saved' = AfterTick(saved)

\* The account of one scope with other alerts watching one symbol.
Switched(account, s, on) ==
    [account EXCEPT ![s] = [on |-> on, due |-> account[s].due]]

\* One alert of a scope starts or stops to watch a symbol.  No time passes.
\* The save that follows succeeds, fails, or leaves a broken file.
Switch(c, s, a) ==
    /\ \E on \in {live[c][s].on \cup {a}, live[c][s].on \ {a}} :
          live' = [live EXCEPT ![c] = Switched(live[c], s, on)]
    /\ saved' \in {live', saved, Blank}

Restart ==
    /\ saved' \in {saved, Blank}
    /\ live' = saved'

Next ==
    \/ Tick
    \/ \E c \in Scopes, s \in Symbols, a \in Alerts : Switch(c, s, a)
    \/ Restart

Spec == Init /\ [][Next]_vars

=============================================================================
