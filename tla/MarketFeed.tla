------------------------------- MODULE MarketFeed -------------------------------
(***************************************************************************)
(* The price feed: the Phantom service polls spot and futures prices and   *)
(* hands each update to the market handler, whose listeners, one per price *)
(* WebSocket ever opened, each send it to every open connection            *)
(* (ws/phantom/service.py, ws/handlers/market_handler.py, main.py, the     *)
(* ConnectionManager and the route /ws/prices).                            *)
(*                                                                         *)
(* Between two sends anything may happen, and both lists are walked by     *)
(* position while they change.                                             *)
(***************************************************************************)
EXTENDS Naturals, Sequences, SequencesExt

CONSTANTS
    Symbols,    \* assets of the exchange
    Tracked,    \* those the settings name
    Clients,    \* price WebSockets, each opened once
    NoUpdate,   \* no price yet; no update is being handed on
    MaxBatch,   \* bound: prices in the answer to one request
    MaxUpdates  \* bound: updates in all

ASSUME TrackedAssumption == Tracked \subseteq Symbols
ASSUME BoundsAssumption == {MaxBatch, MaxUpdates} \subseteq Nat

VARIABLES
    service,      \* where the poll loop is
    batch,        \* symbols whose prices it has still to hand on
    count,        \* updates so far: the next one's number
    latest,       \* price_data: the latest update of a symbol
    byExchange,   \* price_data_by_exchange
    current,      \* the update that is being handed on
    listener,     \* which listener is being called
    position,     \* which connection it sends to next
    listeners,    \* how many listeners there are
    connections,  \* the open WebSockets, in order
    opened,       \* history: clients that have ever connected
    stayed,       \* history: clients connected since before the current update
    reached       \* history: clients that were sent it

serviceVars == <<service, batch, count, latest, byExchange>>
deliveryVars == <<current, listener, position, reached>>
vars == <<serviceVars, deliveryVars, listeners, connections, opened, stayed>>

Exchanges == {"phantom_spot", "phantom_futures"}
Updates == [symbol : Tracked, exchange : Exchanges, n : 0..MaxUpdates]
ASSUME NoUpdateAssumption == NoUpdate \notin Updates

TypeOK ==
    /\ service \in {"new", "spot", "futures", "asleep", "stopped"} \cup Exchanges
    /\ batch \in Seq(Symbols)
    /\ count \in 0..MaxUpdates
    /\ latest \in [Tracked -> Updates \cup {NoUpdate}]
    /\ byExchange \in [Exchanges -> [Tracked -> Updates \cup {NoUpdate}]]
    /\ current \in Updates \cup {NoUpdate}
    /\ current # NoUpdate => service \in Exchanges
    /\ listener \in Nat /\ position \in Nat
    /\ listeners \in Nat
    /\ connections \in Seq(Clients) /\ opened \subseteq Clients
    /\ Len(connections) <= listeners
    /\ Range(connections) \subseteq opened /\ IsInjective(connections)
    /\ stayed \cup reached \subseteq opened

Init ==
    /\ service = "new"
    /\ batch = <<>>
    /\ count = 0
    /\ latest = [s \in Tracked |-> NoUpdate]
    /\ byExchange = [e \in Exchanges |-> latest]
    /\ current = NoUpdate
    /\ listener = 1 /\ position = 1
    /\ listeners = 0
    /\ connections = <<>>
    /\ opened = {}
    /\ stayed = {} /\ reached = {}

-----------------------------------------------------------------------------
(* The Phantom service *)

\* start, when the application starts.
Start ==
    /\ service = "new"
    /\ service' = "spot"
    /\ UNCHANGED <<batch, count, latest, byExchange, deliveryVars, listeners,
                   connections, opened, stayed>>

\* stop, when it ends: the loop is cancelled wherever it waits.
Stop ==
    /\ service \notin {"new", "stopped"}
    /\ service' = "stopped"
    /\ batch' = <<>>
    /\ current' = NoUpdate
    /\ stayed' = {} /\ reached' = {}
    /\ UNCHANGED <<count, latest, byExchange, listener, position, listeners,
                   connections, opened>>

\* The answers to the two requests of a round: the prices of any symbols.
Batches == UNION {[1..n -> Symbols] : n \in 0..MaxBatch}

\* _refresh_spot_asset_contexts and _refresh_futures_asset_contexts, up to the first
\* price of a tracked symbol.
RefreshSpot ==
    /\ service = "spot"
    /\ batch' \in Batches
    /\ service' = "phantom_spot"
    /\ UNCHANGED <<count, latest, byExchange, deliveryVars, listeners, connections,
                   opened, stayed>>

RefreshFutures ==
    /\ service = "futures"
    /\ batch' \in Batches
    /\ service' = "phantom_futures"
    /\ UNCHANGED <<count, latest, byExchange, deliveryVars, listeners, connections,
                   opened, stayed>>

\* A request fails, or an entry of its answer cannot be read: the rest of the round is
\* left out, the futures too when it is the spot prices that fail.
RefreshFails ==
    /\ service \in {"spot", "futures"} \cup Exchanges
    /\ current = NoUpdate
    /\ service' = "asleep"
    /\ batch' = <<>>
    /\ UNCHANGED <<count, latest, byExchange, deliveryVars, listeners, connections,
                   opened, stayed>>

Skip ==
    /\ service \in Exchanges /\ current = NoUpdate
    /\ batch # <<>> /\ Head(batch) \notin Tracked
    /\ batch' = Tail(batch)
    /\ UNCHANGED <<service, count, latest, byExchange, deliveryVars, listeners,
                   connections, opened, stayed>>

Refreshed ==
    /\ service \in Exchanges /\ current = NoUpdate
    /\ batch = <<>>
    /\ service' = IF service = "phantom_spot" THEN "futures" ELSE "asleep"
    /\ UNCHANGED <<batch, count, latest, byExchange, deliveryVars, listeners,
                   connections, opened, stayed>>

Wake ==
    /\ service = "asleep"
    /\ service' = "spot"
    /\ UNCHANGED <<batch, count, latest, byExchange, deliveryVars, listeners,
                   connections, opened, stayed>>

-----------------------------------------------------------------------------
(* The market handler *)

\* on_price_update_from_exchange and on_price_update, up to the first listener.
MutPriceOf(update) == [latest EXCEPT ![update.symbol] =
    IF @ = NoUpdate \/ update.exchange = "phantom_futures" THEN update ELSE @]
PriceOf(update) == [latest EXCEPT ![update.symbol] = update]

OnPriceUpdate ==
    /\ service \in Exchanges /\ current = NoUpdate
    /\ batch # <<>> /\ Head(batch) \in Tracked
    /\ count < MaxUpdates
    /\ LET update == [symbol |-> Head(batch), exchange |-> service, n |-> count + 1] IN
          /\ byExchange' = [byExchange EXCEPT ![service][update.symbol] = update]
          /\ latest' = PriceOf(update)
          /\ current' = update
    /\ count' = count + 1
    /\ batch' = Tail(batch)
    /\ listener' = 1 /\ position' = 1
    /\ stayed' = Range(connections) /\ reached' = {}
    /\ UNCHANGED <<service, listeners, connections, opened>>

\* get_price: without an exchange, whichever reported last.
GetPrice(symbol, exchange) ==
    IF exchange \in Exchanges THEN byExchange[exchange][symbol] ELSE latest[symbol]

-----------------------------------------------------------------------------
(* Handing an update on: _notify_listeners calls one listener after the other, and each *)
(* is a broadcast of the connection manager                                             *)

\* A send that fails is logged: the client is told nothing, but it is its own handler
\* that takes it off the list.
Broadcast ==
    /\ current # NoUpdate
    /\ listener <= listeners
    /\ position <= Len(connections)
    /\ reached' = reached \cup {connections[position]}
    /\ position' = position + 1
    /\ UNCHANGED <<serviceVars, current, listener, listeners, connections, opened, stayed>>

NextListener ==
    /\ current # NoUpdate
    /\ listener <= listeners
    /\ position > Len(connections)
    /\ listener' = listener + 1
    /\ position' = 1
    /\ UNCHANGED <<serviceVars, current, reached, listeners, connections, opened, stayed>>

\* All listeners were called.
Notified ==
    /\ current # NoUpdate
    /\ listener > listeners
    /\ current' = NoUpdate
    /\ UNCHANGED <<serviceVars, listener, position, reached, listeners, connections,
                   opened, stayed>>

-----------------------------------------------------------------------------
(* A price WebSocket *)

\* Its listener is added with it and never removed.
Connect(c) ==
    /\ c \notin opened
    /\ connections' = Append(connections, c)
    /\ listeners' = listeners + 1
    /\ opened' = opened \cup {c}
    /\ UNCHANGED <<serviceVars, deliveryVars, stayed>>

MutDisconnect(c) ==
    /\ \E i \in DOMAIN connections :
          connections[i] = c /\ connections' = RemoveAt(connections, i)
    /\ listeners' = listeners - 1
    /\ stayed' = stayed \ {c}
    /\ UNCHANGED <<serviceVars, deliveryVars, opened>>
Disconnect(c) ==
    /\ \E i \in DOMAIN connections :
          connections[i] = c /\ connections' = RemoveAt(connections, i)
    /\ stayed' = stayed \ {c}
    /\ UNCHANGED <<serviceVars, deliveryVars, listeners, opened>>

-----------------------------------------------------------------------------

Next ==
    \/ Start \/ Stop \/ RefreshSpot \/ RefreshFutures \/ RefreshFails \/ Skip
    \/ Refreshed \/ Wake \/ OnPriceUpdate \/ Broadcast \/ NextListener \/ Notified
    \/ \E c \in Clients : Connect(c) \/ Disconnect(c)

Spec == Init /\ [][Next]_vars

-----------------------------------------------------------------------------
(* Properties *)

\* A client that stays connected while an update is handed on is sent it, whoever comes
\* and goes meanwhile.  A departure makes a broadcast skip a client; it is the listeners
\* nobody removes that send the update again, one for each client there ever was.
UpdatesReachClients ==
    [][Notified => stayed \subseteq reached]_vars

\* The price read without an exchange is the newest of the two exchanges, and no reader
\* is shown an older price than the clients were sent, at any point of a round.
LatestIsNewest ==
    \A s \in Tracked :
        LET prices == {GetPrice(s, e) : e \in Exchanges} \ {NoUpdate} IN
        /\ (prices = {}) <=> (GetPrice(s, "any") = NoUpdate)
        /\ \A p \in prices : p.n <= GetPrice(s, "any").n
        /\ current # NoUpdate /\ current.symbol = s => GetPrice(s, "any") = current

=============================================================================
