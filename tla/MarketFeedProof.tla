---------------------------- MODULE MarketFeedProof ----------------------------
(***************************************************************************)
(* A client that stays connected is sent every update, for any number of   *)
(* clients, assets and updates, however the two lists change while they    *)
(* are walked.                                                             *)
(***************************************************************************)
EXTENDS MarketFeed, TLAPS

\* The lists: every connection was opened once, and has a listener of its own.
ListsOK ==
    /\ connections \in Seq(Clients)
    /\ opened \subseteq Clients
    /\ listeners \in Nat
    /\ Len(connections) <= listeners
    /\ \A i \in DOMAIN connections : connections[i] \in opened
    /\ \A i, j \in DOMAIN connections : connections[i] = connections[j] => i = j

\* The walk: who still waits for the update is connected, and the listeners that are left
\* after this one, with what is left of this one's walk, are enough to come to each
\* position once more even if everybody before it leaves.
Waits(i) == connections[i] \in stayed \ reached
WalkOK ==
    /\ \A c \in stayed : \E i \in DOMAIN connections : connections[i] = c
    /\ current # NoUpdate =>
          /\ listener \in Nat /\ position \in Nat \ {0}
          /\ \A i \in DOMAIN connections : Waits(i) =>
                Len(connections) + listener + (IF i < position THEN 1 ELSE 0) <= listeners + 1

FeedInv == ListsOK /\ WalkOK

-----------------------------------------------------------------------------

\* Removing one position of a sequence moves up what is behind it.
LEMMA Removed ==
    ASSUME NEW S, NEW seq \in Seq(S), NEW i \in DOMAIN seq
    PROVE  /\ RemoveAt(seq, i) \in Seq(S)
           /\ Len(RemoveAt(seq, i)) = Len(seq) - 1
           /\ \A k \in 1 .. Len(seq) - 1 :
                RemoveAt(seq, i)[k] = IF k < i THEN seq[k] ELSE seq[k + 1]
<1> i \in 1..Len(seq) /\ Len(seq) \in Nat
  OBVIOUS
<1> DEFINE front == SubSeq(seq, 1, i - 1)
           back == SubSeq(seq, i + 1, Len(seq))
<1>1. front \in Seq(S) /\ Len(front) = i - 1 /\ \A k \in 1 .. i - 1 : front[k] = seq[k]
  OBVIOUS
<1>2. /\ back \in Seq(S) /\ Len(back) = Len(seq) - i
      /\ \A k \in 1 .. Len(seq) - i : back[k] = seq[k + i]
  OBVIOUS
<1>3. RemoveAt(seq, i) = front \o back
  BY DEF RemoveAt
<1> HIDE DEF front, back
<1>4. QED
  BY <1>1, <1>2, <1>3

LEMMA FeedInit == Init => FeedInv
  BY DEF Init, FeedInv, ListsOK, WalkOK

\* What the service does to the prices leaves the lists alone, and an update starts its
\* walk with as many listeners as connections.
LEMMA ServiceKeepsInv ==
    ASSUME FeedInv,
           Start \/ Stop \/ RefreshSpot \/ RefreshFutures \/ RefreshFails \/ Skip
             \/ Refreshed \/ Wake \/ OnPriceUpdate
    PROVE  FeedInv'
<1>1. CASE Start \/ RefreshSpot \/ RefreshFutures \/ RefreshFails \/ Skip \/ Refreshed \/ Wake
  BY <1>1 DEF FeedInv, ListsOK, WalkOK, Waits, deliveryVars, Start, RefreshSpot,
       RefreshFutures, RefreshFails, Skip, Refreshed, Wake
<1>2. CASE Stop
  BY <1>2 DEF FeedInv, ListsOK, WalkOK, Waits, Stop
<1>3. CASE OnPriceUpdate
  <2>1. ListsOK'
    BY <1>3 DEF FeedInv, ListsOK, OnPriceUpdate
  <2>2. stayed' = {connections[i] : i \in DOMAIN connections}
    BY <1>3 DEF OnPriceUpdate, Range
  <2>3. WalkOK'
    BY <1>3, <2>2 DEF FeedInv, ListsOK, WalkOK, Waits, OnPriceUpdate
  <2>4. QED
    BY <2>1, <2>3 DEF FeedInv
<1>4. QED
  BY <1>1, <1>2, <1>3

\* The walk of the connections inside that of the listeners.
LEMMA WalkKeepsInv ==
    ASSUME FeedInv, Broadcast \/ NextListener \/ Notified
    PROVE  FeedInv'
<1>1. ListsOK'
  BY DEF FeedInv, ListsOK, Broadcast, NextListener, Notified
<1>2. CASE Broadcast
  BY <1>2 DEF FeedInv, ListsOK, WalkOK, Waits, Broadcast, serviceVars
<1>3. CASE NextListener
  BY <1>3 DEF FeedInv, ListsOK, WalkOK, Waits, NextListener, serviceVars
<1>4. CASE Notified
  BY <1>4 DEF FeedInv, ListsOK, WalkOK, Waits, Notified, serviceVars
<1>5. QED
  BY <1>1, <1>2, <1>3, <1>4 DEF FeedInv

\* A client that comes is at the end, with a listener more.
LEMMA ConnectKeepsInv ==
    ASSUME FeedInv, NEW c \in Clients, Connect(c)
    PROVE  FeedInv'
<1>1. ListsOK'
  BY DEF FeedInv, ListsOK, Connect
<1>2. WalkOK'
  BY DEF FeedInv, ListsOK, WalkOK, Waits, Connect, serviceVars, deliveryVars
<1>3. QED
  BY <1>1, <1>2 DEF FeedInv

\* Whoever leaves moves those behind it up: one of them may slip past this walk, and
\* there is one connection less to be walked for.
LEMMA DisconnectKeepsInv ==
    ASSUME FeedInv, NEW c \in Clients, Disconnect(c)
    PROVE  FeedInv'
<1>1. PICK d \in DOMAIN connections :
        connections[d] = c /\ connections' = RemoveAt(connections, d)
  BY DEF Disconnect
<1>2. /\ connections' \in Seq(Clients)
      /\ Len(connections') = Len(connections) - 1
      /\ \A k \in 1 .. Len(connections) - 1 :
            connections'[k] = IF k < d THEN connections[k] ELSE connections[k + 1]
  BY <1>1, Removed DEF FeedInv, ListsOK
<1>3. ListsOK'
  <2> DEFINE old(k) == IF k < d THEN k ELSE k + 1
  <2>1. listeners' = listeners /\ opened' = opened
    BY DEF Disconnect
  <2>2. \A k \in DOMAIN connections' :
          old(k) \in DOMAIN connections /\ connections'[k] = connections[old(k)]
    BY <1>2 DEF FeedInv, ListsOK
  <2>3. \A i, j \in DOMAIN connections' : old(i) = old(j) => i = j
    BY <1>2
  <2>4. Len(connections') <= listeners'
    BY <1>2, <2>1 DEF FeedInv, ListsOK
  <2> HIDE DEF old
  <2>5. /\ \A i \in DOMAIN connections' : connections'[i] \in opened'
        /\ \A i, j \in DOMAIN connections' : connections'[i] = connections'[j] => i = j
    BY <2>1, <2>2, <2>3 DEF FeedInv, ListsOK
  <2>6. QED
    BY <1>2, <2>1, <2>4, <2>5 DEF FeedInv, ListsOK
<1>4. \A e \in stayed' : \E i \in DOMAIN connections' : connections'[i] = e
  <2> SUFFICES ASSUME NEW e \in stayed'
               PROVE  \E i \in DOMAIN connections' : connections'[i] = e
    OBVIOUS
  <2>1. e \in stayed /\ e # c
    BY DEF Disconnect
  <2>2. PICK i \in DOMAIN connections : connections[i] = e
    BY <2>1 DEF FeedInv, WalkOK
  <2>3. i # d
    BY <1>1, <2>1, <2>2
  <2>4. CASE i < d
    BY <1>1, <1>2, <2>2, <2>4 DEF FeedInv, ListsOK
  <2>5. CASE i > d
    <3>1. i - 1 \in DOMAIN connections' /\ connections'[i - 1] = e
      BY <1>1, <1>2, <2>2, <2>5 DEF FeedInv, ListsOK
    <3>2. QED
      BY <3>1
  <2>6. QED
    BY <1>1, <2>3, <2>4, <2>5 DEF FeedInv, ListsOK
<1>5. ASSUME current' # NoUpdate, NEW k \in DOMAIN connections', Waits(k)'
      PROVE  Len(connections') + listener' + (IF k < position' THEN 1 ELSE 0)
               <= listeners' + 1
  <2>1. /\ current # NoUpdate /\ listener' = listener /\ position' = position
        /\ listeners' = listeners /\ reached' = reached /\ stayed' \subseteq stayed
    BY <1>5 DEF Disconnect, deliveryVars
  <2>2a. /\ DOMAIN connections = 1 .. Len(connections) /\ Len(connections) \in Nat
        /\ k \in 1 .. Len(connections) - 1
    <3>1. connections \in Seq(Clients) /\ connections' \in Seq(Clients)
      BY <1>2 DEF FeedInv, ListsOK
    <3>2. DOMAIN connections' = 1 .. Len(connections')
      BY <3>1
    <3>3. QED
      BY <1>2, <3>1, <3>2
  <2>2b. connections'[k] = IF k < d THEN connections[k] ELSE connections[k + 1]
    BY <1>2, <2>2a
  <2>2c. k \in DOMAIN connections /\ k + 1 \in DOMAIN connections
    BY <2>2a
  <2>2. PICK i \in DOMAIN connections :
          i \in {k, k + 1} /\ connections'[k] = connections[i]
    <3>1. CASE k < d
      BY <2>2b, <2>2c, <3>1
    <3>2. CASE ~(k < d)
      BY <2>2b, <2>2c, <3>2
    <3>3. QED
      BY <3>1, <3>2
  <2>3. Waits(i)
    BY <1>5, <2>1, <2>2 DEF Waits
  <2>4. Len(connections) + listener + (IF i < position THEN 1 ELSE 0) <= listeners + 1
    BY <2>1, <2>3 DEF FeedInv, WalkOK
  <2>5. QED
    BY <1>2, <2>1, <2>2, <2>4 DEF FeedInv, ListsOK, WalkOK
<1>6. QED
  BY <1>3, <1>4, <1>5 DEF FeedInv, ListsOK, WalkOK, Disconnect, deliveryVars

LEMMA FeedStep == FeedInv /\ [Next]_vars => FeedInv'
<1> SUFFICES ASSUME FeedInv, [Next]_vars PROVE FeedInv'
  OBVIOUS
<1>1. CASE UNCHANGED vars
  BY <1>1 DEF FeedInv, ListsOK, WalkOK, Waits, vars, serviceVars, deliveryVars
<1>2. CASE \E c \in Clients : Connect(c) \/ Disconnect(c)
  BY <1>2, ConnectKeepsInv, DisconnectKeepsInv
<1>3. QED
  BY <1>1, <1>2, ServiceKeepsInv, WalkKeepsInv DEF Next

\* The lists and the walk are as FeedInv says in every reachable state.
THEOREM FeedInvariant == Spec => []FeedInv
  BY FeedInit, FeedStep, PTL DEF Spec

\* When the listeners have all been called, nobody waits: the last of them came to every
\* position that was left.
THEOREM EveryUpdateReachesClients == Spec => UpdatesReachClients
<1>1. FeedInv /\ Notified => stayed \subseteq reached
  BY DEF FeedInv, ListsOK, WalkOK, Waits, Notified
<1>2. FeedInv /\ [Next]_vars => [Notified => stayed \subseteq reached]_vars
  BY <1>1
<1>3. QED
  BY <1>2, FeedInvariant, PTL DEF Spec, UpdatesReachClients

-----------------------------------------------------------------------------
(* The prices *)

\* What is kept of a symbol: nothing of any exchange, or an update at least as new as
\* that of each exchange.
KeptOK(s) ==
    \/ latest[s] = NoUpdate /\ \A e \in Exchanges : byExchange[e][s] = NoUpdate
    \/ /\ latest[s] # NoUpdate
       /\ latest[s].n <= count
       /\ \E e \in Exchanges : byExchange[e][s] # NoUpdate
       /\ \A e \in Exchanges :
             byExchange[e][s] # NoUpdate => byExchange[e][s].n <= latest[s].n

PricesInv ==
    /\ count \in 0..MaxUpdates
    /\ latest \in [Tracked -> Updates \cup {NoUpdate}]
    /\ byExchange \in [Exchanges -> [Tracked -> Updates \cup {NoUpdate}]]
    /\ \A s \in Tracked : KeptOK(s)
    /\ current # NoUpdate => current \in Updates /\ latest[current.symbol] = current

LEMMA PricesInit == Init => PricesInv
  BY BoundsAssumption DEF Init, PricesInv, KeptOK, Exchanges

\* An update is the newest so far.
LEMMA UpdateKeepsPrices ==
    ASSUME PricesInv, OnPriceUpdate
    PROVE  PricesInv'
<1> DEFINE s0 == Head(batch)
           update == [symbol |-> s0, exchange |-> service, n |-> count + 1]
<1>1. /\ s0 \in Tracked /\ service \in Exchanges /\ count < MaxUpdates
      /\ byExchange' = [byExchange EXCEPT ![service][s0] = update]
      /\ latest' = [latest EXCEPT ![s0] = update]
      /\ current' = update /\ count' = count + 1
  BY DEF OnPriceUpdate, PriceOf
<1>2. update \in Updates /\ update # NoUpdate /\ update.n = count + 1 /\ update.symbol = s0
  BY <1>1, BoundsAssumption, NoUpdateAssumption DEF PricesInv, Updates
<1> HIDE DEF update, s0
<1>3. /\ count' \in 0..MaxUpdates
      /\ latest' \in [Tracked -> Updates \cup {NoUpdate}]
      /\ byExchange' \in [Exchanges -> [Tracked -> Updates \cup {NoUpdate}]]
  BY <1>1, <1>2, BoundsAssumption DEF PricesInv
<1>4. ASSUME NEW s \in Tracked PROVE KeptOK(s)'
  <2>1. CASE s = s0
    <3>1. latest'[s] = update /\ byExchange'[service][s] = update
      BY <1>1, <2>1 DEF PricesInv
    <3>2. ASSUME NEW e \in Exchanges, byExchange'[e][s] # NoUpdate
          PROVE  byExchange'[e][s].n <= count + 1
      <4>1. CASE e = service
        BY <1>2, <3>1, <4>1 DEF PricesInv
      <4>2. CASE e # service
        <5>1. byExchange'[e][s] = byExchange[e][s]
          BY <1>1, <4>2 DEF PricesInv
        <5>2. KeptOK(s)
          BY DEF PricesInv
        <5>3. byExchange[e][s] \in Updates /\ (latest[s] # NoUpdate => latest[s] \in Updates)
          BY <3>2, <5>1 DEF PricesInv
        <5>4. QED
          BY <3>2, <5>1, <5>2, <5>3, BoundsAssumption DEF KeptOK, Updates, PricesInv
      <4>3. QED
        BY <4>1, <4>2
    <3>3. QED
      BY <1>1, <1>2, <3>1, <3>2 DEF KeptOK, PricesInv
  <2>2. CASE s # s0
    <3>1. latest'[s] = latest[s] /\ \A e \in Exchanges : byExchange'[e][s] = byExchange[e][s]
      BY <1>1, <2>2 DEF PricesInv
    <3>2. KeptOK(s) /\ (latest[s] # NoUpdate => latest[s] \in Updates)
      BY DEF PricesInv
    <3>3. QED
      BY <1>1, <3>1, <3>2, BoundsAssumption DEF KeptOK, PricesInv, Updates
  <2>3. QED
    BY <2>1, <2>2
<1>5. current' # NoUpdate => current' \in Updates /\ latest'[current'.symbol] = current'
  BY <1>1, <1>2 DEF PricesInv
<1>6. QED
  BY <1>3, <1>4, <1>5 DEF PricesInv

LEMMA PricesStepKeeps == PricesInv /\ [Next]_vars => PricesInv'
<1> SUFFICES ASSUME PricesInv, [Next]_vars PROVE PricesInv'
  OBVIOUS
<1>1. CASE OnPriceUpdate
  BY <1>1, UpdateKeepsPrices
<1>2. ASSUME UNCHANGED <<count, latest, byExchange>>, current' \in {current, NoUpdate}
      PROVE  PricesInv'
  BY <1>2 DEF PricesInv, KeptOK
<1>3. CASE Next /\ ~OnPriceUpdate
  <2>1. UNCHANGED <<count, latest, byExchange>> /\ current' \in {current, NoUpdate}
    BY <1>3 DEF Next, Start, Stop, RefreshSpot, RefreshFutures, RefreshFails, Skip,
         Refreshed, Wake, Broadcast, NextListener, Notified, Connect, Disconnect,
         serviceVars, deliveryVars
  <2>2. QED
    BY <1>2, <2>1
<1>4. CASE UNCHANGED vars
  BY <1>2, <1>4 DEF vars, serviceVars, deliveryVars
<1>5. QED
  BY <1>1, <1>3, <1>4

\* Without an exchange a reader has the newest price of all, the one that is being handed
\* on included.
THEOREM LatestPriceIsNewest == Spec => []LatestIsNewest
<1>1. PricesInv => LatestIsNewest
  <2> SUFFICES ASSUME PricesInv, NEW s \in Tracked
               PROVE  LET prices == {GetPrice(s, e) : e \in Exchanges} \ {NoUpdate} IN
                      /\ (prices = {}) <=> (GetPrice(s, "any") = NoUpdate)
                      /\ \A p \in prices : p.n <= GetPrice(s, "any").n
                      /\ current # NoUpdate /\ current.symbol = s => GetPrice(s, "any") = current
    BY DEF LatestIsNewest
  <2>1. /\ GetPrice(s, "any") = latest[s]
        /\ \A e \in Exchanges : GetPrice(s, e) = byExchange[e][s]
    BY DEF GetPrice, Exchanges
  <2>2. KeptOK(s)
    BY DEF PricesInv
  <2>3. QED
    BY <2>1, <2>2 DEF PricesInv, KeptOK
<1>2. QED
  BY <1>1, PricesInit, PricesStepKeeps, PTL DEF Spec

-----------------------------------------------------------------------------
(* The types *)

\* What TypeOK has besides the lists and the prices.
FeedTyped ==
    /\ service \in {"new", "spot", "futures", "asleep", "stopped"} \cup Exchanges
    /\ batch \in Seq(Symbols)
    /\ current # NoUpdate => service \in Exchanges
    /\ listener \in Nat /\ position \in Nat
    /\ stayed \cup reached \subseteq opened

FullInv == FeedInv /\ PricesInv /\ FeedTyped

LEMMA FullInit == Init => FullInv
<1> SUFFICES ASSUME Init PROVE FullInv
  OBVIOUS
<1>1. FeedTyped
  BY DEF Init, FeedTyped
<1>2. QED
  BY <1>1, FeedInit, PricesInit DEF FullInv

LEMMA FullStep == FullInv /\ [Next]_vars => FullInv'
<1> SUFFICES ASSUME FullInv, [Next]_vars PROVE FullInv'
  OBVIOUS
<1>1. FeedInv' /\ PricesInv'
  BY FeedStep, PricesStepKeeps DEF FullInv
<1>2. FeedTyped'
  <2>1. CASE Start \/ Stop \/ RefreshFails \/ Refreshed \/ Wake
    <3>1. CASE Start \/ Wake
      BY <3>1 DEF FullInv, FeedTyped, FeedInv, WalkOK, Start, Wake, deliveryVars, Exchanges
    <3>2. CASE Refreshed
      BY <3>2 DEF FullInv, FeedTyped, Refreshed, deliveryVars
    <3>3. CASE RefreshFails
      BY <3>3 DEF FullInv, FeedTyped, RefreshFails, deliveryVars
    <3>4. CASE Stop
      BY <3>4 DEF FullInv, FeedTyped, Stop
    <3>5. QED
      BY <2>1, <3>1, <3>2, <3>3, <3>4
  <2>2. CASE RefreshSpot \/ RefreshFutures
    <3>1. batch' \in Seq(Symbols)
      <4>1. PICK n \in 0 .. MaxBatch : batch' \in [1 .. n -> Symbols]
        BY <2>2 DEF RefreshSpot, RefreshFutures, Batches
      <4>2. n \in Nat
        BY BoundsAssumption
      <4>3. QED
        BY <4>1, <4>2
    <3>2. /\ UNCHANGED <<deliveryVars, opened, stayed>>
          /\ service' \in Exchanges
      BY <2>2 DEF RefreshSpot, RefreshFutures, Exchanges
    <3>3. QED
      BY <3>1, <3>2 DEF FullInv, FeedTyped, deliveryVars
  <2>3. CASE Skip
    <3>1. batch' \in Seq(Symbols)
      BY <2>3 DEF FullInv, FeedTyped, Skip
    <3>2. QED
      BY <2>3, <3>1 DEF FullInv, FeedTyped, Skip, deliveryVars
  <2>4. CASE OnPriceUpdate
    <3>1. batch' \in Seq(Symbols) /\ service' = service /\ service \in Exchanges
      BY <2>4 DEF FullInv, FeedTyped, OnPriceUpdate
    <3>2. /\ listener' \in Nat /\ position' \in Nat
          /\ stayed' = Range(connections) /\ reached' = {} /\ opened' = opened
      BY <2>4 DEF OnPriceUpdate
    <3>3. Range(connections) \subseteq opened
      BY DEF FullInv, FeedInv, ListsOK, Range
    <3>4. QED
      BY <3>1, <3>2, <3>3 DEF FeedTyped
  <2>5. CASE Broadcast
    <3>1. position \in 1 .. Len(connections)
      BY <2>5 DEF FullInv, FeedInv, WalkOK, FeedTyped, Broadcast
    <3>2. connections[position] \in opened
      BY <3>1 DEF FullInv, FeedInv, ListsOK
    <3>3. QED
      BY <2>5, <3>1, <3>2 DEF FullInv, FeedTyped, Broadcast, serviceVars
  <2>6. CASE NextListener \/ Notified
    BY <2>6 DEF FullInv, FeedTyped, NextListener, Notified, serviceVars
  <2>7. ASSUME NEW c \in Clients, Connect(c) \/ Disconnect(c)
        PROVE  FeedTyped'
    BY <2>7 DEF FullInv, FeedTyped, Connect, Disconnect, serviceVars, deliveryVars
  <2>8. CASE UNCHANGED vars
    BY <2>8 DEF FullInv, FeedTyped, vars, serviceVars, deliveryVars
  <2>9. QED
    BY <2>1, <2>2, <2>3, <2>4, <2>5, <2>6, <2>7, <2>8 DEF Next
<1>3. QED
  BY <1>1, <1>2 DEF FullInv

LEMMA FullTypes == FullInv => TypeOK
<1> SUFFICES ASSUME FullInv PROVE TypeOK
  OBVIOUS
<1>1. Range(connections) \subseteq opened
  BY DEF FullInv, FeedInv, ListsOK, Range
<1>2. IsInjective(connections)
  BY DEF FullInv, FeedInv, ListsOK, IsInjective
<1>3. QED
  BY <1>1, <1>2 DEF FullInv, FeedInv, ListsOK, PricesInv, FeedTyped, TypeOK

\* Every variable of the feed has its type.
THEOREM FeedTypeCorrectness == Spec => []TypeOK
  BY FullInit, FullStep, FullTypes, PTL DEF Spec

=============================================================================
