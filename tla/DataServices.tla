------------------------------ MODULE DataServices ------------------------------
(***************************************************************************)
(* The three data services of the process: the price feed, the news        *)
(* monitor and the coin descriptions.  They share no state (coin           *)
(* descriptions only ask whether there is a price), so that a behaviour is *)
(* one of one of them and a run explores their sum, not their product.     *)
(***************************************************************************)
EXTENDS MarketFeed

\* What NewsMonitor and CoinInfo are instantiated with, where it is explained.
CONSTANTS
    NewsSymbols, TradingAssets, Topics, ToolTopics, Articles, Mentions,
    NewsClients, Wanted, Tails, HistorySize, SeenLimit, SeenKept,
    MaxFound, MaxBroadcasts, MaxCommands

CONSTANTS
    CoinSymbols, Assets, KnownIds, Listed, Renamed, Requests, Asks, Delay,
    CoinFaults, CoinRestarts

VARIABLES
    running, loops, tasks, keywords, tracked, seen, history, log, forgotten,
    client, snapshot, joined, queue, got, dropped, inbox, commands, replaced
newsVars == <<running, loops, tasks, keywords, tracked, seen, history, log, forgotten,
              client, snapshot, joined, queue, got, dropped, inbox, commands, replaced>>

VARIABLES
    db, file, ids, priced, age, pc, wish, left, todo, needs, failed, answer, own,
    faults, restarts
coinsVars == <<db, file, ids, priced, age, pc, wish, left, todo, needs, failed, answer,
               own, faults, restarts>>

VARIABLE part  \* which of the three this behaviour is about

News == INSTANCE NewsMonitor WITH Symbols <- NewsSymbols, Clients <- NewsClients

Coins == INSTANCE CoinInfo
    WITH Symbols <- CoinSymbols, MaxFaults <- CoinFaults, MaxRestarts <- CoinRestarts

ASSUME ParametersAssumption == News!Parameters /\ Coins!Parameters

-----------------------------------------------------------------------------

dataVars == <<vars, newsVars, coinsVars, part>>

DataInit ==
    /\ part \in {"prices", "news", "coins"}
    /\ Init /\ News!Init
    /\ Coins!Init /\ (part # "coins" => file = Coins!Blank)

PricesStep(A) == part = "prices" /\ A /\ UNCHANGED <<newsVars, coinsVars, part>>
NewsStep(A) == part = "news" /\ A /\ UNCHANGED <<vars, coinsVars, part>>
CoinsStep(A) == part = "coins" /\ A /\ UNCHANGED <<vars, newsVars, part>>

DataNext == PricesStep(Next) \/ NewsStep(News!Next) \/ CoinsStep(Coins!Next)

\* What each of the three is owed, while it is the one that runs.
DataFairness ==
    /\ WF_dataVars(NewsStep(News!EndLoop)) /\ WF_dataVars(NewsStep(News!RunTask))
    /\ WF_dataVars(CoinsStep(Coins!Tick))
    /\ \A t \in Coins!Tasks : WF_dataVars(CoinsStep(Coins!Step(t)))

DataSpec == DataInit /\ [][DataNext]_dataVars /\ DataFairness

-----------------------------------------------------------------------------
(* The properties of the modules, where they are explained; those of MarketFeed are here *)
(* under their own names                                                                 *)

\* Each service's state has its type.
TypesOK == TypeOK /\ News!TypeOK /\ Coins!TypeOK

\* A connected news client misses no broadcast.
NewsReachesClients == News!NewsReachesClients

\* No client is shown an article twice.
NewsIsNotRepeated == News!NewsIsNotRepeated

\* What a connected client asked for is searched for.
SymbolsAreSearched == News!SymbolsAreSearched

\* A stopped news monitor has no loop in the end.
StoppedMonitorRests == News!StoppedMonitorRests

\* One task's requests to CoinGecko are spaced.
OwnRequestsAreSpaced == Coins!OwnRequestsAreSpaced

\* The initialisation of the coins ends with every asset known, when coins run.
CoinsAreInitialized ==
    (part = "coins" /\ pc["init"] = "new") ~> Coins!Initialized

=============================================================================
