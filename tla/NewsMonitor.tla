------------------------------ MODULE NewsMonitor ------------------------------
(***************************************************************************)
(* The news monitor and its WebSocket clients (ws/news/monitor.py, the     *)
(* route /ws/news, the tools start_ and stop_news_monitoring).             *)
(*                                                                         *)
(* A check of the monitor and the broadcast of what it found are one step: *)
(* nothing in them waits, as nobody sets a review callback and the queues  *)
(* are unbounded.  Likewise a client is subscribed and its snapshot taken  *)
(* in one step.                                                            *)
(***************************************************************************)
EXTENDS Integers, FiniteSets, Sequences, SequencesExt, Selection

CONSTANTS
    Symbols,        \* assets
    TradingAssets,  \* those the settings track
    Topics,         \* the keywords at start: sets of symbols, {} for a general one
    ToolTopics,     \* the keywords the agent's tool sets in their place
    Articles,       \* urls
    Mentions,       \* the symbols each article's text mentions
    Clients,        \* WebSocket clients
    Wanted,         \* the symbols each one asks for, {} for all news
    Tails,          \* how many articles it takes at once
    HistorySize,    \* articles kept per symbol
    SeenLimit,      \* seen urls before they are trimmed
    SeenKept,       \* and after
    MaxFound,       \* bound: articles found by one check
    MaxBroadcasts,  \* bound: broadcasts
    MaxCommands     \* bound: calls of the tools

\* What the constants are.
Parameters ==
    /\ TradingAssets \subseteq Symbols
    /\ Topics \cup ToolTopics \subseteq SUBSET Symbols
    /\ Mentions \in [Articles -> SUBSET Symbols]
    /\ Wanted \in [Clients -> SUBSET Symbols] /\ Tails \in [Clients -> Nat \ {0}]
    /\ {HistorySize, MaxFound, MaxBroadcasts, MaxCommands} \subseteq Nat
    /\ SeenLimit \in Nat /\ SeenKept \in 0..SeenLimit

VARIABLES
    running,   \* whether the monitor is to run
    loops,     \* how many loops there are, asleep between two rounds
    tasks,     \* starts and stops of the tools that have not run yet
    keywords,  \* what is searched for
    tracked,   \* symbols that are recognised in an article
    seen,      \* urls found before
    history,   \* per symbol, the latest articles
    log,       \* history: the broadcasts, each a sequence of items
    client,    \* where a client's handler is
    snapshot,  \* the articles of its snapshot
    joined,    \* how many broadcasts there were then
    queue,     \* the broadcasts it has to be sent
    got,       \* those it was sent
    dropped,   \* those its handler took from the queue and lost
    inbox,     \* whether it has said something that was not read
    commands,  \* how often the tools were called
    forgotten, \* history: urls that were trimmed from seen
    replaced   \* history: clients connected when a tool replaced the keywords

monitorVars == <<running, loops, tasks, keywords, tracked, seen, history, log, forgotten>>
clientVars == <<client, snapshot, joined, queue, got, dropped, inbox>>
vars == <<monitorVars, clientVars, commands, replaced>>

\* An article with the symbols it was tagged with.
Items == [url : Articles, tags : SUBSET Symbols]

Subscribers == {c \in Clients : client[c] \in {"idle", "sending"}}

TypeOK ==
    /\ running \in BOOLEAN
    /\ loops \in Nat
    /\ running => loops > 0
    /\ tasks \in Seq({"start", "stop"})
    /\ keywords \subseteq SUBSET Symbols
    /\ TradingAssets \subseteq tracked /\ tracked \subseteq Symbols
    /\ seen \subseteq Articles /\ Cardinality(seen) <= SeenLimit
    /\ \A s \in Symbols : Len(history[s]) <= HistorySize
    /\ \A i \in DOMAIN log : Range(log[i]) \subseteq Items
    /\ client \in [Clients -> {"out", "idle", "sending", "gone"}]
    /\ \A c \in Clients : Range(queue[c]) \cup got[c] \cup dropped[c] \subseteq DOMAIN log
    /\ inbox \in [Clients -> 0..1]

Init ==
    /\ running = FALSE
    /\ loops = 0
    /\ tasks = <<>>
    /\ keywords = Topics
    /\ tracked = TradingAssets
    /\ seen = {}
    /\ history = [s \in Symbols |-> <<>>]
    /\ log = <<>>
    /\ client = [c \in Clients |-> "out"]
    /\ snapshot = [c \in Clients |-> {}]
    /\ joined = [c \in Clients |-> 0]
    /\ queue = [c \in Clients |-> <<>>]
    /\ got = [c \in Clients |-> {}]
    /\ dropped = [c \in Clients |-> {}]
    /\ inbox = [c \in Clients |-> 0]
    /\ commands = 0
    /\ forgotten = {}
    /\ replaced = {}

Latest(seq, n) == IF Len(seq) <= n THEN seq ELSE SubSeq(seq, Len(seq) - n + 1, Len(seq))

-----------------------------------------------------------------------------
(* The monitor *)

\* start, in a process where it may be running: a loop that still sleeps stays.
StartMonitor ==
    /\ running' = TRUE
    /\ loops' = IF running THEN loops ELSE loops + 1

\* search_news_by_keywords finds what has one of the words, or anything for a
\* general keyword.
FoundBy(url, keyword) == keyword = {} \/ Mentions[url] \cap keyword # {}

\* _extract_symbols: every tracked word of the keyword counts, mentioned or not.
Tags(url, keyword) == (keyword \cup Mentions[url]) \cap tracked

\* The articles one check may come to: each not seen before, found by a keyword.
MutFreshNews ==
    UNION {[1..n -> {[url |-> u, tags |-> Tags(u, k)] : u \in Articles, k \in keywords}] : n \in 0..MaxFound}
FreshNews ==
    LET found == {p \in (Articles \ seen) \X keywords : FoundBy(p[1], p[2])}
        items == {[url |-> p[1], tags |-> Tags(p[1], p[2])] : p \in found}
    IN {news \in UNION {[1..n -> items] : n \in 0..MaxFound} :
            \A i, j \in DOMAIN news : news[i].url = news[j].url => i = j}

Urls(news) == {item.url : item \in Range(news)}

\* The seen urls are an unordered set: which ones are kept is arbitrary.
MutTrimmed(urls) == {urls}
Trimmed(urls) ==
    IF Cardinality(urls) <= SeenLimit THEN {urls}
    ELSE {kept \in SUBSET urls : Cardinality(kept) = SeenKept}

\* _store_history.
Stored(news) ==
    [s \in Symbols |->
        LET tagged == Selected(news, {item \in Range(news) : s \in item.tags})
        IN Latest(history[s] \o [i \in DOMAIN tagged |-> tagged[i].url], HistorySize)]

\* A round of a loop: _check_new_news, and _broadcast if there is news.
Poll ==
    /\ loops > 0 /\ running
    /\ \E news \in FreshNews : \E kept \in Trimmed(seen \cup Urls(news)) :
          /\ seen' = kept
          /\ forgotten' = forgotten \cup ((seen \cup Urls(news)) \ kept)
          /\ IF news = <<>> THEN UNCHANGED <<history, log, queue>>
             ELSE /\ Len(log) < MaxBroadcasts
                  /\ history' = Stored(news)
                  /\ log' = Append(log, news)
                  /\ queue' = [c \in Clients |->
                        IF c \in Subscribers THEN Append(queue[c], Len(log) + 1)
                        ELSE queue[c]]
    /\ UNCHANGED <<running, loops, tasks, keywords, tracked, client, snapshot, joined,
                   got, dropped, inbox, commands, replaced>>

\* A loop that wakes up in a stopped monitor ends.
MutEndLoop == loops > 0 /\ ~running /\ UNCHANGED vars
EndLoop ==
    /\ loops > 0 /\ ~running
    /\ loops' = loops - 1
    /\ UNCHANGED <<running, tasks, keywords, tracked, seen, history, log, forgotten,
                   clientVars, commands, replaced>>

-----------------------------------------------------------------------------
(* The agent's tools: start and stop run as tasks, after the call *)

StartNewsMonitoring ==
    /\ commands < MaxCommands
    /\ commands' = commands + 1
    /\ keywords' = ToolTopics
    /\ replaced' = replaced \cup Subscribers
    /\ tasks' = IF running THEN tasks ELSE Append(tasks, "start")
    /\ UNCHANGED <<running, loops, tracked, seen, history, log, forgotten, clientVars>>

StopNewsMonitoring ==
    /\ commands < MaxCommands
    /\ commands' = commands + 1
    /\ tasks' = Append(tasks, "stop")
    /\ UNCHANGED <<running, loops, keywords, tracked, seen, history, log, forgotten,
                   clientVars, replaced>>

RunTask ==
    /\ tasks # <<>>
    /\ tasks' = Tail(tasks)
    /\ IF Head(tasks) = "start" THEN StartMonitor ELSE running' = FALSE /\ UNCHANGED loops
    /\ UNCHANGED <<keywords, tracked, seen, history, log, forgotten, clientVars,
                   commands, replaced>>

-----------------------------------------------------------------------------
(* A client *)

\* ensure_symbols: what no keyword names becomes one.
MutEnsureSymbols(symbols) == keywords \cup {{s} : s \in symbols \ tracked}
EnsureSymbols(symbols) == keywords \cup {{s} : s \in symbols \ UNION keywords}

\* get_asset_news_snapshot.
SnapshotOf(c) ==
    UNION {Range(Latest(history[s], Tails[c])) :
            s \in IF Wanted[c] = {} THEN tracked ELSE Wanted[c]}

\* What a client is shown of one broadcast: _filter_news_message, its last Tails of the
\* wanted articles.
Filtered(c, news) ==
    LET wanted == {item \in Range(news) : Wanted[c] = {} \/ item.tags \cap Wanted[c] # {}}
    IN  Latest(Selected(news, wanted), Tails[c])

\* websocket_news up to its first send.
Connect(c) ==
    /\ client[c] = "out"
    /\ tracked' = tracked \cup Wanted[c]
    /\ keywords' = EnsureSymbols(Wanted[c])
    /\ StartMonitor
    /\ snapshot' = [snapshot EXCEPT ![c] = SnapshotOf(c)]
    /\ joined' = [joined EXCEPT ![c] = Len(log)]
    /\ client' = [client EXCEPT ![c] = "sending"]
    /\ UNCHANGED <<tasks, seen, history, log, forgotten, queue, got, dropped, inbox,
                   commands, replaced>>

Sent(c) ==
    /\ client[c] = "sending"
    /\ client' = [client EXCEPT ![c] = "idle"]
    /\ UNCHANGED <<monitorVars, snapshot, joined, queue, got, dropped, inbox, commands,
                   replaced>>

\* The handler waits for a broadcast and for the client; when both are there it looks
\* at one, and the other may have been taken already.
MutDeliver(c) ==
    /\ client[c] = "idle"
    /\ queue[c] # <<>>
    /\ queue' = [queue EXCEPT ![c] = <<>>]
    /\ got' = [got EXCEPT ![c] = @ \cup {Head(queue[c])}]
    /\ client' = [client EXCEPT ![c] = "sending"]
    /\ inbox' = inbox
    /\ UNCHANGED <<monitorVars, snapshot, joined, dropped, commands, replaced>>
Deliver(c) ==
    /\ client[c] = "idle"
    /\ queue[c] # <<>>
    /\ queue' = [queue EXCEPT ![c] = Tail(@)]
    /\ got' = [got EXCEPT ![c] = @ \cup {Head(queue[c])}]
    /\ client' = [client EXCEPT ![c] = "sending"]
    /\ inbox' \in {inbox, [inbox EXCEPT ![c] = 0]}
    /\ UNCHANGED <<monitorVars, snapshot, joined, dropped, commands, replaced>>

Answer(c) ==
    /\ client[c] = "idle"
    /\ inbox[c] > 0
    /\ inbox' = [inbox EXCEPT ![c] = 0]
    /\ \/ UNCHANGED <<queue, dropped>>
       \/ /\ queue[c] # <<>>
          /\ queue' = [queue EXCEPT ![c] = Tail(@)]
          /\ dropped' = [dropped EXCEPT ![c] = @ \cup {Head(queue[c])}]
    /\ client' = [client EXCEPT ![c] = "sending"]
    /\ UNCHANGED <<monitorVars, snapshot, joined, got, commands, replaced>>

Say(c) ==
    /\ client[c] \in {"idle", "sending"}
    /\ inbox[c] = 0
    /\ inbox' = [inbox EXCEPT ![c] = 1]
    /\ UNCHANGED <<monitorVars, client, snapshot, joined, queue, got, dropped, commands,
                   replaced>>

Leave(c) ==
    /\ client[c] \in {"idle", "sending"}
    /\ client' = [client EXCEPT ![c] = "gone"]
    /\ UNCHANGED <<monitorVars, snapshot, joined, queue, got, dropped, inbox, commands,
                   replaced>>

-----------------------------------------------------------------------------

Next ==
    \/ Poll \/ EndLoop \/ StartNewsMonitoring \/ StopNewsMonitoring \/ RunTask
    \/ \E c \in Clients :
          Connect(c) \/ Sent(c) \/ Deliver(c) \/ Answer(c) \/ Say(c) \/ Leave(c)

\* Sleeps and tasks of the event loop end.
Fairness == WF_vars(EndLoop) /\ WF_vars(RunTask)
Spec == Init /\ [][Next]_vars /\ Fairness

-----------------------------------------------------------------------------
(* Properties *)

\* Between its snapshot and now a client misses no broadcast: each is sent, in order,
\* or waits, or was lost when the client spoke at the same moment.
NewsReachesClients ==
    \A c \in Subscribers :
        /\ joined[c] + 1 .. Len(log) = got[c] \cup Range(queue[c]) \cup dropped[c]
        /\ \A i \in got[c], j \in Range(queue[c]) : i < j
        /\ \A k \in 2..Len(queue[c]) : queue[c][k - 1] < queue[c][k]

\* However many loops there are, a client is shown an article once, in its snapshot
\* or in one broadcast, unless the article was among those the monitor forgot.
NewsIsNotRepeated ==
    \A c \in Clients : \A i \in got[c] : \A u \in Urls(Filtered(c, log[i])) \ forgotten :
        /\ u \notin snapshot[c]
        /\ \A j \in got[c] \ {i} : u \notin Urls(log[j])

\* What a connected client asked for is searched for, until the agent's tool sets
\* other keywords.
SymbolsAreSearched ==
    \A c \in Subscribers \ replaced : Wanted[c] \subseteq tracked \cap UNION keywords

\* A monitor that was stopped and not started again has no loop in the end, even if
\* stops and starts left it several.
StoppedMonitorRests == (~running /\ loops > 0) ~> (running \/ loops = 0)

=============================================================================
