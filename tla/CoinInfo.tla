-------------------------------- MODULE CoinInfo --------------------------------
(***************************************************************************)
(* Coin descriptions: the table on file, the task that fills it when the   *)
(* application starts, the asset routes that fill it on demand, and the    *)
(* CoinGecko client whose rate limit they share (ws/services,              *)
(* ws/coingecko, _collect_tracked_assets and the asset routes).            *)
(*                                                                         *)
(* Time is counted in ticks and only relative: how long ago a request was  *)
(* sent, up to the delay of the rate limit, and how long a task has still  *)
(* to sleep.  Pauses of another kind end at some time.                     *)
(***************************************************************************)
EXTENDS Naturals, Sequences, SequencesExt, Selection

CONSTANTS
    Symbols,     \* what may be asked for
    Assets,      \* TRADING_ASSETS, a sequence
    KnownIds,    \* symbols with an id in the table of the service
    Listed,      \* symbols CoinGecko's search finds
    Renamed,     \* symbols CoinGecko describes under another symbol
    Requests,    \* calls of the asset routes
    Asks,        \* what they ask for: see Ask
    Delay,       \* ticks between two requests to CoinGecko
    MaxFaults,   \* bound: requests that fail, saves that fail, expiries
    MaxRestarts  \* bound: restarts of the process

\* A route asks for one asset that must be there, or for what there is of the tracked
\* ones, or for both: get_asset_detail, get_assets and its like, get_asset_summary.
Ask == [first : Seq(Symbols), all : BOOLEAN]

\* What the constants are.
Parameters ==
    /\ KnownIds \cup Listed \cup Renamed \cup Range(Assets) \subseteq Symbols
    /\ Assets \in Seq(Symbols) /\ IsInjective(Assets)
    /\ \A ask \in Asks : ask \in Ask /\ Len(ask.first) <= 1
    /\ {Delay, MaxFaults, MaxRestarts} \subseteq Nat

VARIABLES
    db,        \* the table: what is known of a symbol
    file,      \* the file it was last saved to
    ids,       \* symbols with an id
    priced,    \* symbols the market handler has a price of
    age,       \* ticks since the last request was sent, at most Delay
    pc,        \* where a task is
    wish,      \* the request it is about to send
    left,      \* ticks it has still to sleep for the rate limit
    todo,      \* the symbols it has still to look at
    needs,     \* whether it needs the first of them
    failed,    \* symbols the initialisation retries in its next round
    answer,    \* assets a route will return
    own,       \* history: ticks since a task's last request, at most Delay
    faults, restarts

storeVars == <<db, file, ids>>
taskVars == <<pc, wish, left, todo, needs, failed, answer>>
boundVars == <<faults, restarts>>
vars == <<storeVars, priced, age, taskVars, own, boundVars>>

Tasks == {"init"} \cup Requests
Waits == {"search", "fetch"}
Blank == [s \in Symbols |-> "none"]

\* A save opens the file, which empties it, before it writes; what cannot be read is
\* loaded as an empty table.
Torn == Blank

TypeOK ==
    /\ db \in [Symbols -> {"none", "fresh", "stale"}]
    /\ file \in [Symbols -> {"none", "fresh", "stale"}]
    /\ KnownIds \subseteq ids /\ ids \subseteq KnownIds \cup Listed
    /\ priced \subseteq Range(Assets)
    /\ age \in 0..Delay
    /\ pc \in [Tasks -> {"new", "look", "limit", "throttled", "pause", "retry",
                         "done", "refused"} \cup Waits]
    /\ \A t \in Tasks : pc[t] \in {"refused"} => t \in Requests
    /\ left \in [Tasks -> 0..Delay] /\ own \in [Tasks -> 0..Delay]
    /\ \A t \in Tasks : Range(todo[t]) \cup Range(answer[t]) \subseteq Symbols
    /\ needs \in [Tasks -> BOOLEAN]
    /\ Range(failed) \subseteq Symbols

Init ==
    /\ file \in [Symbols -> {"none", "fresh", "stale"}]
    /\ \A s \in Renamed \cup (Symbols \ (KnownIds \cup Listed)) : file[s] = "none"
    /\ db = file
    /\ ids = KnownIds
    /\ priced = {}
    /\ age = 0
    /\ pc = [t \in Tasks |-> "new"]
    /\ wish = [t \in Tasks |-> "fetch"]
    /\ left = [t \in Tasks |-> 0]
    /\ todo = [t \in Tasks |-> <<>>]
    /\ needs = [t \in Tasks |-> FALSE]
    /\ failed = <<>>
    /\ answer = [t \in Tasks |-> <<>>]
    /\ own = [t \in Tasks |-> Delay]
    /\ faults = 0 /\ restarts = 0

-----------------------------------------------------------------------------
(* Time, prices, ageing *)

Tick ==
    LET later(n) == IF n < Delay THEN n + 1 ELSE n IN
    /\ age' = later(age)
    /\ own' = [t \in Tasks |-> later(own[t])]
    /\ left' = [t \in Tasks |-> IF left[t] > 0 THEN left[t] - 1 ELSE 0]
    /\ UNCHANGED <<storeVars, priced, pc, wish, todo, needs, failed, answer, boundVars>>

PriceArrives(s) ==
    /\ priced' = priced \cup {s}
    /\ UNCHANGED <<storeVars, age, taskVars, own, boundVars>>

\* is_stale, 30 days later.
Expire(s) ==
    /\ db[s] = "fresh" /\ faults < MaxFaults
    /\ db' = [db EXCEPT ![s] = "stale"]
    /\ faults' = faults + 1
    /\ UNCHANGED <<file, ids, priced, age, taskVars, own, restarts>>

-----------------------------------------------------------------------------
(* The CoinGecko client *)

\* _rate_limit, up to its sleep if there is one; the request is sent after it.
Get(t, request) ==
    /\ wish' = [wish EXCEPT ![t] = request]
    /\ IF age < Delay
       THEN /\ pc' = [pc EXCEPT ![t] = "limit"]
            /\ left' = [left EXCEPT ![t] = Delay - age]
            /\ UNCHANGED <<age, own>>
       ELSE /\ pc' = [pc EXCEPT ![t] = request]
            /\ age' = 0
            /\ own' = [own EXCEPT ![t] = 0]
            /\ UNCHANGED left

\* The sleep is over: whoever else slept may have sent a request just now.
MutSend(t) ==
    /\ pc[t] = "limit" /\ left[t] = 0
    /\ pc' = [pc EXCEPT ![t] = wish[t]]
    /\ own' = [own EXCEPT ![t] = 0]
    /\ UNCHANGED <<storeVars, priced, age, wish, left, todo, needs, failed, answer, boundVars>>
Send(t) ==
    /\ pc[t] = "limit" /\ left[t] = 0
    /\ pc' = [pc EXCEPT ![t] = wish[t]]
    /\ age' = 0
    /\ own' = [own EXCEPT ![t] = 0]
    /\ UNCHANGED <<storeVars, priced, wish, left, todo, needs, failed, answer, boundVars>>

\* 429: a minute later the same request is sent again, past the rate limit again.
Throttled(t) ==
    /\ pc[t] \in Waits /\ faults < MaxFaults
    /\ pc' = [pc EXCEPT ![t] = "throttled"]
    /\ faults' = faults + 1
    /\ UNCHANGED <<storeVars, priced, age, wish, left, todo, needs, failed, answer, own, restarts>>

GetAgain(t) ==
    /\ pc[t] = "throttled"
    /\ Get(t, wish[t])
    /\ UNCHANGED <<storeVars, priced, todo, needs, failed, answer, boundVars>>

-----------------------------------------------------------------------------
(* MarketDataService.get_coin_info, for the first symbol a task has to look at *)

Symbol(t) == Head(todo[t])

\* What the caller does with the coin information, or with None: the initialisation
\* pauses and keeps a symbol that failed for the next round; a route refuses a missing
\* asset it needs, and leaves out the others.
MutReturned(t, found) ==
    /\ todo' = [todo EXCEPT ![t] = Tail(@)]
    /\ pc' = [pc EXCEPT ![t] = IF t = "init" THEN "pause" ELSE "look"]
    /\ needs' = [needs EXCEPT ![t] = FALSE]
    /\ UNCHANGED <<failed, answer>>
Returned(t, found) ==
    /\ todo' = [todo EXCEPT ![t] = Tail(@)]
    /\ needs' = [needs EXCEPT ![t] = FALSE]
    /\ LET shown == found /\ Symbol(t) \in priced IN
       /\ pc' = [pc EXCEPT ![t] = IF t = "init" THEN "pause"
                                  ELSE IF needs[t] /\ ~shown THEN "refused" ELSE "look"]
       /\ failed' = IF t = "init" /\ ~found THEN Append(failed, Symbol(t)) ELSE failed
       /\ answer' = IF t \in Requests /\ shown
                    THEN [answer EXCEPT ![t] = Append(@, Symbol(t))] ELSE answer

Look(t) ==
    /\ pc[t] = "look" /\ todo[t] # <<>>
    /\ \/ /\ db[Symbol(t)] = "fresh"
          /\ Returned(t, TRUE)
          /\ UNCHANGED <<age, own, wish, left>>
       \/ /\ db[Symbol(t)] # "fresh"
          /\ Get(t, IF Symbol(t) \in ids THEN "fetch" ELSE "search")
          /\ UNCHANGED <<todo, needs, failed, answer>>
    /\ UNCHANGED <<storeVars, priced, boundVars>>

\* search_coin_by_symbol has found the id: it is kept, and the coin is fetched.
Found(t) ==
    /\ pc[t] = "search"
    /\ Symbol(t) \in Listed
    /\ ids' = ids \cup {Symbol(t)}
    /\ Get(t, "fetch")
    /\ UNCHANGED <<db, file, priced, todo, needs, failed, answer, boundVars>>

NotFound(t) ==
    /\ pc[t] = "search"
    /\ Symbol(t) \notin Listed
    /\ Returned(t, FALSE)
    /\ UNCHANGED <<storeVars, priced, age, wish, left, own, boundVars>>

\* A request fails, or its answer cannot be parsed.
Fails(t) ==
    /\ pc[t] \in Waits /\ faults < MaxFaults
    /\ faults' = faults + 1
    /\ Returned(t, FALSE)
    /\ UNCHANGED <<storeVars, priced, age, wish, left, own, restarts>>

\* save_coin_info: the coin is stored under the symbol CoinGecko gives it.  A save that
\* fails has truncated the file and is only logged.
Fetched(t) ==
    /\ pc[t] = "fetch"
    /\ db' = IF Symbol(t) \in Renamed THEN db ELSE [db EXCEPT ![Symbol(t)] = "fresh"]
    /\ \/ file' = db' /\ UNCHANGED faults
       \/ file' = Torn /\ faults < MaxFaults /\ faults' = faults + 1
    /\ Returned(t, TRUE)
    /\ UNCHANGED <<ids, priced, age, wish, left, own, restarts>>

-----------------------------------------------------------------------------
(* The callers *)

\* initialize_coins, which the application starts as a task.
Initialize ==
    /\ pc["init"] = "new"
    /\ todo' = [todo EXCEPT !["init"] = Selected(Assets, {s \in Symbols : db[s] # "fresh"})]
    /\ pc' = [pc EXCEPT !["init"] = "look"]
    /\ UNCHANGED <<storeVars, priced, age, wish, left, needs, failed, answer, own, boundVars>>

\* The pause after each symbol.
Paused ==
    /\ pc["init"] = "pause"
    /\ pc' = [pc EXCEPT !["init"] = "look"]
    /\ UNCHANGED <<storeVars, priced, age, wish, left, todo, needs, failed, answer, own, boundVars>>

\* The end of a round, and the next one after a longer pause.
RoundEnds ==
    /\ pc["init"] = "look" /\ todo["init"] = <<>>
    /\ pc' = [pc EXCEPT !["init"] = IF failed = <<>> THEN "done" ELSE "retry"]
    /\ todo' = [todo EXCEPT !["init"] = failed]
    /\ failed' = <<>>
    /\ UNCHANGED <<storeVars, priced, age, wish, left, needs, answer, own, boundVars>>

Retry ==
    /\ pc["init"] = "retry"
    /\ pc' = [pc EXCEPT !["init"] = "look"]
    /\ UNCHANGED <<storeVars, priced, age, wish, left, todo, needs, failed, answer, own, boundVars>>

\* A route, and the loop of _collect_tracked_assets.
Call(r) ==
    /\ pc[r] = "new"
    /\ \E ask \in Asks :
          /\ todo' = [todo EXCEPT ![r] = ask.first \o IF ask.all THEN Assets ELSE <<>>]
          /\ needs' = [needs EXCEPT ![r] = ask.first # <<>>]
    /\ pc' = [pc EXCEPT ![r] = "look"]
    /\ UNCHANGED <<storeVars, priced, age, wish, left, failed, answer, own, boundVars>>

Answers(r) ==
    /\ pc[r] = "look" /\ todo[r] = <<>>
    /\ pc' = [pc EXCEPT ![r] = "done"]
    /\ UNCHANGED <<storeVars, priced, age, wish, left, todo, needs, failed, answer, own, boundVars>>

\* The process ends, perhaps in the middle of a save, and starts again.
Restart ==
    /\ restarts < MaxRestarts
    /\ restarts' = restarts + 1
    /\ \/ UNCHANGED file
       \/ file' = Torn /\ \E t \in Tasks : pc[t] = "fetch"
    /\ db' = file'
    /\ ids' = KnownIds
    /\ priced' = {}
    /\ age' = 0
    /\ pc' = [t \in Tasks |-> IF t = "init" THEN "new" ELSE "refused"]
    /\ left' = [t \in Tasks |-> 0]
    /\ todo' = [t \in Tasks |-> <<>>]
    /\ needs' = [t \in Tasks |-> FALSE]
    /\ failed' = <<>>
    /\ own' = [t \in Tasks |-> Delay]
    /\ UNCHANGED <<wish, answer, faults>>

-----------------------------------------------------------------------------

Step(t) ==
    \/ Look(t) \/ Send(t) \/ GetAgain(t) \/ Found(t) \/ NotFound(t) \/ Fetched(t)
    \/ t = "init" /\ (Initialize \/ Paused \/ RoundEnds \/ Retry)
    \/ t \in Requests /\ Answers(t)

Next ==
    \/ Tick \/ Restart
    \/ \E s \in Range(Assets) : PriceArrives(s) \/ Expire(s)
    \/ \E t \in Tasks : Step(t) \/ Throttled(t) \/ Fails(t)
    \/ \E r \in Requests : Call(r)

\* Requests are answered and sleeps end.
Fairness == WF_vars(Tick) /\ \A t \in Tasks : WF_vars(Step(t))
Spec == Init /\ [][Next]_vars /\ Fairness

-----------------------------------------------------------------------------
(* Properties *)

\* Whoever else sends requests, a task's own are at least Delay apart: it is only
\* different tasks whose requests may go together.
OwnRequestsAreSpaced ==
    [][\A t \in Tasks : (pc'[t] \in Waits /\ pc'[t] # pc[t]) => own[t] >= Delay]_vars

\* The initialisation ends, with every asset known, however its requests fail and
\* wherever the process dies, if CoinGecko lists them all.
Initialized == pc["init"] = "done" /\ \A s \in Range(Assets) \ Renamed : db[s] # "none"
CoinsAreInitialized == (pc["init"] = "new") ~> Initialized

=============================================================================
