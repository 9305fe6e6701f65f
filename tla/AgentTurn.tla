------------------------------- MODULE AgentTurn -------------------------------
(***************************************************************************)
(* Inside a chat turn: routing, the pipeline nodes one after the other,    *)
(* the model with its tools, and the trace of it all (agents/core/base.py, *)
(* graph_executor.py, agents/nodes).  Turns run side by side in one        *)
(* process and drive one TradingView chart through one client.             *)
(*                                                                         *)
(* An action is the code between two awaits.  A chart command is carried   *)
(* out or not, whatever its answer says.  The client and the tools turn    *)
(* every failure they know into a value, which the registry takes for a    *)
(* success: only an answer they cannot read makes the tool call fail.      *)
(*                                                                         *)
(* The chart's timeframe, which is aligned the way its symbol is, and the  *)
(* texts are left out.  The model calls only tools it is offered.          *)
(***************************************************************************)
EXTENDS AgentPlan

CONSTANTS
    Turns,      \* chat requests, each made once
    Symbols,    \* assets
    Workloads,  \* functions from Turns to requests, or to NoRequest
    NoRequest,  \* a turn that is not made
    MaxFaults   \* bound: commands the chart does not carry out or does not answer

\* What the router model writes: its words are free.
RouterAnswers == [intent : STRING, confidence : STRING, groups : SUBSET STRING,
                  clarify : BOOLEAN, indicators : BOOLEAN, risk : BOOLEAN]

\* A request: streamed or not; the assets its text and the frontend's context
\* name; whether the context locks the asset; whether the text talks of a chart,
\* of writing on it, of clearing it, of risk, of a stop; the levels it gives; a
\* trend line without coordinates; settings; what the router may answer; and, as a
\* bound, how often the model may call a tool.
Request == [stream : BOOLEAN, text : Symbols \cup {NoSymbol},
            context : Symbols \cup {NoSymbol}, locked : BOOLEAN,
            charts : BOOLEAN, writes : BOOLEAN, clears : BOOLEAN, risk : BOOLEAN,
            stop : BOOLEAN, levels : Seq({"stop", "level"}), vague : BOOLEAN,
            wants : BOOLEAN, gate : BOOLEAN,
            disabled : SUBSET {"web", "memory", "plan"}, tools : Nat,
            answers : SUBSET (RouterAnswers \cup {Unreadable})]

ASSUME WorkloadsAssumption == Workloads \subseteq [Turns -> Request \cup {NoRequest}]
ASSUME MaxFaultsAssumption == MaxFaults \in Nat

VARIABLES
    request,    \* what is asked of each turn: never changes
    pc,         \* where a turn waits
    route,      \* its intent context
    at,         \* the node it runs: an index of its plan
    attempt,    \* which attempt of that node
    script,     \* what the chart node still sends to the chart
    note,       \* what the chart node has seen and done in this attempt
    seen,       \* the status of each observed node
    facts,      \* what the observations of the nodes say
    trace,      \* the pipeline trace
    calls,      \* tool calls of the model
    chart,      \* the chart of the TradingView server
    faults,     \* how often it did not do what it was told, or not say so
    crossed,    \* history: turns for which the chart was not where they put it
    raised,     \* history: nodes whose last attempt had a failing tool call
    repeatable  \* history: turns with a failing tool call in their chart node

turnVars == <<pc, route, at, attempt, script, note, seen, facts, trace, calls>>
historyVars == <<crossed, raised, repeatable>>
vars == <<request, turnVars, chart, faults, historyVars>>

Statuses == {"completed", "degraded", "skipped"}
ChartOps == {"look", "align", "recheck", "inspect", "indicator", "reread",
             "values", "clear", "draw", "screenshot", "persist"}
NoFacts == [blocked |-> FALSE, unmet |-> FALSE, effective |-> NoSymbol,
            resolved |-> NoSymbol, rsi |-> "none", stop |-> FALSE, caution |-> "none", posture |-> "none"]
NoNote == [seen |-> NoSymbol, studied |-> FALSE, blocked |-> FALSE, aborted |-> FALSE,
           errors |-> FALSE, applied |-> {}, rsi |-> "none"]
NewTrace == [execution |-> "pending", completion |-> "pending", graph |-> "none",
             fallback |-> "none", final |-> "pending", next |-> "planned_only"]

\* The commands of the chart node, of which only drawings have an item.
Commands == ((ChartOps \ {"draw"}) \X {"none"}) \cup ({"draw"} \X {"stop", "level"})

Assets == Symbols \cup {NoSymbol}
Levels == {"none", "low", "medium", "high"}
Rsi == {"none", "calm", "extreme"}
Contexts == [intent : Intents, confidence : Levels \ {"none"}, groups : SUBSET Groups,
             clarify : BOOLEAN, indicators : BOOLEAN, risk : BOOLEAN]
Notes == [seen : Assets, studied : BOOLEAN, blocked : BOOLEAN, aborted : BOOLEAN,
          errors : BOOLEAN, applied : SUBSET Commands, rsi : Rsi]
Facts == [blocked : BOOLEAN, unmet : BOOLEAN, effective : Assets, resolved : Assets,
          rsi : Rsi, stop : BOOLEAN, caution : Levels,
          posture : {"none", "clarify", "uncertainty_aware", "cautious", "balanced",
                     "risk_first", "direct"}]
Traces == [execution : {"pending", "running", "degraded", "completed", "failed"},
           completion : {"pending", "completed", "degraded", "failed"},
           graph : {"none", "running", "completed", "degraded"},
           fallback : {"none", "low_confidence_route", "clarification_required",
                       "pipeline_node_degraded", "safe_error_response",
                       "safe_stream_error"},
           final : {"pending", "completed", "degraded", "failed"},
           next : {"planned_only", "clarification_node_completed",
                   "general_node_completed", "represented_by_pipeline_nodes",
                   "represented_by_pipeline_nodes_degraded"}]
Lines == [turn : Turns, item : {"stop", "level", "model"}, symbol : Symbols,
          attempt : 0..2]
Charts == [symbol : Symbols, studied : BOOLEAN, lines : SUBSET Lines]

NodesOf(t) == Plan(route[t], request[t])

TypeOK ==
    /\ request \in Workloads
    /\ pc \in [Turns -> {"new", "nodes", "chart", "model", "ended", "unprepared"}]
    /\ route \in [Turns -> Contexts]
    /\ at \in [Turns -> Nat] /\ \A t \in Turns : at[t] \in 1..Len(NodesOf(t)) + 1
    /\ attempt \in [Turns -> 1..2]
    /\ script \in [Turns -> Seq(Commands)]
    /\ note \in [Turns -> Notes]
    /\ DOMAIN seen = Turns
    /\ \A t \in Turns : DOMAIN seen[t] \subseteq Nodes /\ Range(seen[t]) \subseteq Statuses
    /\ facts \in [Turns -> Facts]
    /\ trace \in [Turns -> Traces]
    /\ calls \in [Turns -> Nat]
    /\ chart \in Charts
    /\ faults \in 0..MaxFaults
    /\ crossed \subseteq Turns /\ repeatable \subseteq Turns
    /\ raised \in [Turns -> SUBSET Nodes]

Init ==
    /\ request \in Workloads
    /\ pc = [t \in Turns |-> "new"]
    /\ route = [t \in Turns |-> Fallback]
    /\ at = [t \in Turns |-> 1]
    /\ attempt = [t \in Turns |-> 1]
    /\ script = [t \in Turns |-> <<>>]
    /\ note = [t \in Turns |-> NoNote]
    /\ seen = [t \in Turns |-> <<>>]
    /\ facts = [t \in Turns |-> NoFacts]
    /\ trace = [t \in Turns |-> NewTrace]
    /\ calls = [t \in Turns |-> 0]
    /\ \E s \in Symbols : chart = [symbol |-> s, studied |-> FALSE, lines |-> {}]
    /\ faults = 0
    /\ crossed = {}
    /\ raised = [t \in Turns |-> {}]
    /\ repeatable = {}

NodeOf(t) == NodesOf(t)[at[t]]
Writing(t) == WriteMode(route[t], request[t])

\* _extract_requested_symbol: the text's symbol, then the context's.
RequestedSymbol(t) ==
    IF request[t].text # NoSymbol THEN request[t].text ELSE request[t].context

-----------------------------------------------------------------------------
(* The turn begins *)

\* _route_intent: whatever the router does there is a context.
RouteIntent(t) == {Routed(answer) : answer \in request[t].answers}

\* build_pipeline_trace.
PlannedTrace(c) ==
    [NewTrace EXCEPT
        !.graph = "running",
        !.fallback = IF c.clarify THEN "clarification_required"
                     ELSE IF c.confidence = "low" THEN "low_confidence_route" ELSE @]

\* _prepare_turn: the router answers, the plan and its trace are made, the long-
\* term memory is read.  Nothing catches an error but that of the router.
Prepare(t) ==
    /\ pc[t] = "new"
    /\ request[t] # NoRequest
    /\ \E c \in RouteIntent(t) :
          /\ route' = [route EXCEPT ![t] = c]
          /\ trace' = [trace EXCEPT ![t] = PlannedTrace(c)]
    /\ pc' = [pc EXCEPT ![t] = "nodes"]
    /\ UNCHANGED <<request, at, attempt, script, note, seen, facts, calls, chart,
                   faults, historyVars>>

PrepareFails(t) ==
    /\ pc[t] = "new"
    /\ request[t] # NoRequest
    /\ pc' = [pc EXCEPT ![t] = "unprepared"]
    /\ UNCHANGED <<request, route, at, attempt, script, note, seen, facts, trace,
                   calls, chart,
                   faults, historyVars>>

-----------------------------------------------------------------------------
(* The graph executor *)

Observed(t, n) == n \in DOMAIN seen[t]

\* _preflight_plan: every dependency was observed, and not skipped.
DependenciesMet(t) ==
    \A n \in DependsOn(NodeOf(t), NodesOf(t)) :
        Observed(t, n) /\ seen[t][n] # "skipped"

\* _resolve_symbol_from_context, and _resolve_snapshot_symbol, which asks the
\* text before the context.
ChartSymbol(t) ==
    IF ~Observed(t, "chart") THEN NoSymbol
    ELSE IF facts[t].effective # NoSymbol THEN facts[t].effective
    ELSE RequestedSymbol(t)
SnapshotSymbol(t) ==
    IF ChartSymbol(t) # NoSymbol THEN ChartSymbol(t) ELSE RequestedSymbol(t)

\* The node is not run.
Skips(t) == \/ ~DependenciesMet(t)
            \/ NodeOf(t) = "market" /\ SnapshotSymbol(t) = NoSymbol

\* The observation of a node, and the next one.
Observe(t, status) ==
    /\ seen' = [seen EXCEPT ![t] = [n \in DOMAIN seen[t] \cup {NodeOf(t)} |->
                                      IF n = NodeOf(t) THEN status ELSE seen[t][n]]]
    /\ at' = [at EXCEPT ![t] = @ + 1]
    /\ attempt' = [attempt EXCEPT ![t] = 1]

SkipNode(t) ==
    /\ pc[t] = "nodes"
    /\ at[t] <= Len(NodesOf(t))
    /\ Skips(t)
    /\ Observe(t, "skipped")
    /\ UNCHANGED <<request, pc, route, script, note, facts, trace, calls, chart,
                   faults, historyVars>>

\* A degraded attempt that may be repeated is, until the attempts are used up.
MutRepeats(t, status, retryable) == status = "degraded" /\ retryable
MutRepeatsAll(t, status, retryable) == attempt[t] <= Retries(NodeOf(t))
Repeats(t, status, retryable) ==
    status = "degraded" /\ retryable /\ attempt[t] <= Retries(NodeOf(t))

\* The handler has returned.
Return(t, status, retryable) ==
    IF Repeats(t, status, retryable)
    THEN /\ attempt' = [attempt EXCEPT ![t] = IF @ < 2 THEN @ + 1 ELSE @]
         /\ UNCHANGED <<at, seen>>
    ELSE Observe(t, status)

-----------------------------------------------------------------------------
(* The nodes that only gather: their tool calls share nothing with others *)

\* ToolRegistry.execute: a call is refused when an argument is missing, as the size of
\* a position is asked for without any; it fails when the tool raises, or is no
\* coroutine.
Runs(tool) == tool \notin PlainTools \cup {"calculate_position_size"}

\* get_price reads the handler its module keeps to itself, and the price service
\* writes to that of main: no price is known.
PriceFeed == [get_price |-> "register_tools", phantom |-> "main"]

\* What a tool call of a node comes to: data, nothing, or a failing call.  A tool that
\* is switched off is not called.
CallResults(t, tool) ==
    IF tool \in BlockedByPreferences(request[t]) \/ ~Runs(tool) THEN {"error"}
    ELSE IF tool = "get_price" /\ PriceFeed.get_price # PriceFeed.phantom THEN {"nothing"}
    ELSE IF tool = "get_user_memory" THEN {"data", "error"}
    ELSE {"data", "nothing", "error"}

\* What a node comes to: its status, and whether a tool call of it failed.
Outcome(status, results) == [status |-> status, bad |-> "error" \in results]

\* Nothing is gathered, or some of it, or all.
Snapshot(results) ==
    IF "data" \notin results THEN "skipped"
    ELSE IF "error" \in results THEN "degraded" ELSE "completed"

\* What two calls come to.
BothCalls(A, B) == {Outcome(Snapshot({x, y}), {x, y}) : x \in A, y \in B}

\* The price and the headlines.
MarketOutcomes(t) ==
    BothCalls(CallResults(t, "get_price"), CallResults(t, "search_news_by_symbols"))

\* The headlines and a web search.
ResearchOutcomes(t) ==
    LET headlines == IF RequestedSymbol(t) # NoSymbol
                     THEN "search_news_by_symbols" ELSE "get_trending_news"
    IN BothCalls(CallResults(t, headlines), CallResults(t, "web_search"))

PortfolioOutcomes(t) ==
    {Outcome(Snapshot({size}), {size}) : size \in CallResults(t, "calculate_position_size")}

\* The execution gate is read from the agent.
ExecutionOutcomes == {Outcome("completed", {})}

MemoryOutcomes(t) ==
    {Outcome(IF memory = "error" THEN "degraded" ELSE "completed", {memory}) :
        memory \in CallResults(t, "get_user_memory")}

Outcomes(t) ==
    CASE NodeOf(t) = "market"    -> MarketOutcomes(t)
      [] NodeOf(t) = "research"  -> ResearchOutcomes(t)
      [] NodeOf(t) = "portfolio" -> PortfolioOutcomes(t)
      [] NodeOf(t) = "execution" -> ExecutionOutcomes
      [] NodeOf(t) = "memory"    -> MemoryOutcomes(t)

Gather(t) ==
    /\ pc[t] = "nodes"
    /\ at[t] <= Len(NodesOf(t))
    /\ NodeOf(t) \in SnapshotNodes \ {"chart"}
    /\ ~Skips(t)
    /\ \E g \in Outcomes(t) :
          /\ Return(t, g.status, g.bad)
          /\ facts' = IF \/ NodeOf(t) # "market"
                          \/ Repeats(t, g.status, g.bad)
                       THEN facts ELSE
                [facts EXCEPT ![t].resolved = SnapshotSymbol(t)]
          /\ raised' = [raised EXCEPT ![t] = IF g.bad THEN @ \cup {NodeOf(t)}
                                             ELSE @ \ {NodeOf(t)}]
    /\ UNCHANGED <<request, pc, route, script, note, trace, calls, chart, faults,
                   crossed, repeatable>>

-----------------------------------------------------------------------------
(* Risk review and composer: pure readings of the observations *)

DegradedNodes(t) == {n \in DOMAIN seen[t] : seen[t][n] = "degraded"}

\* _derive_risk_flags, with the weight of each flag; no headline ever reaches it.
RiskFlags(t) ==
    {<<"degraded_upstream_context", 3>> : n \in DegradedNodes(t)}
    \cup (IF facts[t].stop \/ request[t].stop THEN {}
          ELSE {<<"no_explicit_invalidation_observed", 3>>})
    \cup (IF facts[t].blocked THEN {<<"symbol_change_blocked", 2>>} ELSE {})
    \cup (IF facts[t].unmet THEN {<<"incomplete_chart_request", 2>>} ELSE {})
    \cup (IF facts[t].rsi = "extreme" THEN {<<"rsi", 2>>} ELSE {})
    \cup (IF Observed(t, "execution") /\ ~request[t].gate
          THEN {<<"execution_not_enabled", 1>>} ELSE {})

Caution(t) ==
    LET score == FoldSet(LAMBDA f, total : f[2] + total, 0, RiskFlags(t))
    IN IF score >= 5 THEN "high" ELSE IF score >= 2 THEN "medium" ELSE "low"

\* _collect_conflict_flags, with whether each is of high severity.
MutConflicts(t) ==
    IF facts[t].caution = "high" THEN {<<"high_risk_posture", TRUE>>} ELSE {}
Conflicts(t) ==
    {<<"degraded_upstream_context", TRUE>> : n \in DegradedNodes(t)}
    \cup (IF ChartSymbol(t) \notin {NoSymbol, facts[t].resolved}
             /\ facts[t].resolved # NoSymbol
          THEN {<<"symbol_context_mismatch", TRUE>>} ELSE {})
    \cup (IF Observed(t, "execution") /\ ~request[t].gate
          THEN {<<"execution_gate_disabled", FALSE>>} ELSE {})
    \cup (IF facts[t].caution = "high" THEN {<<"high_risk_posture", TRUE>>} ELSE {})

Posture(t) ==
    IF Observed(t, "clarification") THEN "clarify"
    ELSE IF Observed(t, "general_fallback") THEN "uncertainty_aware"
    ELSE IF \E f \in Conflicts(t) : f[2] THEN "cautious"
    ELSE IF Conflicts(t) # {} THEN "balanced"
    ELSE IF Observed(t, "risk_review") THEN "risk_first" ELSE "direct"

\* These nodes, and those that only prepare a text, always complete.
Review(t) ==
    /\ pc[t] = "nodes"
    /\ at[t] <= Len(NodesOf(t))
    /\ NodeOf(t) \notin SnapshotNodes
    /\ ~Skips(t)
    /\ Observe(t, "completed")
    /\ facts' = CASE NodeOf(t) = "risk_review" ->
                        [facts EXCEPT ![t].caution = Caution(t)]
                  [] NodeOf(t) = "composer" ->
                        [facts EXCEPT ![t].posture = Posture(t)]
                  [] OTHER -> facts
    /\ UNCHANGED <<request, pc, route, script, note, trace, calls, chart,
                   faults, historyVars>>

-----------------------------------------------------------------------------
(* The chart node *)

StartChart(t) ==
    /\ pc[t] = "nodes"
    /\ at[t] <= Len(NodesOf(t))
    /\ NodeOf(t) = "chart"
    /\ pc' = [pc EXCEPT ![t] = "chart"]
    /\ script' = [script EXCEPT ![t] = <<<<"look", "none">>>>]
    /\ note' = [note EXCEPT ![t] = NoNote]
    /\ raised' = [raised EXCEPT ![t] = @ \ {"chart"}]
    /\ UNCHANGED <<request, route, at, attempt, seen, facts, trace, calls, chart,
                   faults, crossed, repeatable>>

\* _align_workspace: the locked asset keeps its symbol.
SymbolBlocked(t, symbol) ==
    /\ RequestedSymbol(t) \notin {NoSymbol, symbol}
    /\ request[t].locked
    /\ request[t].context \notin {NoSymbol, RequestedSymbol(t)}

MutAlignment(t, symbol) ==
    IF symbol = NoSymbol \/ RequestedSymbol(t) \in {NoSymbol, symbol} THEN <<>>
    ELSE <<<<"align", "none">>, <<"recheck", "none">>>>
Alignment(t, symbol) ==
    IF RequestedSymbol(t) \in {NoSymbol, symbol} \/ SymbolBlocked(t, symbol) THEN <<>>
    ELSE <<<<"align", "none">>, <<"recheck", "none">>>>

Drawings(t) ==
    (IF request[t].clears THEN <<<<"clear", "none">>>> ELSE <<>>)
    \o [i \in 1..Len(request[t].levels) |-> <<"draw", request[t].levels[i]>>]

\* The rest of the node once it has looked: _run_write_mode, _run_analysis_mode.
Remainder(t) ==
    IF ~Writing(t) THEN <<<<"inspect", "none">>>>
    ELSE IF Drawings(t) = <<>> THEN <<>>
    ELSE Drawings(t) \o <<<<"screenshot", "none">>, <<"persist", "none">>>>

\* _run_analysis_mode: an indicator that is missing is added before the values are
\* read.
AnalysisSteps(t, studied) ==
    (IF request[t].wants /\ ~studied
     THEN <<<<"indicator", "none">>, <<"reread", "none">>>> ELSE <<>>)
    \o <<<<"values", "none">>>>

\* What an operation leaves to do: only a look that fails ends the node.
Continuation(t, op, symbol, studied) ==
    CASE op = "look" -> Alignment(t, symbol) \o Remainder(t)
      [] op = "inspect" -> AnalysisSteps(t, studied)
      [] OTHER -> Tail(script[t])

Looks == {"look", "recheck", "inspect", "reread"}

\* The commands that change the chart.
SetSymbol(symbol) == [chart EXCEPT !.symbol = symbol]
AddIndicator == [chart EXCEPT !.studied = TRUE]
ClearDrawings == [chart EXCEPT !.lines = {}]
DrawLine(t, item, try) ==
    [chart EXCEPT !.lines = @ \cup
        {[turn |-> t, item |-> item, symbol |-> chart.symbol, attempt |-> try]}]

Effect(t, op, item) ==
    CASE op = "align" -> SetSymbol(RequestedSymbol(t))
      [] op = "indicator" -> AddIndicator
      [] op = "clear" -> ClearDrawings
      [] op = "draw" -> DrawLine(t, item, attempt[t])
      [] OTHER -> chart

\* send_command: the chart does what it is told, or not, and the answer can be read,
\* or not; it makes no difference whether a reading that failed was carried out.
Answered(op) ==
    {a \in [done : BOOLEAN, bad : BOOLEAN] :
        (a.done /\ a.bad) => op \in {"align", "indicator", "clear", "draw"}}

\* Turns whose chart node has looked, and the turns another turn's change of
\* symbol crosses.
Working == {q \in Turns : pc[q] = "chart"}
Crossed(t) == IF chart'.symbol = chart.symbol THEN {} ELSE Working \ {t}

\* What a command does, with its answer and what the values say of the RSI.
Commanded(t, answer, rsi) ==
    LET op == script[t][1][1]
        done == answer.done
        bad == answer.bad
        item == script[t][1][2]
        old == note[t]
        symbol == IF done /\ ~bad THEN chart.symbol ELSE NoSymbol
        studied == done /\ ~bad /\ chart.studied
        aborted == op = "look" /\ bad
        idle == op = "screenshot" /\ note[t].applied = {}
        failed == bad /\ ~idle
        fault == bad \/ ~done
    IN
    /\ fault => faults < MaxFaults
    /\ faults' = IF fault THEN faults + 1 ELSE faults
    /\ idle => done
    /\ rsi # "none" => op = "values" /\ done /\ ~bad
    /\ idle => ~bad
    /\ chart' = IF done /\ ~idle THEN Effect(t, op, item) ELSE chart
    /\ note' = [note EXCEPT ![t] =
          [seen    |-> IF op \in Looks \ {"reread"} THEN symbol ELSE old.seen,
           studied |-> IF op \in Looks THEN studied ELSE old.studied,
           blocked |-> IF op = "look" /\ ~aborted THEN SymbolBlocked(t, symbol)
                       ELSE old.blocked,
           aborted |-> aborted,
           errors  |-> old.errors \/ failed,
           applied |-> IF op \in {"clear", "draw"} /\ ~bad
                       THEN old.applied \cup {<<op, item>>} ELSE old.applied,
           rsi     |-> IF op = "values" THEN rsi ELSE old.rsi]]
    /\ script' = [script EXCEPT ![t] =
          IF aborted THEN <<>> ELSE Continuation(t, op, symbol, studied)]
    /\ crossed' = crossed \cup Crossed(t)
          \cup (IF op = "align" /\ ~done THEN {t} ELSE {})
    /\ raised' = [raised EXCEPT ![t] = IF failed THEN @ \cup {"chart"} ELSE @]
    /\ repeatable' = IF failed THEN repeatable \cup {t} ELSE repeatable

\* A command of the node: carried out or not, with an answer that is read or not.
Command(t) ==
    /\ pc[t] = "chart"
    /\ script[t] # <<>>
    /\ script[t][1][1] # "persist"
    /\ \E answer \in Answered(script[t][1][1]), rsi \in Rsi : Commanded(t, answer, rsi)
    /\ UNCHANGED <<request, pc, route, at, attempt, seen, facts, trace, calls>>

\* The artifact of a chart that was written to is stored, or its store raises,
\* and with it the turn (see MayFail).
Persist(t) ==
    /\ pc[t] = "chart"
    /\ script[t] # <<>>
    /\ script[t][1][1] = "persist"
    /\ script' = [script EXCEPT ![t] = Tail(@)]
    /\ UNCHANGED <<request, pc, route, at, attempt, note, seen, facts, trace, calls, chart,
                   faults, historyVars>>

ChartStatus(t) ==
    IF Writing(t)
    THEN IF note[t].applied # {} /\ ~note[t].errors THEN "completed" ELSE "degraded"
    ELSE IF note[t].errors THEN "degraded" ELSE "completed"

\* An unmet requirement is not retried, errors are.
Unmet(t) == Writing(t) /\ (request[t].vague \/ Drawings(t) = <<>>)
ChartRetryable(t) == note[t].aborted \/ (note[t].errors /\ ~Unmet(t))

ChartReturns(t) ==
    /\ pc[t] = "chart"
    /\ script[t] = <<>>
    /\ Return(t, ChartStatus(t), ChartRetryable(t))
    /\ facts' = IF Repeats(t, ChartStatus(t), ChartRetryable(t)) THEN facts ELSE
       [facts EXCEPT ![t] = [facts[t] EXCEPT
          !.effective = note[t].seen,
          !.blocked = note[t].blocked,
          !.unmet = Unmet(t) /\ ~note[t].aborted,
          !.rsi = note[t].rsi,
          !.stop = <<"draw", "stop">> \in note[t].applied]]
    /\ note' = [note EXCEPT ![t] = NoNote]
    /\ pc' = [pc EXCEPT ![t] = "nodes"]
    /\ UNCHANGED <<request, route, script, trace, calls, chart, faults,
                   historyVars>>

-----------------------------------------------------------------------------
(* The model and the end of the turn *)

\* resolve_next_agent_status.
NextAgent(t) ==
    LET specialists == DOMAIN seen[t] \ {"composer"} IN
    CASE Observed(t, "clarification") -> "clarification_node_completed"
      [] Observed(t, "general_fallback") -> "general_node_completed"
      [] DegradedNodes(t) # {} -> "represented_by_pipeline_nodes_degraded"
      [] OTHER -> IF \E n \in specialists : seen[t][n] = "completed"
                  THEN "represented_by_pipeline_nodes" ELSE "planned_only"

\* The trace once the nodes have run.
MutNodesRan(t) == [trace[t] EXCEPT !.execution = "running", !.graph = "completed"]
NodesRan(t) ==
    [trace[t] EXCEPT
        !.execution = "running",
        !.graph = IF DegradedNodes(t) = {} THEN "completed" ELSE "degraded",
        !.fallback = IF DegradedNodes(t) = {} THEN @ ELSE "pipeline_node_degraded",
        !.next = NextAgent(t)]

StartModel(t) ==
    /\ pc[t] = "nodes"
    /\ at[t] > Len(NodesOf(t))
    /\ pc' = [pc EXCEPT ![t] = "model"]
    /\ trace' = [trace EXCEPT ![t] = NodesRan(t)]
    /\ UNCHANGED <<request, route, at, attempt, script, note, seen, facts, calls, chart,
                   faults, historyVars>>

\* What a tool of the model does to the chart.
ToolEffects(t, tool) ==
    CASE tool = "tv_set_symbol" -> {SetSymbol(s) : s \in Symbols}
      [] tool = "tv_clear_drawings" -> {ClearDrawings}
      [] tool = "tv_add_indicator" -> {AddIndicator}
      [] tool = "tv_draw_line" -> {DrawLine(t, "model", 0)}
      [] OTHER -> {}

\* One tool call: it is carried out, and it fails or not.
Executes(t, bad) ==
    /\ pc[t] = "model"
    /\ calls[t] < request[t].tools
    /\ \E tool \in OfferedTools(route[t], request[t]) :
          /\ chart' \in {chart} \cup ToolEffects(t, tool)
          /\ tool \in PlainTools => bad
    /\ crossed' = crossed \cup Crossed(t)
    /\ calls' = [calls EXCEPT ![t] = @ + 1]
    /\ UNCHANGED <<request, pc, route, at, attempt, script, note, seen, facts, faults,
                   raised, repeatable>>

\* _process_with_tools: a single round of calls, degraded if one of them fails.
CallTool(t) ==
    \E bad \in BOOLEAN :
        /\ Executes(t, bad)
        /\ ~request[t].stream
        /\ trace' = IF bad THEN [trace EXCEPT ![t].execution = "degraded"] ELSE trace

\* _process_with_tools_stream: a round that goes well is running again.
CallToolStream(t) ==
    \E bad \in BOOLEAN :
        /\ Executes(t, bad)
        /\ request[t].stream
        /\ trace' = [trace EXCEPT ![t].execution = IF bad THEN "degraded" ELSE "running"]

CompletedTrace(t) ==
    [trace[t] EXCEPT !.execution = "completed", !.completion = "completed",
                     !.final = "completed"]

\* The turn is reported as ending so, with a safe answer.
FailedTrace(t, ending, answer) ==
    [trace[t] EXCEPT !.execution = "failed", !.completion = ending,
                     !.final = ending, !.fallback = answer]

\* The model cannot be reached, or the artifact of the chart node cannot be stored.
MayFail(t) ==
    \/ pc[t] = "model"
    \/ /\ pc[t] = "chart"
       /\ script[t] # <<>>
       /\ script[t][1][1] = "persist"
       /\ note[t].applied # {}

Ends(t, ending) ==
    /\ pc' = [pc EXCEPT ![t] = "ended"]
    /\ trace' = [trace EXCEPT ![t] = ending]
    /\ UNCHANGED <<request, route, at, attempt, script, note, seen, facts, calls, chart,
                   faults, historyVars>>

\* process: the answer, or a safe one in its place.
End(t) ==
    /\ pc[t] \in {"chart", "model"} /\ ~request[t].stream
    /\ \/ pc[t] = "model" /\ Ends(t, CompletedTrace(t))
       \/ /\ MayFail(t)
          /\ Ends(t, FailedTrace(t, "degraded", "safe_error_response"))

\* process_stream.
EndStream(t) ==
    /\ pc[t] \in {"chart", "model"} /\ request[t].stream
    /\ \/ pc[t] = "model" /\ Ends(t, CompletedTrace(t))
       \/ /\ MayFail(t)
          /\ Ends(t, FailedTrace(t, "failed", "safe_stream_error"))

-----------------------------------------------------------------------------

Step(t) ==
    \/ Prepare(t) \/ PrepareFails(t)
    \/ SkipNode(t) \/ Gather(t) \/ Review(t)
    \/ StartChart(t) \/ Command(t) \/ Persist(t) \/ ChartReturns(t)
    \/ StartModel(t) \/ CallTool(t) \/ CallToolStream(t) \/ End(t) \/ EndStream(t)

Next == \E t \in Turns : Step(t)

\* Every call a turn waits for has a timeout.
Spec == Init /\ [][Next]_vars /\ \A t \in Turns : WF_vars(Step(t))

-----------------------------------------------------------------------------
(* Properties *)

Begun(t) == pc[t] \notin {"new", "unprepared"}

\* A turn whose chart node only reads is offered no tool that draws, clears or sets
\* alerts, whatever groups it was routed to, and leaves no drawing on the chart.
AnalysisTurnsDoNotDraw ==
    \A t \in Turns : (Begun(t) /\ ChartPlanned(route[t], request[t]) /\ ~Writing(t)) =>
        /\ OfferedTools(route[t], request[t]) \cap (DrawingTools \cup AlertTools) = {}
        /\ \A l \in chart.lines : l.turn # t

\* Tools the user switched off are offered only to a turn the router gave nothing
\* but the group of execution, which holds no tool: it is then unrestricted.
DisabledToolsAreWithheld ==
    \A t \in Turns :
        LET offered == OfferedTools(route[t], request[t])
            off == request[t].disabled
            given == \/ "web" \in off /\ offered \cap WebTools # {}
                     \/ "memory" \in off /\ offered \cap MemoryTools # {}
                     \/ "plan" \in off /\ "show_plan" \in offered
        IN Begun(t) /\ given => route[t].groups = {"execution"} /\ Sure(route[t])

\* When the last attempt of a node had a failing tool call, the composer either did
\* not run or tells the model to be cautious.
FailuresReachThePosture ==
    \A t \in Turns :
        (Observed(t, "composer") /\ seen[t]["composer"] = "completed" /\ raised[t] # {})
        => facts[t].posture = "cautious"

\* The chart node draws a level once, unless one of its tool calls failed: then the
\* whole script is run again, over what the first attempt drew.
DrawingsAreNotRepeated ==
    \A k, l \in chart.lines :
        (k.turn = l.turn /\ k.item = l.item /\ k.attempt # l.attempt)
        => k.turn \in repeatable

\* What the chart node draws is on the asset the request names, unless the chart did
\* not follow the node, another turn moved it, or the asset is locked out.
DrawingsAreOnTheirSymbol ==
    \A l \in chart.lines :
        LET r == request[l.turn] IN
        (/\ l.item # "model" /\ r.text # NoSymbol /\ l.turn \notin crossed
         /\ ~(r.locked /\ r.context \notin {NoSymbol, r.text}))
        => l.symbol = r.text

\* When a turn has ended its trace says how: no stage waits, but for the nodes of a
\* turn whose artifact could not be stored, a degraded node shows as a fallback,
\* and only a failed turn has a safe answer.
TraceTellsTheTurn ==
    \A t \in Turns : pc[t] = "ended" =>
        /\ trace[t].execution \in {"completed", "failed"}
        /\ trace[t].completion # "pending" /\ trace[t].final # "pending"
        /\ trace[t].graph = "running" => trace[t].execution = "failed"
        /\ DegradedNodes(t) # {} => trace[t].fallback \notin
              {"none", "low_confidence_route", "clarification_required"}
        /\ (trace[t].execution = "failed")
              <=> trace[t].fallback \in {"safe_error_response", "safe_stream_error"}

\* A turn that is not streamed ends: nodes are tried a bounded number of times and
\* the model has one round of tools.
TurnsEnd ==
    \A t \in Turns : (pc[t] = "new" /\ request[t] # NoRequest /\ ~request[t].stream)
                      ~> pc[t] \in {"ended", "unprepared"}

=============================================================================
