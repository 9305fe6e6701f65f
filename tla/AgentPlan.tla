------------------------------- MODULE AgentPlan -------------------------------
(***************************************************************************)
(* What a chat request becomes before anything runs: the routed intent,    *)
(* the plan of pipeline nodes, and the tools the model is offered          *)
(* (agents/pipeline, _get_effective_allowed_tool_names of agents/core).    *)
(*                                                                         *)
(* A request is what the regular expressions of the code extract from its  *)
(* text and settings; an answer is what the router model writes.  A tool   *)
(* stands for the tools that every list of the code treats alike.          *)
(***************************************************************************)
EXTENDS Naturals, Sequences, SequencesExt

CONSTANTS
    NoSymbol,   \* no asset is named, or the chart shows none
    Unreadable  \* an answer without a JSON object, or a failed call of the router

-----------------------------------------------------------------------------
(* The router's tables *)

Groups == {"market", "research", "chart", "monitoring", "memory", "portfolio",
           "execution", "ui"}

Ui == {"show_hint", "show_plan", "show_thinking_summary"}
WebTools == {"web_search", "get_trending_news", "search_news_by_symbols"}
MemoryTools == {"get_user_memory", "add_user_memory"}
AlertTools == {"tv_create_alert"}
DrawingTools == {"tv_draw_line", "tv_clear_drawings"}
IndicatorTools == {"tv_add_indicator"}

ToolsOf(group) ==
    CASE group = "market"     -> {"get_price"}
      [] group = "research"   -> WebTools \cup {"get_monitoring_status"}
      [] group = "chart"      -> {"tv_get_state", "tv_set_symbol"} \cup DrawingTools
                                 \cup AlertTools \cup IndicatorTools
      [] group = "monitoring" -> {"add_price_alert", "get_monitoring_status"}
      [] group = "memory"     -> MemoryTools \cup {"create_trade_debrief"}
      [] group = "portfolio"  -> {"calculate_position_size"}
      [] group = "execution"  -> {}
      [] group = "ui"         -> Ui

MemoryIntents == {"preference_update", "context_reset", "emotional_check",
                  "memory_create", "memory_lookup", "memory_delete"}
MarketIntents == {"market_analysis", "trade_setup", "market_scan", "alert_setup"}
ResearchIntents == {"news_impact", "macro_context", "regulatory_check", "research",
                    "plan_or_strategy", "education"}
PortfolioIntents == {"position_management", "portfolio_review", "position_sizing"}
ReviewIntents == {"trade_review", "journal_debrief"}

Intents == MemoryIntents \cup MarketIntents \cup ResearchIntents \cup PortfolioIntents
           \cup ReviewIntents \cup {"broker_execution", "general_chat"}

DefaultGroups(intent) ==
    {"ui"} \cup
    CASE intent \in MemoryIntents -> {"memory"}
      [] intent = "regulatory_check" -> {"research"}
      [] intent = "macro_context" -> {"research", "market"}
      [] intent = "alert_setup" -> {"market", "chart", "monitoring"}
      [] intent = "position_sizing" -> {"market", "chart", "portfolio"}
      [] intent = "broker_execution" ->
            {"market", "monitoring", "portfolio", "execution"}
      [] intent \in {"news_impact", "research", "education"} ->
            {"research", "market", "chart"}
      [] intent \in MarketIntents \ {"alert_setup"} ->
            {"market", "research", "chart", "monitoring"}
      [] intent = "position_management" ->
            {"market", "chart", "monitoring", "research", "portfolio", "execution"}
      [] intent \in {"portfolio_review", "trade_review"} ->
            {"market", "chart", "research", "memory", "portfolio"}
      [] intent = "journal_debrief" -> {"market", "chart", "research", "memory"}
      [] intent = "plan_or_strategy" ->
            {"market", "research", "chart", "monitoring", "memory"}
      [] intent = "general_chat" -> Groups \ {"execution"}

Target(intent) ==
    CASE intent \in MemoryIntents \cup ReviewIntents -> "memory"
      [] intent \in MarketIntents -> "market"
      [] intent \in ResearchIntents -> "research"
      [] intent \in PortfolioIntents -> "portfolio"
      [] intent = "broker_execution" -> "execution"
      [] OTHER -> "general"

-----------------------------------------------------------------------------
(* The tools there are: register_trading_tools, in three parts, and            *)
(* register_tradingview_tools                                                   *)

NewsAndPriceTools == {"get_price", "get_monitoring_status"} \cup WebTools
MonitorTools == {"add_price_alert"}
UserTools == {"calculate_position_size", "create_trade_debrief"} \cup MemoryTools \cup Ui
ChartTools == {"tv_get_state", "tv_set_symbol"} \cup DrawingTools \cup AlertTools
              \cup IndicatorTools

\* Tools registered as plain functions, not coroutines: the registry awaits what they
\* return, which raises once they have run.
PlainTools == WebTools \cup {"get_monitoring_status"}

RegisteredTools == NewsAndPriceTools \cup MonitorTools \cup UserTools \cup ChartTools

-----------------------------------------------------------------------------
(* Routing *)

\* AgentIntentContext.fallback.
Fallback == [intent |-> "general_chat", confidence |-> "low",
             groups |-> DefaultGroups("general_chat"), clarify |-> FALSE,
             indicators |-> FALSE, risk |-> FALSE]

\* parse_intent_response: unknown words are replaced by defaults.
MutRouted(answer) == IF answer = Unreadable THEN Fallback ELSE answer
Routed(answer) ==
    IF answer = Unreadable THEN Fallback ELSE
    LET intent == IF answer.intent \in Intents THEN answer.intent ELSE "general_chat"
        known == answer.groups \cap Groups
    IN [answer EXCEPT
            !.intent = intent,
            !.confidence = IF @ \in {"high", "medium"} THEN @ ELSE "low",
            !.groups = IF known = {} THEN DefaultGroups(intent) ELSE known]

\* The context is sure enough for specialist nodes.
Sure(c) == ~c.clarify /\ c.confidence # "low"

SpecialistOf(c) ==
    IF c.clarify THEN "clarification"
    ELSE IF c.confidence = "low" THEN "general" ELSE Target(c.intent)

-----------------------------------------------------------------------------
(* The plan *)

\* The nodes that gather something, and all nodes.
SnapshotNodes == {"chart", "market", "research", "portfolio", "execution", "memory"}
Nodes == SnapshotNodes
         \cup {"clarification", "general_fallback", "risk_review", "composer"}

WriteMode(c, r) == Sure(c) /\ "chart" \in c.groups /\ r.writes

ChartPlanned(c, r) ==
    \/ Sure(c) /\ "chart" \in c.groups /\ (r.charts \/ c.indicators)
    \/ WriteMode(c, r)

\* The symbol known before the nodes run: the frontend's, then the text's.
PreplannedSymbol(r) == IF r.context # NoSymbol THEN r.context ELSE r.text

MarketWanted(c) == Sure(c) /\ c.groups \cap {"market", "research"} # {}

Gathers(n, c, r) ==
    CASE n = "chart"  -> ChartPlanned(c, r)
      [] n = "market" -> /\ MarketWanted(c)
                         /\ ChartPlanned(c, r) \/ PreplannedSymbol(r) # NoSymbol
      [] OTHER -> SpecialistOf(c) = n

RiskWanted(c, r) ==
    Sure(c) /\ (c.risk \/ r.risk
                \/ c.intent \in {"position_management", "position_sizing"})

Planned(n, c, r) ==
    CASE n \in SnapshotNodes -> Gathers(n, c, r)
      [] n = "clarification" -> c.clarify
      [] n = "general_fallback" -> ~c.clarify /\ c.confidence = "low"
      [] n = "risk_review" -> RiskWanted(c, r)
                              /\ \E s \in SnapshotNodes : Gathers(s, c, r)
      [] n = "composer" -> TRUE

\* The planned nodes, in the order in which build_pipeline_nodes appends them.
Stage(n, c, r) == IF Planned(n, c, r) THEN <<n>> ELSE <<>>
Plan(c, r) ==
    Stage("clarification", c, r) \o Stage("general_fallback", c, r)
    \o Stage("chart", c, r) \o Stage("market", c, r) \o Stage("research", c, r)
    \o Stage("portfolio", c, r) \o Stage("execution", c, r) \o Stage("memory", c, r)
    \o Stage("risk_review", c, r) \o Stage("composer", c, r)

\* depends_on; the clarification plan declares none.
DependsOn(n, plan) ==
    CASE n = "risk_review" -> Range(plan) \cap SnapshotNodes
      [] n = "composer" /\ "clarification" \notin Range(plan) ->
            Range(plan) \ {"general_fallback", "composer"}
      [] OTHER -> {}

Retries(n) == IF n \in SnapshotNodes THEN 1 ELSE 0

-----------------------------------------------------------------------------
(* The tools the model is offered *)

\* No restriction: the None of the code, which is not a set of names.
Unrestricted == {"*"}

AllowedToolNames(c) ==
    LET named == UNION {ToolsOf(g) : g \in c.groups} IN
    IF c.confidence = "low" \/ named = {} THEN Unrestricted ELSE named

AllowList(n, c, r) ==
    CASE n = "clarification" -> {"show_hint"}
      [] n = "general_fallback" -> Ui
      [] n = "chart" /\ WriteMode(c, r) -> Ui
      [] OTHER -> {}

MutBlockList(n, c, r) == IF n = "chart" THEN AlertTools ELSE {}
BlockList(n, c, r) ==
    IF n # "chart" THEN {}
    ELSE AlertTools \cup IF WriteMode(c, r) THEN IndicatorTools ELSE DrawingTools

\* get_blocked_tool_names.
MutBlockedByPreferences(r) == IF "web" \in r.disabled THEN WebTools ELSE {}
BlockedByPreferences(r) ==
    UNION {CASE p = "web" -> WebTools
             [] p = "memory" -> MemoryTools
             [] p = "plan" -> {"show_plan"} : p \in r.disabled}

\* _get_effective_allowed_tool_names: an unrestricted turn keeps every tool, the
\* disabled ones included.
EffectiveTools(c, r) ==
    LET nodes == Range(Plan(c, r))
        lists == UNION {AllowList(n, c, r) : n \in nodes}
        own == AllowedToolNames(c)
        narrowed == IF lists = {} THEN own
                    ELSE IF own = Unrestricted THEN lists ELSE own \cap lists
    IN IF narrowed = Unrestricted THEN Unrestricted
       ELSE (narrowed \ UNION {BlockList(n, c, r) : n \in nodes})
            \ BlockedByPreferences(r)

\* get_tools_schema: the registered tools among them.
OfferedTools(c, r) ==
    IF EffectiveTools(c, r) = Unrestricted THEN RegisteredTools
    ELSE RegisteredTools \cap EffectiveTools(c, r)

=============================================================================
