------------------------------ MODULE MCAgentTurn ------------------------------
(***************************************************************************)
(* Instances of AgentTurn for TLC: one turn with many kinds of request and *)
(* of routing, or two turns that drive the chart together.                 *)
(***************************************************************************)
EXTENDS AgentTurn

CONSTANTS t1, t2, btc, eth

MCTurns == {t1, t2}
MCSymbols == {btc, eth}

Answer(intent, confidence, groups, clarify) ==
    [intent |-> intent, confidence |-> confidence, groups |-> groups,
     clarify |-> clarify, indicators |-> FALSE, risk |-> FALSE]

\* What the router may say of any request: unknown words, no groups, the chart, the
\* empty group of execution, an unsure or a clarifying answer.
Answers ==
    {Answer(i, "high", {"chart", "market", "ui"}, FALSE) :
        i \in {"trade_setup", "position_sizing", "broker_execution", "memory_lookup",
               "gossip"}}
    \cup {Answer(i, "high", {"astrology"}, FALSE) : i \in {"research", "journal_debrief"}}
    \cup {Answer("broker_execution", "high", {"execution"}, FALSE)}
    \cup {Answer("trade_setup", "unsure", {"chart"}, FALSE),
          Answer("trade_setup", "medium", {"chart"}, TRUE), Unreadable}

Plain == [stream |-> FALSE, text |-> btc, context |-> NoSymbol, locked |-> FALSE,
          charts |-> FALSE, writes |-> FALSE, clears |-> FALSE, risk |-> FALSE,
          stop |-> FALSE, levels |-> <<>>, vague |-> FALSE, wants |-> FALSE,
          gate |-> FALSE, disabled |-> {}, tools |-> 1, answers |-> Answers]

\* One turn.
Quiet == [Plain EXCEPT !.tools = 0]
Wide ==
    {Plain, [Plain EXCEPT !.stream = TRUE],
     [Plain EXCEPT !.disabled = {"web", "memory", "plan"}],
     [Plain EXCEPT !.charts = TRUE, !.wants = TRUE, !.risk = TRUE,
                   !.answers = {Answer("trade_setup", "high", {"chart", "market"}, FALSE)}],
     [Quiet EXCEPT !.text = NoSymbol],
     [Quiet EXCEPT !.risk = TRUE, !.gate = TRUE],
     [Quiet EXCEPT !.text = NoSymbol, !.writes = TRUE, !.vague = TRUE],
     [Quiet EXCEPT !.context = eth, !.locked = TRUE, !.writes = TRUE, !.risk = TRUE,
                   !.stop = TRUE, !.clears = TRUE, !.levels = <<"stop">>]}

\* Two turns on the chart, routed to it and to nothing else.
Charting == {Answer("trade_setup", "high", {"chart"}, FALSE)}
Writer == [Plain EXCEPT !.writes = TRUE, !.levels = <<"level">>, !.tools = 0,
                        !.answers = Charting]
Rival == [Writer EXCEPT !.text = eth]
Chatter == [Plain EXCEPT !.text = eth, !.answers = Charting]

MCWorkloads ==
    {[t \in MCTurns |-> IF t = t1 THEN r ELSE NoRequest] : r \in Wide}
    \cup {[t \in MCTurns |-> IF t = t1 THEN Writer ELSE r] : r \in {Rival, Chatter}}

=============================================================================
