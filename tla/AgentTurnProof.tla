---------------------------- MODULE AgentTurnProof ----------------------------
(***************************************************************************)
(* What is proved of AgentTurn: what a plan and the tools of a turn can be *)
(* (the operators of AgentPlan), and from there what the nodes leave on    *)
(* the chart and in the trace, for any turns, assets and requests.         *)
(***************************************************************************)
EXTENDS AgentTurn, TLAPS

-----------------------------------------------------------------------------
(* The plan *)

\* The sequence holds those of a set of nodes that are planned.
Chosen(s, set, c, r) ==
    s \in Seq(set) /\ Range(s) = {n \in set : Planned(n, c, r)}

\* One stage of the plan.
LEMMA StageChosen ==
    ASSUME NEW n, NEW c, NEW r
    PROVE  Chosen(Stage(n, c, r), {n}, c, r)
<1>1. CASE Planned(n, c, r)
  <2>1. Stage(n, c, r) = <<n>>
    BY <1>1 DEF Stage
  <2>2. <<n>> \in Seq({n}) /\ Range(<<n>>) = {n}
    BY DEF Range
  <2>3. {m \in {n} : Planned(m, c, r)} = {n}
    BY <1>1
  <2>4. QED
    BY <2>1, <2>2, <2>3 DEF Chosen
<1>2. CASE ~Planned(n, c, r)
  <2>1. Stage(n, c, r) = <<>>
    BY <1>2 DEF Stage
  <2>2. <<>> \in Seq({n}) /\ Range(<<>>) = {}
    BY DEF Range
  <2>3. {m \in {n} : Planned(m, c, r)} = {}
    BY <1>2
  <2>4. QED
    BY <2>1, <2>2, <2>3 DEF Chosen
<1>3. QED
  BY <1>1, <1>2

\* The elements of two sequences one after the other.
LEMMA JoinedRange ==
    ASSUME NEW S, NEW T, NEW p \in Seq(S), NEW q \in Seq(T)
    PROVE  /\ p \o q \in Seq(S \cup T)
           /\ Range(p \o q) = Range(p) \cup Range(q)
<1>1. p \in Seq(S \cup T) /\ q \in Seq(S \cup T)
  OBVIOUS
<1>2. /\ p \o q \in Seq(S \cup T)
      /\ Len(p \o q) = Len(p) + Len(q)
      /\ \A i \in 1..Len(p) + Len(q) :
            (p \o q)[i] = IF i <= Len(p) THEN p[i] ELSE q[i - Len(p)]
  BY <1>1
<1>3. DOMAIN (p \o q) = 1..Len(p) + Len(q) /\ DOMAIN p = 1..Len(p) /\ DOMAIN q = 1..Len(q)
  BY <1>1, <1>2
<1>4. Range(p \o q) \subseteq Range(p) \cup Range(q)
  BY <1>1, <1>2, <1>3 DEF Range
<1>5. Range(p) \subseteq Range(p \o q)
  BY <1>1, <1>2, <1>3 DEF Range
<1>6. ASSUME NEW i \in 1..Len(q)
      PROVE  q[i] \in Range(p \o q)
  <2>1. i + Len(p) \in 1..Len(p) + Len(q) /\ ~(i + Len(p) <= Len(p)) /\ i + Len(p) - Len(p) = i
    BY <1>1, <1>6
  <2>2. (p \o q)[i + Len(p)] = q[i]
    BY <2>1, <1>2
  <2>3. QED
    BY <2>1, <2>2, <1>3 DEF Range
<1>7. Range(q) \subseteq Range(p \o q)
  BY <1>6, <1>3 DEF Range
<1>8. QED
  BY <1>2, <1>4, <1>5, <1>7

\* A stage appended to a plan adds its node when that is planned.
LEMMA StageAdds ==
    ASSUME NEW s, NEW set, NEW n, NEW c, NEW r, Chosen(s, set, c, r)
    PROVE  Chosen(s \o Stage(n, c, r), set \cup {n}, c, r)
<1> DEFINE q == Stage(n, c, r)
           one == {n}
<1>1. Chosen(q, one, c, r)
  BY StageChosen
<1>2. s \in Seq(set) /\ q \in Seq(one)
  BY <1>1 DEF Chosen
<1>3. /\ s \o q \in Seq(set \cup one)
      /\ Range(s \o q) = Range(s) \cup Range(q)
  <2> HIDE DEF q, one
  <2>1. QED
    BY <1>2, JoinedRange
<1>4. QED
  BY <1>1, <1>3 DEF Chosen

\* A plan holds the nodes that are planned and ends with its only composer.
THEOREM PlanIsItsNodes ==
    ASSUME NEW c, NEW r
    PROVE  /\ Plan(c, r) \in Seq(Nodes)
           /\ Range(Plan(c, r)) = {n \in Nodes : Planned(n, c, r)}
           /\ Len(Plan(c, r)) > 0
           /\ \A i \in 1..Len(Plan(c, r)) :
                 Plan(c, r)[i] = "composer" <=> i = Len(Plan(c, r))
<1> DEFINE p1 == Stage("clarification", c, r)
           p2 == p1 \o Stage("general_fallback", c, r)
           p3 == p2 \o Stage("chart", c, r)
           p4 == p3 \o Stage("market", c, r)
           p5 == p4 \o Stage("research", c, r)
           p6 == p5 \o Stage("portfolio", c, r)
           p7 == p6 \o Stage("execution", c, r)
           p8 == p7 \o Stage("memory", c, r)
           p9 == p8 \o Stage("risk_review", c, r)
           s1 == {"clarification"}
           s2 == s1 \cup {"general_fallback"}
           s3 == s2 \cup {"chart"}
           s4 == s3 \cup {"market"}
           s5 == s4 \cup {"research"}
           s6 == s5 \cup {"portfolio"}
           s7 == s6 \cup {"execution"}
           s8 == s7 \cup {"memory"}
           s9 == s8 \cup {"risk_review"}
<1>1. Plan(c, r) = p9 \o Stage("composer", c, r)
  BY DEF Plan
<1>2. s9 \cup {"composer"} = Nodes /\ "composer" \notin s9
  BY DEF Nodes, SnapshotNodes
<1>3. Chosen(p1, s1, c, r)
  BY StageChosen
<1> HIDE DEF p1, s1
<1>4. Chosen(p2, s2, c, r)
  BY <1>3, StageAdds
<1> HIDE DEF p2, s2
<1>5. Chosen(p3, s3, c, r)
  BY <1>4, StageAdds
<1> HIDE DEF p3, s3
<1>6. Chosen(p4, s4, c, r)
  BY <1>5, StageAdds
<1> HIDE DEF p4, s4
<1>7. Chosen(p5, s5, c, r)
  BY <1>6, StageAdds
<1> HIDE DEF p5, s5
<1>8. Chosen(p6, s6, c, r)
  BY <1>7, StageAdds
<1> HIDE DEF p6, s6
<1>9. Chosen(p7, s7, c, r)
  BY <1>8, StageAdds
<1> HIDE DEF p7, s7
<1>10. Chosen(p8, s8, c, r)
  BY <1>9, StageAdds
<1> HIDE DEF p8, s8
<1>11. Chosen(p9, s9, c, r)
  BY <1>10, StageAdds
<1> HIDE DEF p9, s9
<1>12. Chosen(Plan(c, r), Nodes, c, r)
  BY <1>1, <1>2, <1>11, StageAdds
<1>13. Stage("composer", c, r) = <<"composer">>
  BY DEF Stage, Planned, SnapshotNodes
<1>14. Plan(c, r) = Append(p9, "composer")
  <2>1. p9 \in Seq(s9 \cup {"composer"})
    BY <1>11 DEF Chosen
  <2>2. p9 \o <<"composer">> = Append(p9, "composer")
    BY <2>1
  <2>3. QED
    BY <2>2, <1>1, <1>13
<1>15. /\ Len(Plan(c, r)) = Len(p9) + 1
       /\ \A i \in 1..Len(p9) : Plan(c, r)[i] = p9[i] /\ p9[i] \in s9
       /\ Plan(c, r)[Len(p9) + 1] = "composer"
       /\ Len(p9) \in Nat
  <2>1. p9 \in Seq(s9) /\ p9 \in Seq(s9 \cup {"composer"})
    BY <1>11 DEF Chosen
  <2>2. QED
    BY <2>1, <1>14
<1>16. QED
  BY <1>2, <1>12, <1>15 DEF Chosen

-----------------------------------------------------------------------------
(* The tools a turn is offered *)

\* The tools of the groups, and those the nodes allow.
Named(c) == UNION {ToolsOf(g) : g \in c.groups}
Listed(c, r) == UNION {AllowList(n, c, r) : n \in Range(Plan(c, r))}
Blocked(c, r) == UNION {BlockList(n, c, r) : n \in Range(Plan(c, r))}

\* The mark of an unrestricted turn is no tool.
LEMMA NoToolIsTheMark ==
    ASSUME NEW c \in Contexts, NEW r
    PROVE  /\ "*" \notin Named(c)
           /\ "*" \notin Listed(c, r)
<1>1. \A g \in Groups : "*" \notin ToolsOf(g)
  BY DEF Groups, ToolsOf, WebTools, DrawingTools, AlertTools, IndicatorTools, MemoryTools, Ui
<1>2. c.groups \subseteq Groups
  BY DEF Contexts
<1>3. \A n : "*" \notin AllowList(n, c, r)
  BY DEF AllowList, Ui
<1>4. QED
  BY <1>1, <1>2, <1>3 DEF Named, Listed

\* What is narrowed without a mark is a turn's tools; with it, nothing narrows them.
LEMMA ToolsAreNarrowed ==
    ASSUME NEW c \in Contexts, NEW r
    PROVE  \/ /\ EffectiveTools(c, r) = Unrestricted
              /\ AllowedToolNames(c) = Unrestricted
              /\ Listed(c, r) = {}
           \/ /\ EffectiveTools(c, r) # Unrestricted
              /\ EffectiveTools(c, r) \cap Blocked(c, r) = {}
              /\ EffectiveTools(c, r) \cap BlockedByPreferences(r) = {}
<1> DEFINE lists == Listed(c, r)
           own == AllowedToolNames(c)
           narrowed == IF lists = {} THEN own
                       ELSE IF own = Unrestricted THEN lists ELSE own \cap lists
           left == (narrowed \ Blocked(c, r)) \ BlockedByPreferences(r)
<1>1. EffectiveTools(c, r) = IF narrowed = Unrestricted THEN Unrestricted ELSE left
  BY DEF EffectiveTools, Listed, Blocked
<1>2. "*" \notin Named(c) /\ "*" \notin lists
  BY NoToolIsTheMark
<1>3. own = Unrestricted \/ "*" \notin own
  BY <1>2 DEF AllowedToolNames, Named
<1>4. "*" \in narrowed => lists = {} /\ own = Unrestricted
  BY <1>2, <1>3
<1>5. CASE narrowed = Unrestricted
  BY <1>1, <1>4, <1>5 DEF Unrestricted
<1>6. CASE narrowed # Unrestricted
  <2>1. left # Unrestricted
    BY <1>4, <1>6 DEF Unrestricted
  <2>2. QED
    BY <1>1, <1>6, <2>1
<1>7. QED
  BY <1>5, <1>6

\* A turn without restriction was given nothing but the empty group of execution.
LEMMA UnrestrictedTurns ==
    ASSUME NEW c \in Contexts, NEW r, c.groups # {},
           EffectiveTools(c, r) = Unrestricted
    PROVE  c.groups = {"execution"} /\ Sure(c)
<1>1. AllowedToolNames(c) = Unrestricted /\ Listed(c, r) = {}
  BY ToolsAreNarrowed
<1>2. \A n \in Nodes : Planned(n, c, r) => AllowList(n, c, r) = {}
  BY <1>1, PlanIsItsNodes DEF Listed
<1>3. ~c.clarify
  <2>1. Planned("clarification", c, r) <=> c.clarify
    BY DEF Planned, SnapshotNodes
  <2>2. "clarification" \in Nodes /\ AllowList("clarification", c, r) # {}
    BY DEF Nodes, AllowList
  <2>3. QED
    BY <2>1, <2>2, <1>2
<1>4. c.confidence # "low"
  <2>1. Planned("general_fallback", c, r) <=> ~c.clarify /\ c.confidence = "low"
    BY DEF Planned, SnapshotNodes
  <2>2. "general_fallback" \in Nodes /\ AllowList("general_fallback", c, r) # {}
    BY DEF Nodes, AllowList, Ui
  <2>3. QED
    BY <2>1, <2>2, <1>2, <1>3
<1>5. Named(c) = {}
  BY <1>1, <1>4, NoToolIsTheMark DEF AllowedToolNames, Named, Unrestricted
<1>6. \A g \in Groups : ToolsOf(g) = {} => g = "execution"
  BY DEF Groups, ToolsOf, WebTools, DrawingTools, AlertTools, IndicatorTools, MemoryTools, Ui
<1>7. c.groups \subseteq Groups
  BY DEF Contexts
<1>8. \A g \in c.groups : ToolsOf(g) = {}
  BY <1>5 DEF Named
<1>9. QED
  BY <1>3, <1>4, <1>6, <1>7, <1>8 DEF Sure

\* What DisabledToolsAreWithheld says of one turn.
LEMMA DisabledTools ==
    ASSUME NEW c \in Contexts, NEW r \in Request, c.groups # {},
           \/ "web" \in r.disabled /\ OfferedTools(c, r) \cap WebTools # {}
           \/ "memory" \in r.disabled /\ OfferedTools(c, r) \cap MemoryTools # {}
           \/ "plan" \in r.disabled /\ "show_plan" \in OfferedTools(c, r)
    PROVE  c.groups = {"execution"} /\ Sure(c)
<1>1. /\ "web" \in r.disabled => WebTools \subseteq BlockedByPreferences(r)
      /\ "memory" \in r.disabled => MemoryTools \subseteq BlockedByPreferences(r)
      /\ "plan" \in r.disabled => "show_plan" \in BlockedByPreferences(r)
  BY DEF BlockedByPreferences
<1>2. OfferedTools(c, r) \cap BlockedByPreferences(r) # {}
  BY <1>1
<1>3. EffectiveTools(c, r) = Unrestricted
  BY <1>2, ToolsAreNarrowed DEF OfferedTools
<1>4. QED
  BY <1>3, UnrestrictedTurns

\* What AnalysisTurnsDoNotDraw says of the tools.
LEMMA AnalysisTools ==
    ASSUME NEW c \in Contexts, NEW r,
           ChartPlanned(c, r), ~WriteMode(c, r)
    PROVE  OfferedTools(c, r) \cap (DrawingTools \cup AlertTools) = {}
<1>1. Sure(c) /\ "chart" \in c.groups
  BY DEF ChartPlanned
<1>2. EffectiveTools(c, r) # Unrestricted
  BY <1>1, UnrestrictedTurns
<1>3. "chart" \in Range(Plan(c, r))
  <2>1. Planned("chart", c, r) /\ "chart" \in Nodes
    BY DEF Planned, Gathers, SnapshotNodes, Nodes
  <2>2. QED
    BY <2>1, PlanIsItsNodes
<1>4. BlockList("chart", c, r) = AlertTools \cup DrawingTools
  BY DEF BlockList
<1>5. AlertTools \cup DrawingTools \subseteq Blocked(c, r)
  BY <1>3, <1>4 DEF Blocked
<1>6. QED
  BY <1>2, <1>5, ToolsAreNarrowed DEF OfferedTools

\* Whatever the router writes, or fails to, is a context with a group.
LEMMA RoutedIsContext ==
    ASSUME NEW answer \in RouterAnswers \cup {Unreadable}
    PROVE  Routed(answer) \in Contexts /\ Routed(answer).groups # {}
<1>1. \A i : DefaultGroups(i) # {}
  BY DEF DefaultGroups
<1>2. \A i \in Intents : DefaultGroups(i) \subseteq Groups
  BY DEF DefaultGroups, Groups, Intents, MemoryIntents, MarketIntents, ResearchIntents,
         PortfolioIntents, ReviewIntents
<1>3. "general_chat" \in Intents
  BY DEF Intents
<1>4. Fallback \in Contexts /\ Fallback.groups # {}
  BY <1>1, <1>2, <1>3 DEF Fallback, Contexts, Levels
<1>5. CASE answer = Unreadable
  BY <1>4, <1>5 DEF Routed
<1>6. CASE answer # Unreadable
  <2> DEFINE intent == IF answer.intent \in Intents THEN answer.intent ELSE "general_chat"
             known == answer.groups \cap Groups
             sure == IF answer.confidence \in {"high", "medium"} THEN answer.confidence
                     ELSE "low"
             groups == IF known = {} THEN DefaultGroups(intent) ELSE known
  <2>1. answer \in RouterAnswers
    BY <1>6
  <2>2. Routed(answer) = [answer EXCEPT !.intent = intent, !.confidence = sure,
                                        !.groups = groups]
    BY <1>6 DEF Routed
  <2>3. intent \in Intents /\ sure \in Levels \ {"none"}
    BY <1>3 DEF Levels
  <2>4. groups \in SUBSET Groups /\ groups # {}
    BY <1>1, <1>2, <2>3
  <2> HIDE DEF intent, sure, groups
  <2>5. Routed(answer) = [intent |-> intent, confidence |-> sure, groups |-> groups,
                          clarify |-> answer.clarify, indicators |-> answer.indicators,
                          risk |-> answer.risk]
    BY <2>1, <2>2 DEF RouterAnswers
  <2>6. answer.clarify \in BOOLEAN /\ answer.indicators \in BOOLEAN /\ answer.risk \in BOOLEAN
    BY <2>1 DEF RouterAnswers
  <2>7. QED
    BY <2>3, <2>4, <2>5, <2>6 DEF Contexts
<1>7. QED
  BY <1>5, <1>6

-----------------------------------------------------------------------------
(* The invariant *)

\* Where a turn is.
Placed ==
    \A t \in Turns :
        /\ pc[t] = "new" => at[t] = 1 /\ attempt[t] = 1 /\ DOMAIN seen[t] = {}
                            /\ raised[t] = {} /\ script[t] = <<>>
        /\ pc[t] # "new" => request[t] # NoRequest
        /\ Begun(t) => route[t].groups # {}
        /\ pc[t] = "chart" => at[t] <= Len(NodesOf(t)) /\ NodeOf(t) = "chart"

Typed == TypeOK /\ Placed

\* The commands a turn's chart node may send: it draws only if it is to write, and
\* changes the symbol only to one that is asked for.
AllowedCommands(t) ==
    {e \in Commands : /\ e[1] = "draw" => Writing(t)
                      /\ e[1] = "align" => RequestedSymbol(t) # NoSymbol}

Scripted == \A t \in Turns : script[t] \in Seq(AllowedCommands(t))

\* A line is of a turn that has begun, and that is not to analyse the chart only.
Drawn ==
    \A l \in chart.lines :
        /\ Begun(l.turn)
        /\ ChartPlanned(route[l.turn], request[l.turn]) => Writing(l.turn)

\* A second attempt at the chart follows a failed call, and lines know their attempt.
Attempted ==
    /\ \A t \in Turns :
          /\ note[t].errors \/ note[t].aborted => t \in repeatable
          /\ attempt[t] = 2 /\ at[t] <= Len(NodesOf(t)) /\ NodeOf(t) = "chart"
             => t \in repeatable
    /\ \A l \in chart.lines :
          /\ l.item = "model" <=> l.attempt = 0
          /\ l.attempt = 2 => l.turn \in repeatable

\* The turn's asset is that of its text, and nothing kept the chart from it.
Free(t) ==
    /\ request[t].text # NoSymbol
    /\ t \notin crossed
    /\ ~(request[t].locked /\ request[t].context \notin {NoSymbol, request[t].text})

\* A free turn past its alignment has the chart on its asset.
Aligned ==
    /\ \A t \in Turns : (pc[t] = "chart" /\ Free(t)) =>
          \/ script[t] = <<>>
          \/ script[t][1][1] \in {"look", "align"}
          \/ chart.symbol = request[t].text
    /\ DrawingsAreOnTheirSymbol

\* A node with a failing call is observed as degraded or skipped, or under way, and
\* nothing is observed once the composer is.
Failures ==
    /\ \A t \in Turns :
          /\ DOMAIN seen[t] \cup raised[t] \subseteq Range(NodesOf(t))
          /\ raised[t] \subseteq SnapshotNodes
          /\ \A n \in raised[t] :
                \/ Observed(t, n) /\ seen[t][n] \in {"degraded", "skipped"}
                \/ at[t] <= Len(NodesOf(t)) /\ NodeOf(t) = n
          /\ Observed(t, "composer") => at[t] = Len(NodesOf(t)) + 1
          /\ pc[t] = "chart" /\ "chart" \in raised[t] => note[t].errors
    /\ FailuresReachThePosture

\* How the trace stands before and while the model runs, and at the end.
Traced ==
    /\ \A t \in Turns :
          /\ pc[t] \in {"nodes", "chart"} => trace[t] = PlannedTrace(route[t])
          /\ pc[t] = "model" =>
                /\ trace[t].graph # "running"
                /\ trace[t].fallback \notin {"safe_error_response", "safe_stream_error"}
                /\ DegradedNodes(t) # {} => trace[t].fallback = "pipeline_node_degraded"
    /\ TraceTellsTheTurn

Inv == Typed /\ Scripted /\ Drawn /\ Attempted /\ Aligned /\ Failures /\ Traced

-----------------------------------------------------------------------------
(* Types *)

\* The node a turn is at, while there is one.
LEMMA NodeFacts ==
    ASSUME TypeOK, NEW t \in Turns
    PROVE  /\ NodesOf(t) \in Seq(Nodes) /\ Len(NodesOf(t)) \in Nat \ {0}
           /\ at[t] \in 1..Len(NodesOf(t)) + 1
           /\ at[t] <= Len(NodesOf(t)) =>
                 /\ NodeOf(t) \in Range(NodesOf(t))
                 /\ NodeOf(t) \in Nodes /\ Planned(NodeOf(t), route[t], request[t])
                 /\ NodeOf(t) = "composer" <=> at[t] = Len(NodesOf(t))
<1> DEFINE p == NodesOf(t)
<1>1. /\ p \in Seq(Nodes) /\ Len(p) > 0
      /\ Range(p) = {n \in Nodes : Planned(n, route[t], request[t])}
      /\ \A i \in 1..Len(p) : p[i] = "composer" <=> i = Len(p)
  BY PlanIsItsNodes DEF NodesOf
<1>2. at[t] \in 1..Len(p) + 1 /\ Len(p) \in Nat
  BY <1>1 DEF TypeOK
<1>3. ASSUME at[t] <= Len(p)
      PROVE  p[at[t]] \in Range(p) /\ at[t] \in 1..Len(p)
  <2>1. at[t] \in DOMAIN p
    BY <1>1, <1>2, <1>3
  <2>2. QED
    BY <2>1, <1>2, <1>3 DEF Range
<1>4. QED
  BY <1>1, <1>2, <1>3 DEF NodeOf

\* Nothing but the turn t differs.
OthersKeep(t) ==
    \A q \in Turns \ {t} : at'[q] = at[q] /\ attempt'[q] = attempt[q] /\ seen'[q] = seen[q]

\* What an observation is.
Observes(t, status) ==
    /\ at'[t] = at[t] + 1 /\ attempt'[t] = 1
    /\ DOMAIN seen'[t] = DOMAIN seen[t] \cup {NodeOf(t)}
    /\ seen'[t][NodeOf(t)] = status
    /\ \A n \in DOMAIN seen[t] \ {NodeOf(t)} : seen'[t][n] = seen[t][n]

\* The types of what an observation changes.
ObservedTypes ==
    /\ at' \in [Turns -> Nat] /\ \A q \in Turns : at'[q] \in 1..Len(NodesOf(q)) + 1
    /\ attempt' \in [Turns -> 1..2]
    /\ DOMAIN seen' = Turns
    /\ \A q \in Turns : DOMAIN seen'[q] \subseteq Nodes /\ Range(seen'[q]) \subseteq Statuses

\* Observing the node a turn is at keeps the types and every other turn.
LEMMA Observation ==
    ASSUME TypeOK, NEW t \in Turns, NEW status \in Statuses, at[t] <= Len(NodesOf(t)),
           Observe(t, status)
    PROVE  ObservedTypes /\ OthersKeep(t) /\ Observes(t, status)
<1> DEFINE D == DOMAIN seen[t] \cup {NodeOf(t)}
           f == [n \in D |-> IF n = NodeOf(t) THEN status ELSE seen[t][n]]
<1>1. /\ NodeOf(t) \in Nodes /\ Len(NodesOf(t)) \in Nat /\ at[t] \in Nat
      /\ at[t] + 1 \in 1..Len(NodesOf(t)) + 1
  BY NodeFacts
<1>2. seen' = [seen EXCEPT ![t] = f]
  BY DEF Observe
<1>3. at' = [at EXCEPT ![t] = @ + 1] /\ attempt' = [attempt EXCEPT ![t] = 1]
  BY DEF Observe
<1>4. /\ at \in [Turns -> Nat] /\ \A q \in Turns : at[q] \in 1..Len(NodesOf(q)) + 1
      /\ attempt \in [Turns -> 1..2]
      /\ DOMAIN seen = Turns
      /\ \A q \in Turns : DOMAIN seen[q] \subseteq Nodes /\ Range(seen[q]) \subseteq Statuses
  BY DEF TypeOK
<1>5. DOMAIN f = D /\ \A n \in D : f[n] = IF n = NodeOf(t) THEN status ELSE seen[t][n]
  OBVIOUS
<1>6. D \subseteq Nodes /\ Range(f) \subseteq Statuses
  <2>1. \A n \in DOMAIN seen[t] : seen[t][n] \in Statuses
    BY <1>4 DEF Range
  <2>2. QED
    BY <2>1, <1>1, <1>4, <1>5 DEF Range
<1> HIDE DEF f
<1>7. DOMAIN seen' = Turns /\ seen'[t] = f /\ \A q \in Turns \ {t} : seen'[q] = seen[q]
  BY <1>2, <1>4
<1>8. /\ at'[t] = at[t] + 1 /\ attempt'[t] = 1
      /\ \A q \in Turns \ {t} : at'[q] = at[q] /\ attempt'[q] = attempt[q]
      /\ at' \in [Turns -> Nat] /\ attempt' \in [Turns -> 1..2]
  BY <1>1, <1>3, <1>4
<1>9. ObservedTypes
  BY <1>1, <1>4, <1>5, <1>6, <1>7, <1>8 DEF ObservedTypes
<1>10. QED
  BY <1>5, <1>7, <1>8, <1>9 DEF OthersKeep, Observes

\* A handler that returns is tried again or observed.
LEMMA Returned ==
    ASSUME TypeOK, NEW t \in Turns, NEW status \in Statuses, NEW retryable,
           at[t] <= Len(NodesOf(t)), Return(t, status, retryable)
    PROVE  /\ ObservedTypes /\ OthersKeep(t)
           /\ \/ /\ Repeats(t, status, retryable)
                 /\ at' = at /\ seen' = seen /\ attempt'[t] = 2
              \/ ~Repeats(t, status, retryable) /\ Observes(t, status)
<1>1. CASE Repeats(t, status, retryable)
  <2>1. /\ attempt' = [attempt EXCEPT ![t] = IF attempt[t] < 2 THEN attempt[t] + 1
                                             ELSE attempt[t]]
        /\ at' = at /\ seen' = seen
    BY <1>1 DEF Return
  <2>2. /\ at \in [Turns -> Nat] /\ \A q \in Turns : at[q] \in 1..Len(NodesOf(q)) + 1
        /\ attempt \in [Turns -> 1..2] /\ attempt[t] \in 1..2
        /\ DOMAIN seen = Turns
        /\ \A q \in Turns : DOMAIN seen[q] \subseteq Nodes /\ Range(seen[q]) \subseteq Statuses
    BY DEF TypeOK
  <2>3. /\ attempt' \in [Turns -> 1..2] /\ attempt'[t] = 2
        /\ \A q \in Turns \ {t} : attempt'[q] = attempt[q]
    BY <2>1, <2>2
  <2>4. ObservedTypes
    BY <2>1, <2>2, <2>3 DEF ObservedTypes
  <2>5. QED
    BY <1>1, <2>1, <2>3, <2>4 DEF OthersKeep
<1>2. CASE ~Repeats(t, status, retryable)
  <2>1. Observe(t, status)
    BY <1>2 DEF Return
  <2>2. QED
    BY <1>2, <2>1, Observation
<1>3. QED
  BY <1>1, <1>2

\* What two calls come to.
LEMMA TwoCalls ==
    ASSUME NEW A, NEW B, NEW g \in BothCalls(A, B)
    PROVE  \E results : g = Outcome(Snapshot(results), results)
<1>1. PICK x \in A, y \in B : g = Outcome(Snapshot({x, y}), {x, y})
  BY DEF BothCalls
<1>2. QED
  BY <1>1

\* What a gathering node comes to: a failing call is never a complete node.
LEMMA GatheredOutcomes ==
    ASSUME TypeOK, NEW t \in Turns, NodeOf(t) \in SnapshotNodes \ {"chart"},
           NEW g \in Outcomes(t)
    PROVE  g.status \in Statuses /\ g.bad \in BOOLEAN
           /\ (g.bad => g.status \in {"degraded", "skipped"})
<1>1. ASSUME NEW status \in Statuses, NEW results,
             "error" \in results => status \in {"degraded", "skipped"},
             g = Outcome(status, results)
      PROVE  g.status \in Statuses /\ g.bad \in BOOLEAN
             /\ (g.bad => g.status \in {"degraded", "skipped"})
  <2>1. CASE "error" \in results
    <3>1. g = [status |-> status, bad |-> TRUE]
      BY <1>1, <2>1 DEF Outcome
    <3>2. QED
      BY <1>1, <2>1, <3>1
  <2>2. CASE "error" \notin results
    <3>1. ("error" \in results) = FALSE
      BY <2>2
    <3>2. g = [status |-> status, bad |-> FALSE]
      BY <1>1, <3>1 DEF Outcome
    <3>3. QED
      BY <1>1, <3>2
  <2>3. QED
    BY <2>1, <2>2
<1>2. \A results : /\ Snapshot(results) \in Statuses
                   /\ "error" \in results => Snapshot(results) \in {"degraded", "skipped"}
  BY DEF Snapshot, Statuses
<1>3. g \in MarketOutcomes(t) \cup ResearchOutcomes(t) \cup PortfolioOutcomes(t)
             \cup ExecutionOutcomes \cup MemoryOutcomes(t)
  BY DEF Outcomes, SnapshotNodes
<1>4. CASE g \in MarketOutcomes(t) \/ g \in ResearchOutcomes(t)
  <2>1. PICK results : g = Outcome(Snapshot(results), results)
    BY <1>4, TwoCalls DEF MarketOutcomes, ResearchOutcomes
  <2>2. QED
    BY <1>1, <1>2, <2>1
<1>5. CASE g \in PortfolioOutcomes(t)
  <2>1. PICK size : g = Outcome(Snapshot({size}), {size})
    BY <1>5 DEF PortfolioOutcomes
  <2>2. QED
    BY <1>1, <1>2, <2>1
<1>6. CASE g \in ExecutionOutcomes
  <2>1. g = Outcome("completed", {}) /\ "completed" \in Statuses
    BY <1>6 DEF ExecutionOutcomes, Statuses
  <2>2. QED
    BY <1>1, <2>1
<1>7. CASE g \in MemoryOutcomes(t)
  <2>1. PICK memory :
           g = Outcome(IF memory = "error" THEN "degraded" ELSE "completed", {memory})
    BY <1>7 DEF MemoryOutcomes
  <2>2. CASE memory = "error"
    BY <1>1, <2>1, <2>2 DEF Statuses
  <2>3. CASE memory # "error"
    BY <1>1, <2>1, <2>3 DEF Statuses
  <2>4. QED
    BY <2>2, <2>3
<1>8. QED
  BY <1>3, <1>4, <1>5, <1>6, <1>7

-----------------------------------------------------------------------------
(* The chart node's commands *)

\* A turn that is made has a request, and with it an asset or none.
LEMMA RequestFacts ==
    ASSUME TypeOK, NEW t \in Turns, request[t] # NoRequest
    PROVE  request[t] \in Request /\ RequestedSymbol(t) \in Assets
<1>1. request[t] \in Request
  BY WorkloadsAssumption DEF TypeOK
<1>2. request[t].text \in Assets /\ request[t].context \in Assets
  BY <1>1 DEF Request, Assets
<1>3. QED
  BY <1>1, <1>2 DEF RequestedSymbol

\* The rest of the node once it has looked is allowed.
LEMMA RemainderAllowed ==
    ASSUME NEW t \in Turns, request[t] \in Request
    PROVE  Remainder(t) \in Seq(AllowedCommands(t))
<1> DEFINE A == AllowedCommands(t)
<1>1. \A o \in ChartOps \ {"draw", "align"} : <<o, "none">> \in A
  BY DEF AllowedCommands, Commands
<1>2. Writing(t) => \A i \in {"stop", "level"} : <<"draw", i>> \in A
  BY DEF AllowedCommands, Commands
<1> HIDE DEF A
<1>3. Writing(t) => Drawings(t) \in Seq(A)
  <2>1. request[t].levels \in Seq({"stop", "level"})
    BY DEF Request
  <2>2. ASSUME Writing(t)
        PROVE  [i \in 1..Len(request[t].levels) |-> <<"draw", request[t].levels[i]>>] \in Seq(A)
    <3>1. \A i \in 1..Len(request[t].levels) : request[t].levels[i] \in {"stop", "level"}
      BY <2>1
    <3>2. \A i \in 1..Len(request[t].levels) : <<"draw", request[t].levels[i]>> \in A
      BY <3>1, <2>2, <1>2
    <3>3. Len(request[t].levels) \in Nat
      BY <2>1
    <3> DEFINE n == Len(request[t].levels)
               f == [i \in 1..n |-> <<"draw", request[t].levels[i]>>]
    <3>4. f \in [1..n -> A]
      BY <3>2
    <3> HIDE DEF n, f
    <3>5. f \in Seq(A)
      BY <3>3, <3>4 DEF n
    <3>6. QED
      BY <3>5 DEF n, f
  <2>3. <<"clear", "none">> \in A
    BY <1>1 DEF ChartOps
  <2>4. <<<<"clear", "none">>>> \in Seq(A) /\ <<>> \in Seq(A)
    BY <2>3
  <2>5. QED
    BY <2>2, <2>4 DEF Drawings
<1>4. <<<<"inspect", "none">>>> \in Seq(A)
  BY <1>1 DEF ChartOps
<1>5. <<<<"screenshot", "none">>, <<"persist", "none">>>> \in Seq(A)
  BY <1>1 DEF ChartOps
<1>6. QED
  BY <1>3, <1>4, <1>5 DEF Remainder, A

\* What an operation leaves to do is allowed.
LEMMA ContinuationAllowed ==
    ASSUME TypeOK, Scripted, NEW t \in Turns, request[t] \in Request,
           script[t] # <<>>, NEW op, NEW symbol, NEW studied
    PROVE  Continuation(t, op, symbol, studied) \in Seq(AllowedCommands(t))
<1> DEFINE A == AllowedCommands(t)
<1>1. \A o \in ChartOps \ {"draw", "align"} : <<o, "none">> \in A
  BY DEF AllowedCommands, Commands
<1>2. RequestedSymbol(t) # NoSymbol => <<"align", "none">> \in A
  BY DEF AllowedCommands, Commands, ChartOps
<1>3. Remainder(t) \in Seq(A)
  BY RemainderAllowed
<1>4. Tail(script[t]) \in Seq(A)
  BY DEF Scripted, A
<1> HIDE DEF A
<1>5. Alignment(t, symbol) \in Seq(A)
  <2>1. RequestedSymbol(t) # NoSymbol => <<<<"align", "none">>, <<"recheck", "none">>>> \in Seq(A)
    BY <1>1, <1>2 DEF ChartOps
  <2>2. QED
    BY <2>1 DEF Alignment
<1>6. AnalysisSteps(t, studied) \in Seq(A)
  <2>1. <<<<"indicator", "none">>, <<"reread", "none">>>> \in Seq(A) /\ <<>> \in Seq(A)
    BY <1>1 DEF ChartOps
  <2>2. <<<<"values", "none">>>> \in Seq(A)
    BY <1>1 DEF ChartOps
  <2>3. QED
    BY <2>1, <2>2 DEF AnalysisSteps
<1>7. QED
  BY <1>3, <1>4, <1>5, <1>6 DEF Continuation, A

\* The next command of a script.
LEMMA HeadAllowed ==
    ASSUME Scripted, NEW t \in Turns, script[t] # <<>>
    PROVE  /\ script[t][1] \in AllowedCommands(t)
           /\ script[t][1] = <<script[t][1][1], script[t][1][2]>>
           /\ script[t][1][1] \in ChartOps
           /\ script[t][1][1] = "draw" => script[t][1][2] \in {"stop", "level"}
<1>1. script[t][1] \in AllowedCommands(t)
  BY DEF Scripted
<1>2. script[t][1] \in Commands
  BY <1>1 DEF AllowedCommands
<1>3. QED
  BY <1>1, <1>2 DEF Commands, ChartOps

\* The line the turn draws where the chart is.
Line(t, item, try) ==
    [turn |-> t, item |-> item, symbol |-> chart.symbol, attempt |-> try]

\* A drawing adds one line and leaves the symbol.
LEMMA DrawLineAdds ==
    ASSUME TypeOK, NEW t \in Turns, NEW item \in {"stop", "level", "model"}, NEW try \in 0..2
    PROVE  /\ DrawLine(t, item, try) \in Charts
           /\ DrawLine(t, item, try).symbol = chart.symbol
           /\ DrawLine(t, item, try).lines = chart.lines \cup {Line(t, item, try)}
<1>1. chart \in Charts
  BY DEF TypeOK
<1>2. Line(t, item, try) \in Lines
  BY <1>1 DEF Line, Lines, Charts
<1>3. DrawLine(t, item, try)
      = [chart EXCEPT !.lines = chart.lines \cup {Line(t, item, try)}]
  BY DEF DrawLine, Line
<1>4. QED
  BY <1>1, <1>2, <1>3 DEF Charts

\* What a command of the node does to the chart.
LEMMA CommandEffects ==
    ASSUME TypeOK, NEW t \in Turns, request[t] \in Request, NEW op, NEW item,
           op = "draw" => item \in {"stop", "level"},
           op = "align" => RequestedSymbol(t) # NoSymbol
    PROVE  /\ Effect(t, op, item) \in Charts
           /\ Effect(t, op, item).symbol
              = IF op = "align" THEN RequestedSymbol(t) ELSE chart.symbol
           /\ op # "draw" => Effect(t, op, item).lines \subseteq chart.lines
           /\ op = "draw" => Effect(t, op, item).lines
                             = chart.lines \cup {Line(t, item, attempt[t])}
<1>1. chart \in Charts /\ attempt[t] \in 1..2 /\ attempt[t] \in 0..2
  BY DEF TypeOK
<1>2. /\ op = "draw" => item \in {"stop", "level"}
      /\ op = "align" => RequestedSymbol(t) # NoSymbol
  OBVIOUS
<1>3. RequestedSymbol(t) \in Assets
  <2>1. request[t].text \in Assets /\ request[t].context \in Assets
    BY DEF Request, Assets
  <2>2. QED
    BY <2>1 DEF RequestedSymbol
<1>4. CASE op = "align"
  BY <1>1, <1>2, <1>3, <1>4 DEF Effect, SetSymbol, Charts, Assets
<1>5. CASE op = "indicator"
  BY <1>1, <1>5 DEF Effect, AddIndicator, Charts
<1>6. CASE op = "clear"
  BY <1>1, <1>6 DEF Effect, ClearDrawings, Charts
<1>7. CASE op = "draw"
  <2>1. Effect(t, op, item) = DrawLine(t, item, attempt[t])
    BY <1>7 DEF Effect
  <2>2. QED
    BY <1>1, <1>2, <1>7, <2>1, DrawLineAdds
<1>8. CASE op \notin {"align", "indicator", "clear", "draw"}
  BY <1>1, <1>8 DEF Effect
<1>9. QED
  BY <1>4, <1>5, <1>6, <1>7, <1>8

\* What a tool of the model does to the chart.
LEMMA ToolEffectsAre ==
    ASSUME TypeOK, NEW t \in Turns, NEW tool, NEW c \in ToolEffects(t, tool)
    PROVE  /\ c \in Charts
           /\ tool # "tv_draw_line" => c.lines \subseteq chart.lines
           /\ c.lines \subseteq chart.lines \cup {Line(t, "model", 0)}
<1>1. chart \in Charts
  BY DEF TypeOK
<1>2. CASE tool = "tv_set_symbol"
  <2>1. PICK s \in Symbols : c = SetSymbol(s)
    BY <1>2 DEF ToolEffects
  <2>2. QED
    BY <1>1, <2>1 DEF SetSymbol, Charts
<1>3. CASE tool = "tv_clear_drawings"
  BY <1>1, <1>3 DEF ToolEffects, ClearDrawings, Charts
<1>4. CASE tool = "tv_add_indicator"
  BY <1>1, <1>4 DEF ToolEffects, AddIndicator, Charts
<1>5. CASE tool = "tv_draw_line"
  <2>1. c = DrawLine(t, "model", 0)
    BY <1>5 DEF ToolEffects
  <2>2. QED
    BY <2>1, <1>5, DrawLineAdds
<1>6. CASE tool \notin {"tv_set_symbol", "tv_clear_drawings", "tv_add_indicator", "tv_draw_line"}
  BY <1>6 DEF ToolEffects
<1>7. QED
  BY <1>2, <1>3, <1>4, <1>5, <1>6

\* What a command of the node leaves, and what of it the rest of the proof needs: the
\* operation, whether it was carried out, and whether its tool call failed.
CommandIs(t, op, item, done, bad, failed) ==
    LET symbol == IF done /\ ~bad THEN chart.symbol ELSE NoSymbol IN
    /\ script[t] # <<>> /\ op = script[t][1][1] /\ item = script[t][1][2]
    /\ op = "draw" => item \in {"stop", "level"} /\ Writing(t)
    /\ op = "look" => (failed <=> bad)
    /\ chart' \in Charts
    /\ chart'.symbol = IF op = "align" /\ done THEN RequestedSymbol(t) ELSE chart.symbol
    /\ \/ chart'.lines \subseteq chart.lines
       \/ op = "draw" /\ chart'.lines = chart.lines \cup {Line(t, item, attempt[t])}
    /\ note' \in [Turns -> Notes]
    /\ \A q \in Turns \ {t} : note'[q] = note[q]
    /\ note'[t].errors => note[t].errors \/ failed
    /\ failed \/ note[t].errors => note'[t].errors
    /\ note'[t].aborted => failed
    /\ script' \in [Turns -> Seq(Commands)]
    /\ \A q \in Turns : script'[q] \in Seq(AllowedCommands(q))
    /\ \A q \in Turns \ {t} : script'[q] = script[q]
    /\ \/ script'[t] = <<>>
       \/ op = "look" /\ ~bad /\ script'[t] = Alignment(t, symbol) \o Remainder(t)
       \/ op # "look"
    /\ crossed' = crossed \cup Crossed(t) \cup (IF op = "align" /\ ~done THEN {t} ELSE {})
    /\ raised' = [raised EXCEPT ![t] = IF failed THEN @ \cup {"chart"} ELSE @]
    /\ repeatable' = IF failed THEN repeatable \cup {t} ELSE repeatable
    /\ faults' \in 0..MaxFaults
    /\ UNCHANGED <<request, pc, route, at, attempt, seen, facts, trace, calls>>

\* Every command of the node has such an effect.
LEMMA CommandDoes ==
    ASSUME TypeOK, Placed, Scripted, NEW t \in Turns, Command(t)
    PROVE  \E op \in ChartOps, item \in {"none", "stop", "level"}, done \in BOOLEAN,
              bad \in BOOLEAN, failed \in BOOLEAN : CommandIs(t, op, item, done, bad, failed)
<1> DEFINE op == script[t][1][1]
           item == script[t][1][2]
<1>1. PICK answer \in Answered(op), rsi \in Rsi : Commanded(t, answer, rsi)
  BY DEF Command
<1> DEFINE done == answer.done
           bad == answer.bad
           symbol == IF done /\ ~bad THEN chart.symbol ELSE NoSymbol
           studied == done /\ ~bad /\ chart.studied
           aborted == op = "look" /\ bad
           idle == op = "screenshot" /\ note[t].applied = {}
           failed == bad /\ ~idle
           n == [seen    |-> IF op \in Looks \ {"reread"} THEN symbol ELSE note[t].seen,
                 studied |-> IF op \in Looks THEN studied ELSE note[t].studied,
                 blocked |-> IF op = "look" /\ ~aborted THEN SymbolBlocked(t, symbol)
                             ELSE note[t].blocked,
                 aborted |-> aborted,
                 errors  |-> note[t].errors \/ failed,
                 applied |-> IF op \in {"clear", "draw"} /\ ~bad
                             THEN note[t].applied \cup {<<op, item>>} ELSE note[t].applied,
                 rsi     |-> IF op = "values" THEN rsi ELSE note[t].rsi]
<1>2. done \in BOOLEAN /\ bad \in BOOLEAN /\ failed \in BOOLEAN
  BY DEF Answered
<1>3. /\ script[t] # <<>> /\ pc[t] = "chart"
      /\ UNCHANGED <<request, pc, route, at, attempt, seen, facts, trace, calls>>
  BY DEF Command
<1>4. /\ chart' = IF done /\ ~idle THEN Effect(t, op, item) ELSE chart
      /\ script' = [script EXCEPT ![t] =
                       IF aborted THEN <<>> ELSE Continuation(t, op, symbol, studied)]
      /\ crossed' = crossed \cup Crossed(t) \cup (IF op = "align" /\ ~done THEN {t} ELSE {})
      /\ raised' = [raised EXCEPT ![t] = IF failed THEN @ \cup {"chart"} ELSE @]
      /\ repeatable' = IF failed THEN repeatable \cup {t} ELSE repeatable
      /\ note' = [note EXCEPT ![t] = n]
  BY <1>1 DEF Commanded
<1>5. faults' \in 0..MaxFaults
  <2>1. faults \in 0..MaxFaults
    BY DEF TypeOK
  <2>2. faults' = faults \/ (faults < MaxFaults /\ faults' = faults + 1)
    BY <1>1 DEF Commanded
  <2>3. QED
    BY <2>1, <2>2, MaxFaultsAssumption
<1>6. request[t] \in Request
  BY <1>3, RequestFacts DEF Placed
<1>7. /\ op \in ChartOps /\ script[t][1] \in AllowedCommands(t)
      /\ <<op, item>> \in Commands /\ item \in {"none", "stop", "level"}
      /\ op = "draw" => item \in {"stop", "level"} /\ Writing(t)
      /\ op = "align" => RequestedSymbol(t) # NoSymbol
  <2>1. script[t][1] \in AllowedCommands(t) /\ script[t][1] = <<op, item>> /\ op \in ChartOps
        /\ (op = "draw" => item \in {"stop", "level"})
    BY <1>3, HeadAllowed
  <2>2. <<op, item>> \in Commands
    BY <2>1 DEF AllowedCommands
  <2>3. item \in {"none", "stop", "level"}
    BY <2>2 DEF Commands
  <2>4. QED
    BY <2>1, <2>2, <2>3 DEF AllowedCommands
<1>8. /\ chart' \in Charts
      /\ chart'.symbol = IF op = "align" /\ done THEN RequestedSymbol(t) ELSE chart.symbol
      /\ \/ chart'.lines \subseteq chart.lines
         \/ op = "draw" /\ chart'.lines = chart.lines \cup {Line(t, item, attempt[t])}
  <2>1. CASE done /\ ~idle
    <3>1. chart' = Effect(t, op, item)
      BY <2>1, <1>4
    <3> HIDE DEF op, item, done, idle
    <3>2. QED
      BY <2>1, <3>1, <1>6, <1>7, CommandEffects
  <2>2. CASE ~(done /\ ~idle)
    <3>1. chart' = chart
      BY <2>2, <1>4
    <3>2. ~(op = "align" /\ done)
      BY <2>2
    <3>3. QED
      BY <3>1, <3>2 DEF TypeOK
  <2>3. QED
    BY <2>1, <2>2
<1>9. n \in Notes /\ (n.errors => note[t].errors \/ failed)
      /\ (failed \/ note[t].errors => n.errors) /\ (n.aborted => failed)
  <2>1. note[t] \in Notes /\ chart \in Charts
    BY DEF TypeOK
  <2>2. symbol \in Assets /\ studied \in BOOLEAN /\ aborted \in BOOLEAN
        /\ SymbolBlocked(t, symbol) \in BOOLEAN
    BY <1>2, <2>1 DEF Charts, Assets, SymbolBlocked
  <2>3. aborted => failed
    OBVIOUS
  <2>4. /\ note[t].errors \in BOOLEAN /\ note[t].blocked \in BOOLEAN
        /\ note[t].studied \in BOOLEAN /\ note[t].seen \in Assets /\ note[t].rsi \in Rsi
        /\ note[t].applied \in SUBSET Commands
    BY <2>1 DEF Notes
  <2> HIDE DEF symbol, studied, aborted, failed, op, item, done, bad, idle
  <2> DEFINE errors == note[t].errors \/ failed
             blocked == IF op = "look" /\ ~aborted THEN SymbolBlocked(t, symbol)
                        ELSE note[t].blocked
             looked == IF op \in Looks \ {"reread"} THEN symbol ELSE note[t].seen
             learned == IF op \in Looks THEN studied ELSE note[t].studied
             read == IF op = "values" THEN rsi ELSE note[t].rsi
             moved == IF op \in {"clear", "draw"} /\ ~bad
                      THEN note[t].applied \cup {<<op, item>>} ELSE note[t].applied
  <2>5. /\ errors \in BOOLEAN /\ blocked \in BOOLEAN /\ looked \in Assets
        /\ learned \in BOOLEAN /\ read \in Rsi /\ moved \in SUBSET Commands
    BY <1>7, <2>2, <2>4
  <2>6. n = [seen |-> looked, studied |-> learned, blocked |-> blocked,
             aborted |-> aborted, errors |-> errors, applied |-> moved, rsi |-> read]
    OBVIOUS
  <2>7. errors => note[t].errors \/ failed
    OBVIOUS
  <2>8. failed \/ note[t].errors => errors
    OBVIOUS
  <2> HIDE DEF errors, blocked, looked, learned, read, moved, n
  <2>9. n \in Notes
    BY <2>2, <2>5, <2>6 DEF Notes
  <2>10. (n.errors <=> errors) /\ (n.aborted <=> aborted)
    BY <2>2, <2>5, <2>6
  <2>11. QED
    BY <2>3, <2>7, <2>8, <2>9, <2>10
<1>10. /\ note' \in [Turns -> Notes] /\ note'[t] = n
       /\ \A q \in Turns \ {t} : note'[q] = note[q]
  <2>1. note \in [Turns -> Notes]
    BY DEF TypeOK
  <2> HIDE DEF n
  <2>2. QED
    BY <1>4, <1>9, <2>1
<1>11. /\ script' \in [Turns -> Seq(Commands)]
       /\ \A q \in Turns : script'[q] \in Seq(AllowedCommands(q))
       /\ \A q \in Turns \ {t} : script'[q] = script[q]
       /\ \/ script'[t] = <<>>
          \/ op = "look" /\ ~bad /\ script'[t] = Alignment(t, symbol) \o Remainder(t)
          \/ op # "look"
  <2> DEFINE new == IF aborted THEN <<>> ELSE Continuation(t, op, symbol, studied)
  <2>1. script \in [Turns -> Seq(Commands)] /\ script' = [script EXCEPT ![t] = new]
    BY <1>4 DEF TypeOK
  <2>2. new \in Seq(AllowedCommands(t))
    <3>1. Continuation(t, op, symbol, studied) \in Seq(AllowedCommands(t))
      BY <1>3, <1>6, ContinuationAllowed
    <3>2. <<>> \in Seq(AllowedCommands(t))
      OBVIOUS
    <3>3. QED
      BY <3>1, <3>2
  <2>3. new \in Seq(Commands)
    BY <2>2 DEF AllowedCommands
  <2>4. \/ new = <<>>
        \/ op = "look" /\ ~bad /\ new = Alignment(t, symbol) \o Remainder(t)
        \/ op # "look"
    BY DEF Continuation
  <2> HIDE DEF new, op, symbol, bad
  <2>5. script'[t] = new /\ \A q \in Turns \ {t} : script'[q] = script[q]
    BY <2>1
  <2>6. QED
    BY <2>1, <2>2, <2>3, <2>4, <2>5 DEF Scripted
<1>12. op = "look" => (failed <=> bad)
  OBVIOUS
<1>13. CommandIs(t, op, item, done, bad, failed)
  <2> HIDE DEF op, item, done, bad, failed, n, idle, aborted, studied
  <2>1. /\ script[t] # <<>> /\ op = script[t][1][1] /\ item = script[t][1][2]
    BY <1>3 DEF op, item
  <2>2. /\ note'[t].errors => note[t].errors \/ failed
        /\ failed \/ note[t].errors => note'[t].errors
        /\ note'[t].aborted => failed
    BY <1>9, <1>10
  <2>3. QED
    BY <2>1, <2>2, <1>3, <1>4, <1>5, <1>7, <1>8, <1>10, <1>11, <1>12 DEF CommandIs
<1>14. QED
  BY <1>2, <1>7, <1>13

-----------------------------------------------------------------------------
(* Every step keeps the types, the places and the scripts *)

WellFormed == TypeOK /\ Placed /\ Scripted

\* What the plan and the request of a turn say, while they stay.
SameRoutes ==
    \A q \in Turns : /\ NodesOf(q)' = NodesOf(q) /\ Writing(q)' = Writing(q)
                     /\ RequestedSymbol(q)' = RequestedSymbol(q)
                     /\ AllowedCommands(q)' = AllowedCommands(q)

\* Plans, and what turns are to do, depend on routes and requests only.
LEMMA RoutesStay ==
    ASSUME request' = request, route' = route
    PROVE  SameRoutes
BY DEF SameRoutes, NodesOf, Writing, RequestedSymbol, AllowedCommands

\* A prepared turn gets a context with a group, and the trace planned for it.
LEMMA PrepareKeeps ==
    ASSUME WellFormed, NEW t \in Turns, Prepare(t)
    PROVE  /\ WellFormed'
           /\ \E c \in Contexts : /\ route' = [route EXCEPT ![t] = c]
                                  /\ trace' = [trace EXCEPT ![t] = PlannedTrace(c)]
<1>1. TypeOK /\ Placed /\ Scripted
  BY DEF WellFormed
<1>2. PICK c \in RouteIntent(t) : /\ route' = [route EXCEPT ![t] = c]
                                  /\ trace' = [trace EXCEPT ![t] = PlannedTrace(c)]
  BY DEF Prepare
<1>3. request[t] \in Request
  BY <1>1, RequestFacts DEF Prepare
<1>4. c \in Contexts /\ c.groups # {}
  BY <1>3, RoutedIsContext DEF RouteIntent, Request
<1>5. /\ pc[t] = "new" /\ request[t] # NoRequest /\ pc' = [pc EXCEPT ![t] = "nodes"]
      /\ at[t] = 1 /\ script[t] = <<>>
      /\ UNCHANGED <<request, at, attempt, script, note, seen, facts, calls, chart,
                     faults, historyVars>>
  BY <1>1 DEF Prepare, Placed
<1>6. PlannedTrace(c) \in Traces
  BY DEF PlannedTrace, NewTrace, Traces
<1>7. route' \in [Turns -> Contexts] /\ route'[t] = c
      /\ \A q \in Turns \ {t} : route'[q] = route[q]
  BY <1>1, <1>2, <1>4 DEF TypeOK
<1>8. NodesOf(t)' = Plan(c, request[t]) /\ Len(Plan(c, request[t])) \in Nat
  BY <1>5, <1>7, PlanIsItsNodes DEF NodesOf
<1>9. \A q \in Turns \ {t} : NodesOf(q)' = NodesOf(q) /\ AllowedCommands(q)' = AllowedCommands(q)
  BY <1>5, <1>7 DEF NodesOf, AllowedCommands, Writing, RequestedSymbol
<1>10. TypeOK'
  <2>1. \A q \in Turns : at'[q] \in 1..Len(NodesOf(q)') + 1
    BY <1>1, <1>5, <1>8, <1>9 DEF TypeOK
  <2>2. trace' \in [Turns -> Traces]
    BY <1>1, <1>2, <1>6 DEF TypeOK
  <2>3. pc' \in [Turns -> {"new", "nodes", "chart", "model", "ended", "unprepared"}]
    BY <1>1, <1>5 DEF TypeOK
  <2>4. QED
    BY <1>1, <1>5, <1>7, <2>1, <2>2, <2>3 DEF TypeOK, historyVars
<1>11. Placed'
  <2>1. pc'[t] = "nodes" /\ \A q \in Turns \ {t} : pc'[q] = pc[q]
    BY <1>1, <1>5 DEF TypeOK
  <2>2. QED
    BY <1>1, <1>4, <1>5, <1>7, <1>9, <2>1 DEF Placed, Begun, NodeOf, historyVars
<1>12. Scripted'
  <2>1. script'[t] = <<>>
    BY <1>5
  <2>2. <<>> \in Seq(AllowedCommands(t)')
    OBVIOUS
  <2>3. QED
    BY <1>1, <1>5, <1>9, <2>1, <2>2 DEF Scripted
<1>13. QED
  BY <1>2, <1>4, <1>10, <1>11, <1>12 DEF WellFormed

\* A turn that cannot be prepared changes nothing else.
LEMMA PrepareFailsKeeps ==
    ASSUME WellFormed, NEW t \in Turns, PrepareFails(t)
    PROVE  WellFormed'
<1>1. SameRoutes
  BY RoutesStay DEF PrepareFails
<1>2. TypeOK'
  BY <1>1 DEF WellFormed, TypeOK, PrepareFails, SameRoutes, historyVars
<1>3. Placed'
  BY <1>1 DEF WellFormed, TypeOK, PrepareFails, SameRoutes, historyVars, Placed, Begun, NodeOf
<1>4. Scripted'
  BY <1>1 DEF WellFormed, PrepareFails, SameRoutes, Scripted
<1>5. QED
  BY <1>2, <1>3, <1>4 DEF WellFormed

\* A turn that is at its nodes stays there, whatever it observes.
LEMMA ObservingKeeps ==
    ASSUME WellFormed, NEW t \in Turns, pc[t] = "nodes", ObservedTypes, OthersKeep(t),
           facts' \in [Turns -> Facts], raised' \in [Turns -> SUBSET Nodes],
           \A q \in Turns \ {t} : raised'[q] = raised[q],
           UNCHANGED <<request, pc, route, script, note, trace, calls, chart, faults,
                       crossed, repeatable>>
    PROVE  WellFormed'
<1>1. SameRoutes
  BY RoutesStay
<1>2. TypeOK'
  BY <1>1 DEF WellFormed, TypeOK, SameRoutes, ObservedTypes
<1>3. Placed'
  BY <1>1 DEF WellFormed, SameRoutes, Placed, Begun, NodeOf, OthersKeep
<1>4. Scripted'
  BY <1>1 DEF WellFormed, SameRoutes, Scripted
<1>5. QED
  BY <1>2, <1>3, <1>4 DEF WellFormed

\* A node that is not run is observed as skipped.
LEMMA SkipNodeKeeps ==
    ASSUME WellFormed, NEW t \in Turns, SkipNode(t)
    PROVE  WellFormed' /\ OthersKeep(t) /\ Observes(t, "skipped")
<1>1. ObservedTypes /\ OthersKeep(t) /\ Observes(t, "skipped")
  BY Observation DEF SkipNode, Statuses, WellFormed
<1>2. QED
  BY <1>1, ObservingKeeps DEF SkipNode, WellFormed, TypeOK, historyVars

\* A node that only reads observations is observed as completed.
LEMMA ReviewKeeps ==
    ASSUME WellFormed, NEW t \in Turns, Review(t)
    PROVE  WellFormed' /\ OthersKeep(t) /\ Observes(t, "completed")
<1>1. ObservedTypes /\ OthersKeep(t) /\ Observes(t, "completed")
  BY Observation DEF Review, Statuses, WellFormed
<1>2. facts' \in [Turns -> Facts]
  <2>1. facts \in [Turns -> Facts] /\ facts[t] \in Facts
    BY DEF WellFormed, TypeOK
  <2>2. CASE NodeOf(t) = "risk_review"
    <3>1. facts' = [facts EXCEPT ![t].caution = Caution(t)]
      BY <2>2 DEF Review
    <3>2. Caution(t) \in Levels
      BY DEF Caution, Levels
    <3>3. [facts[t] EXCEPT !.caution = Caution(t)] \in Facts
      BY <2>1, <3>2 DEF Facts
    <3>4. QED
      BY <2>1, <3>1, <3>3
  <2>3. CASE NodeOf(t) = "composer"
    <3>1. facts' = [facts EXCEPT ![t].posture = Posture(t)]
      BY <2>3 DEF Review
    <3>2. [facts[t] EXCEPT !.posture = Posture(t)] \in Facts
      BY <2>1 DEF Facts, Posture
    <3>3. QED
      BY <2>1, <3>1, <3>2
  <2>4. CASE NodeOf(t) \notin {"risk_review", "composer"}
    BY <2>1, <2>4 DEF Review
  <2>5. QED
    BY <2>2, <2>3, <2>4
<1>3. QED
  BY <1>1, <1>2, ObservingKeeps DEF Review, WellFormed, TypeOK, historyVars

\* A node that gathers is observed, or tried again if it was degraded.
LEMMA GatherKeeps ==
    ASSUME WellFormed, NEW t \in Turns, Gather(t)
    PROVE  /\ WellFormed' /\ OthersKeep(t)
           /\ \A q \in Turns : facts'[q].posture = facts[q].posture
           /\ \E g \in [status : Statuses, bad : BOOLEAN] :
                 /\ g.bad => g.status \in {"degraded", "skipped"}
                 /\ raised' = [raised EXCEPT ![t] = IF g.bad THEN @ \cup {NodeOf(t)}
                                                    ELSE @ \ {NodeOf(t)}]
                 /\ \/ /\ Repeats(t, g.status, g.bad)
                       /\ at' = at /\ seen' = seen /\ attempt'[t] = 2
                    \/ Observes(t, g.status)
<1>1. PICK g \in Outcomes(t) :
          /\ Return(t, g.status, g.bad)
          /\ facts' = IF \/ NodeOf(t) # "market"
                         \/ Repeats(t, g.status, g.bad)
                      THEN facts ELSE
                [facts EXCEPT ![t].resolved = SnapshotSymbol(t)]
          /\ raised' = [raised EXCEPT ![t] = IF g.bad THEN @ \cup {NodeOf(t)}
                                             ELSE @ \ {NodeOf(t)}]
  BY DEF Gather
<1>2. /\ pc[t] = "nodes" /\ at[t] <= Len(NodesOf(t)) /\ ~Skips(t)
      /\ NodeOf(t) \in SnapshotNodes \ {"chart"}
      /\ UNCHANGED <<request, pc, route, script, note, trace, calls, chart, faults,
                     crossed, repeatable>>
  BY DEF Gather
<1>3. TypeOK
  BY DEF WellFormed
<1>4. g.status \in Statuses /\ g.bad \in BOOLEAN /\ (g.bad => g.status \in {"degraded", "skipped"})
  BY <1>2, <1>3, GatheredOutcomes
<1>5. /\ ObservedTypes /\ OthersKeep(t)
      /\ \/ /\ Repeats(t, g.status, g.bad)
            /\ at' = at /\ seen' = seen /\ attempt'[t] = 2
         \/ ~Repeats(t, g.status, g.bad) /\ Observes(t, g.status)
  BY <1>1, <1>2, <1>3, <1>4, Returned
<1>6. facts' \in [Turns -> Facts] /\ \A q \in Turns : facts'[q].posture = facts[q].posture
  <2>1. facts \in [Turns -> Facts] /\ facts[t] \in Facts
    BY <1>3 DEF TypeOK
  <2>2. CASE facts' = facts
    BY <2>1, <2>2
  <2>3. CASE facts' = [facts EXCEPT ![t].resolved = SnapshotSymbol(t)] /\ NodeOf(t) = "market"
    <3>1. SnapshotSymbol(t) \in Assets
      <4>1. RequestedSymbol(t) \in Assets
        BY <1>2, <1>3, RequestFacts DEF WellFormed, Placed
      <4>2. facts[t].effective \in Assets
        BY <2>1 DEF Facts
      <4>3. QED
        BY <4>1, <4>2 DEF SnapshotSymbol, ChartSymbol, Assets
    <3> DEFINE f == [facts[t] EXCEPT !.resolved = SnapshotSymbol(t)]
    <3>2. f \in Facts /\ f.posture = facts[t].posture
      BY <2>1, <3>1 DEF Facts
    <3>3. facts' = [facts EXCEPT ![t] = f]
      BY <2>3
    <3> HIDE DEF f
    <3>4. QED
      BY <2>1, <3>2, <3>3
  <2>4. QED
    BY <1>1, <2>2, <2>3
<1>7. raised' \in [Turns -> SUBSET Nodes] /\ \A q \in Turns \ {t} : raised'[q] = raised[q]
  <2>1. NodeOf(t) \in Nodes /\ raised \in [Turns -> SUBSET Nodes]
    BY <1>2, <1>3, NodeFacts DEF TypeOK
  <2>2. QED
    BY <2>1, <1>1
<1>8. WellFormed'
  BY <1>2, <1>5, <1>6, <1>7, ObservingKeeps
<1>9. \E h \in [status : Statuses, bad : BOOLEAN] : h.status = g.status /\ (h.bad <=> g.bad)
  <2> DEFINE h == [status |-> g.status, bad |-> g.bad]
  <2>1. h \in [status : Statuses, bad : BOOLEAN] /\ h.status = g.status /\ (h.bad <=> g.bad)
    BY <1>4
  <2>2. QED
    BY <2>1
<1>10. PICK h \in [status : Statuses, bad : BOOLEAN] : h.status = g.status /\ h.bad = g.bad
  BY <1>4, <1>9
<1>11. QED
  BY <1>1, <1>4, <1>5, <1>6, <1>8, <1>10

\* The chart node begins with a look and a blank note.
LEMMA StartChartKeeps ==
    ASSUME WellFormed, NEW t \in Turns, StartChart(t)
    PROVE  WellFormed' /\ note'[t] = NoNote /\ \A q \in Turns \ {t} : note'[q] = note[q]
<1>1. SameRoutes
  BY RoutesStay DEF StartChart
<1>2. <<<<"look", "none">>>> \in Seq(AllowedCommands(t))
  BY DEF AllowedCommands, Commands, ChartOps
<1>3. <<<<"look", "none">>>> \in Seq(Commands)
  BY <1>2 DEF AllowedCommands
<1>4. NoNote \in Notes
  BY DEF NoNote, Notes, Assets, Rsi
<1>5. note' \in [Turns -> Notes] /\ note'[t] = NoNote /\ \A q \in Turns \ {t} : note'[q] = note[q]
  BY <1>4 DEF WellFormed, TypeOK, StartChart
<1>6. script' \in [Turns -> Seq(Commands)] /\ script'[t] = <<<<"look", "none">>>>
      /\ \A q \in Turns \ {t} : script'[q] = script[q]
  BY <1>3 DEF WellFormed, TypeOK, StartChart
<1>7. /\ pc' \in [Turns -> {"new", "nodes", "chart", "model", "ended", "unprepared"}]
      /\ pc'[t] = "chart" /\ \A q \in Turns \ {t} : pc'[q] = pc[q]
  BY DEF WellFormed, TypeOK, StartChart
<1>8. raised' \in [Turns -> SUBSET Nodes] /\ \A q \in Turns \ {t} : raised'[q] = raised[q]
  BY DEF WellFormed, TypeOK, StartChart
<1>9. TypeOK'
  BY <1>1, <1>5, <1>6, <1>7, <1>8 DEF WellFormed, TypeOK, StartChart, SameRoutes
<1>10. Placed'
  BY <1>1, <1>6, <1>7, <1>8 DEF WellFormed, Placed, StartChart, SameRoutes, Begun, NodeOf
<1>11. Scripted'
  BY <1>1, <1>2, <1>6 DEF WellFormed, Scripted, SameRoutes
<1>12. QED
  BY <1>5, <1>9, <1>10, <1>11 DEF WellFormed

\* A command of the node.
LEMMA CommandKeeps ==
    ASSUME WellFormed, NEW t \in Turns, Command(t)
    PROVE  WellFormed'
<1>1. PICK op \in ChartOps, item \in {"none", "stop", "level"}, done \in BOOLEAN,
           bad \in BOOLEAN, failed \in BOOLEAN : CommandIs(t, op, item, done, bad, failed)
  BY CommandDoes DEF WellFormed
<1>2. /\ chart' \in Charts /\ note' \in [Turns -> Notes] /\ script' \in [Turns -> Seq(Commands)]
      /\ \A q \in Turns : script'[q] \in Seq(AllowedCommands(q))
      /\ \A q \in Turns \ {t} : script'[q] = script[q]
      /\ crossed' = crossed \cup Crossed(t) \cup (IF op = "align" /\ ~done THEN {t} ELSE {})
      /\ raised' = [raised EXCEPT ![t] = IF failed THEN @ \cup {"chart"} ELSE @]
      /\ repeatable' = IF failed THEN repeatable \cup {t} ELSE repeatable
      /\ faults' \in 0..MaxFaults
      /\ UNCHANGED <<request, pc, route, at, attempt, seen, facts, trace, calls>>
  BY <1>1 DEF CommandIs
<1>3. SameRoutes
  BY <1>2, RoutesStay
<1>4. crossed' \subseteq Turns /\ repeatable' \subseteq Turns
  BY <1>2 DEF WellFormed, TypeOK, Crossed, Working
<1>5. raised' \in [Turns -> SUBSET Nodes] /\ \A q \in Turns \ {t} : raised'[q] = raised[q]
  BY <1>2 DEF WellFormed, TypeOK, Nodes, SnapshotNodes
<1>6. TypeOK'
  BY <1>2, <1>3, <1>4, <1>5 DEF WellFormed, TypeOK, SameRoutes
<1>7. Placed'
  <2>1. pc[t] = "chart" /\ UNCHANGED <<request, pc, route, at, attempt, seen>>
    BY <1>2 DEF Command
  <2>2. \A q \in Turns \ {t} : script'[q] = script[q] /\ raised'[q] = raised[q]
    BY <1>2, <1>5
  <2>3. Placed
    BY DEF WellFormed
  <2>4. QED
    BY <1>3, <2>1, <2>2, <2>3 DEF Placed, SameRoutes, Begun, NodeOf
<1>8. Scripted'
  BY <1>2, <1>3 DEF Scripted, SameRoutes
<1>9. QED
  BY <1>6, <1>7, <1>8 DEF WellFormed

\* The artifact is the last of a script.
LEMMA PersistKeeps ==
    ASSUME WellFormed, NEW t \in Turns, Persist(t)
    PROVE  /\ WellFormed' /\ script'[t] = Tail(script[t]) /\ script[t][1][1] = "persist"
           /\ \A q \in Turns \ {t} : script'[q] = script[q]
<1>1. SameRoutes
  BY RoutesStay DEF Persist
<1>2. /\ script[t] \in Seq(AllowedCommands(t)) /\ script[t] # <<>>
      /\ script \in [Turns -> Seq(Commands)] /\ script[t] \in Seq(Commands)
  BY DEF WellFormed, TypeOK, Scripted, Persist
<1>3. Tail(script[t]) \in Seq(AllowedCommands(t)) /\ Tail(script[t]) \in Seq(Commands)
  BY <1>2
<1>4. /\ script' \in [Turns -> Seq(Commands)] /\ script'[t] = Tail(script[t])
      /\ \A q \in Turns \ {t} : script'[q] = script[q]
  BY <1>2, <1>3 DEF Persist
<1>5. TypeOK'
  BY <1>1, <1>4 DEF WellFormed, TypeOK, Persist, SameRoutes, historyVars
<1>6. Placed'
  BY <1>1, <1>4 DEF WellFormed, Placed, Persist, SameRoutes, historyVars, Begun, NodeOf
<1>7. Scripted'
  BY <1>1, <1>3, <1>4 DEF WellFormed, Scripted, SameRoutes
<1>8. QED
  BY <1>4, <1>5, <1>6, <1>7 DEF WellFormed, Persist

\* The chart node is observed, or tried again, with a blank note.
LEMMA ChartReturnsKeeps ==
    ASSUME WellFormed, NEW t \in Turns, ChartReturns(t)
    PROVE  /\ WellFormed' /\ OthersKeep(t)
           /\ note'[t] = NoNote /\ \A q \in Turns \ {t} : note'[q] = note[q]
           /\ \A q \in Turns : facts'[q].posture = facts[q].posture
           /\ \/ /\ Repeats(t, ChartStatus(t), ChartRetryable(t))
                 /\ at' = at /\ seen' = seen /\ attempt'[t] = 2
              \/ Observes(t, ChartStatus(t))
<1>1. /\ pc[t] = "chart" /\ script[t] = <<>> /\ Return(t, ChartStatus(t), ChartRetryable(t))
      /\ note' = [note EXCEPT ![t] = NoNote] /\ pc' = [pc EXCEPT ![t] = "nodes"]
      /\ UNCHANGED <<request, route, script, trace, calls, chart, faults, historyVars>>
  BY DEF ChartReturns
<1>2. TypeOK /\ at[t] <= Len(NodesOf(t)) /\ ChartStatus(t) \in Statuses
  BY <1>1 DEF WellFormed, Placed, ChartStatus, Statuses
<1>3. /\ ObservedTypes /\ OthersKeep(t)
      /\ \/ /\ Repeats(t, ChartStatus(t), ChartRetryable(t))
            /\ at' = at /\ seen' = seen /\ attempt'[t] = 2
         \/ /\ ~Repeats(t, ChartStatus(t), ChartRetryable(t))
            /\ Observes(t, ChartStatus(t))
  BY <1>1, <1>2, Returned
<1>4. NoNote \in Notes
  BY DEF NoNote, Notes, Assets, Rsi
<1>5. note' \in [Turns -> Notes] /\ note'[t] = NoNote /\ \A q \in Turns \ {t} : note'[q] = note[q]
  BY <1>1, <1>2, <1>4 DEF TypeOK
<1>6. facts' \in [Turns -> Facts] /\ \A q \in Turns : facts'[q].posture = facts[q].posture
  <2>1. facts \in [Turns -> Facts] /\ facts[t] \in Facts /\ note[t] \in Notes
    BY <1>2 DEF TypeOK
  <2>2. CASE facts' = facts
    BY <2>1, <2>2
  <2>3. CASE facts' # facts
    <3> DEFINE unmet == Unmet(t) /\ ~note[t].aborted
               stop == <<"draw", "stop">> \in note[t].applied
               f == [facts[t] EXCEPT !.effective = note[t].seen, !.blocked = note[t].blocked,
                       !.unmet = unmet, !.rsi = note[t].rsi, !.stop = stop]
    <3>1. facts' = [facts EXCEPT ![t] = f]
      BY <2>3 DEF ChartReturns
    <3>2. unmet \in BOOLEAN /\ stop \in BOOLEAN
      OBVIOUS
    <3>3. note[t].seen \in Assets /\ note[t].blocked \in BOOLEAN /\ note[t].rsi \in Rsi
      BY <2>1 DEF Notes
    <3> HIDE DEF unmet, stop
    <3>4. f \in Facts /\ f.posture = facts[t].posture
      BY <2>1, <3>2, <3>3 DEF Facts
    <3> HIDE DEF f
    <3>5. QED
      BY <2>1, <3>1, <3>4
  <2>4. QED
    BY <2>2, <2>3
<1>7. SameRoutes
  BY <1>1, RoutesStay
<1>8. /\ pc' \in [Turns -> {"new", "nodes", "chart", "model", "ended", "unprepared"}]
      /\ pc'[t] = "nodes" /\ \A q \in Turns \ {t} : pc'[q] = pc[q]
  BY <1>1, <1>2 DEF TypeOK
<1>9. TypeOK'
  BY <1>1, <1>3, <1>5, <1>6, <1>7, <1>8 DEF WellFormed, TypeOK, SameRoutes, ObservedTypes,
                                               historyVars
<1>10. Placed'
  BY <1>1, <1>3, <1>7, <1>8 DEF WellFormed, Placed, SameRoutes, Begun, NodeOf, OthersKeep,
                                  historyVars
<1>11. Scripted'
  BY <1>1, <1>7 DEF WellFormed, Scripted, SameRoutes
<1>12. QED
  BY <1>3, <1>5, <1>6, <1>9, <1>10, <1>11 DEF WellFormed

\* Steps of a turn that leave its nodes, its script and what it noted.
LEMMA ModelKeeps ==
    ASSUME WellFormed, NEW t \in Turns, pc[t] \notin {"new", "unprepared"},
           NEW p \in {"nodes", "model", "ended"}, pc' = [pc EXCEPT ![t] = p],
           trace' \in [Turns -> Traces], calls' \in [Turns -> Nat], chart' \in Charts,
           crossed' \subseteq Turns,
           UNCHANGED <<request, route, at, attempt, script, note, seen, facts, faults,
                       raised, repeatable>>
    PROVE  WellFormed'
<1>1. SameRoutes
  BY RoutesStay
<1>2. /\ pc' \in [Turns -> {"new", "nodes", "chart", "model", "ended", "unprepared"}]
      /\ pc'[t] = p /\ \A q \in Turns \ {t} : pc'[q] = pc[q]
  BY DEF WellFormed, TypeOK
<1>3. TypeOK'
  BY <1>1, <1>2 DEF WellFormed, TypeOK, SameRoutes
<1>4. Placed'
  BY <1>1, <1>2 DEF WellFormed, Placed, SameRoutes, Begun, NodeOf
<1>5. Scripted'
  BY <1>1 DEF WellFormed, Scripted, SameRoutes
<1>6. QED
  BY <1>3, <1>4, <1>5 DEF WellFormed

\* The model starts on the trace of the nodes.
LEMMA StartModelKeeps ==
    ASSUME WellFormed, NEW t \in Turns, StartModel(t)
    PROVE  WellFormed'
<1>1. TypeOK
  BY DEF WellFormed
<1>2. NodesRan(t) \in Traces
  <2>1. trace[t] \in Traces
    BY <1>1 DEF TypeOK
  <2>2. NextAgent(t) \in {"planned_only", "clarification_node_completed",
            "general_node_completed", "represented_by_pipeline_nodes",
            "represented_by_pipeline_nodes_degraded"}
    BY DEF NextAgent
  <2> DEFINE graph == IF DegradedNodes(t) = {} THEN "completed" ELSE "degraded"
             fallback == IF DegradedNodes(t) = {} THEN trace[t].fallback
                         ELSE "pipeline_node_degraded"
             next == NextAgent(t)
  <2>3. /\ graph \in {"none", "running", "completed", "degraded"}
        /\ fallback \in {"none", "low_confidence_route", "clarification_required",
                         "pipeline_node_degraded", "safe_error_response",
                         "safe_stream_error"}
    BY <2>1 DEF Traces
  <2>4. /\ trace[t].completion \in {"pending", "completed", "degraded", "failed"}
        /\ trace[t].final \in {"pending", "completed", "degraded", "failed"}
    BY <2>1 DEF Traces
  <2>5. NodesRan(t) = [trace[t] EXCEPT !.execution = "running", !.graph = graph,
                                       !.fallback = fallback, !.next = next]
    BY DEF NodesRan
  <2> HIDE DEF graph, fallback, next
  <2>6. NodesRan(t) = [execution |-> "running", completion |-> trace[t].completion,
                       graph |-> graph, fallback |-> fallback, final |-> trace[t].final,
                       next |-> next]
    BY <2>1, <2>5 DEF Traces
  <2>7. QED
    BY <2>2, <2>3, <2>4, <2>6 DEF Traces, next
<1>3. trace' \in [Turns -> Traces]
  BY <1>1, <1>2 DEF TypeOK, StartModel
<1>4. QED
  BY <1>1, <1>3, ModelKeeps DEF StartModel, TypeOK, historyVars

\* A tool call changes the chart as the tool does, or not.
LEMMA ExecutesKeeps ==
    ASSUME WellFormed, NEW t \in Turns, NEW bad, Executes(t, bad)
    PROVE  /\ chart' \in Charts /\ crossed' \subseteq Turns /\ calls' \in [Turns -> Nat]
           /\ \/ chart'.lines \subseteq chart.lines
              \/ /\ "tv_draw_line" \in OfferedTools(route[t], request[t])
                 /\ chart'.lines \subseteq chart.lines \cup {Line(t, "model", 0)}
<1>1. TypeOK
  BY DEF WellFormed
<1>2. PICK tool \in OfferedTools(route[t], request[t]) :
          chart' \in {chart} \cup ToolEffects(t, tool)
  BY DEF Executes
<1>3. /\ chart' \in Charts
      /\ \/ chart'.lines \subseteq chart.lines
         \/ /\ tool = "tv_draw_line"
            /\ chart'.lines \subseteq chart.lines \cup {Line(t, "model", 0)}
  <2>1. CASE chart' = chart
    BY <1>1, <2>1 DEF TypeOK
  <2>2. CASE chart' \in ToolEffects(t, tool)
    BY <1>1, <2>2, ToolEffectsAre
  <2>3. QED
    BY <1>2, <2>1, <2>2
<1>4. crossed' \subseteq Turns /\ calls' \in [Turns -> Nat]
  BY <1>1 DEF Executes, TypeOK, Crossed, Working
<1>5. QED
  BY <1>2, <1>3, <1>4

\* A tool call of a turn that is not streamed.
LEMMA CallToolKeeps ==
    ASSUME WellFormed, NEW t \in Turns, CallTool(t)
    PROVE  WellFormed'
<1>1. PICK bad \in BOOLEAN :
          /\ Executes(t, bad)
          /\ trace' = IF bad THEN [trace EXCEPT ![t].execution = "degraded"] ELSE trace
  BY DEF CallTool
<1>2. TypeOK
  BY DEF WellFormed
<1>3. trace' \in [Turns -> Traces]
  <2>1. trace \in [Turns -> Traces] /\ trace[t] \in Traces
    BY <1>2 DEF TypeOK
  <2>2. [trace[t] EXCEPT !.execution = "degraded"] \in Traces
    BY <2>1 DEF Traces
  <2>3. QED
    BY <1>1, <2>1, <2>2
<1>4. pc[t] = "model" /\ pc' = [pc EXCEPT ![t] = "model"]
  BY <1>1, <1>2 DEF Executes, TypeOK
<1>5. UNCHANGED <<request, route, at, attempt, script, note, seen, facts, faults, raised,
                  repeatable>>
  BY <1>1 DEF Executes
<1>6. chart' \in Charts /\ crossed' \subseteq Turns /\ calls' \in [Turns -> Nat]
  BY <1>1, ExecutesKeeps
<1>7. QED
  BY <1>3, <1>4, <1>5, <1>6, ModelKeeps

\* A tool call of a streamed turn.
LEMMA CallToolStreamKeeps ==
    ASSUME WellFormed, NEW t \in Turns, CallToolStream(t)
    PROVE  WellFormed'
<1>1. PICK bad \in BOOLEAN :
          /\ Executes(t, bad)
          /\ trace' = [trace EXCEPT ![t].execution = IF bad THEN "degraded" ELSE "running"]
  BY DEF CallToolStream
<1>2. TypeOK
  BY DEF WellFormed
<1>3. trace' \in [Turns -> Traces]
  <2>1. trace \in [Turns -> Traces] /\ trace[t] \in Traces
    BY <1>2 DEF TypeOK
  <2>2. [trace[t] EXCEPT !.execution = IF bad THEN "degraded" ELSE "running"] \in Traces
    BY <2>1 DEF Traces
  <2>3. QED
    BY <1>1, <2>1, <2>2
<1>4. pc[t] = "model" /\ pc' = [pc EXCEPT ![t] = "model"]
  BY <1>1, <1>2 DEF Executes, TypeOK
<1>5. UNCHANGED <<request, route, at, attempt, script, note, seen, facts, faults, raised,
                  repeatable>>
  BY <1>1 DEF Executes
<1>6. chart' \in Charts /\ crossed' \subseteq Turns /\ calls' \in [Turns -> Nat]
  BY <1>1, ExecutesKeeps
<1>7. QED
  BY <1>3, <1>4, <1>5, <1>6, ModelKeeps

\* How a turn ends: well, or with one of the safe answers.
Endings(t) == {CompletedTrace(t), FailedTrace(t, "degraded", "safe_error_response"),
               FailedTrace(t, "failed", "safe_stream_error")}

\* What the trace of an ended turn says, and what it keeps.
LEMMA EndingTraces ==
    ASSUME TypeOK, NEW t \in Turns, NEW ending \in Endings(t)
    PROVE  /\ ending \in Traces
           /\ ending.completion # "pending" /\ ending.final # "pending"
           /\ ending.graph = trace[t].graph
           /\ \/ /\ ending = CompletedTrace(t)
                 /\ ending.execution = "completed" /\ ending.fallback = trace[t].fallback
              \/ /\ ending.execution = "failed"
                 /\ ending.fallback \in {"safe_error_response", "safe_stream_error"}
<1>1. trace[t] \in Traces
  BY DEF TypeOK
<1>2. CASE ending = CompletedTrace(t)
  BY <1>1, <1>2 DEF CompletedTrace, Traces
<1>3. CASE ending = FailedTrace(t, "degraded", "safe_error_response")
  BY <1>1, <1>3 DEF FailedTrace, Traces
<1>4. CASE ending = FailedTrace(t, "failed", "safe_stream_error")
  BY <1>1, <1>4 DEF FailedTrace, Traces
<1>5. QED
  BY <1>2, <1>3, <1>4 DEF Endings

\* A turn ends with one of these traces, and completes only from its model.
LEMMA EndKeeps ==
    ASSUME WellFormed, NEW t \in Turns, End(t) \/ EndStream(t)
    PROVE  /\ WellFormed'
           /\ pc[t] \in {"chart", "model"} /\ pc' = [pc EXCEPT ![t] = "ended"]
           /\ \E ending \in Endings(t) :
                 /\ ending.execution = "completed" => pc[t] = "model"
                 /\ trace' = [trace EXCEPT ![t] = ending]
           /\ UNCHANGED <<request, route, at, attempt, script, note, seen, facts, calls, chart,
                          faults, historyVars>>
<1>1. PICK ending \in Endings(t) :
          Ends(t, ending) /\ (ending.execution = "completed" => pc[t] = "model")
  <2>1. CASE pc[t] = "model"
    BY <2>1 DEF End, EndStream, Endings
  <2>2. CASE pc[t] # "model"
    <3>1. \/ Ends(t, FailedTrace(t, "degraded", "safe_error_response"))
          \/ Ends(t, FailedTrace(t, "failed", "safe_stream_error"))
      BY <2>2 DEF End, EndStream
    <3>2. PICK e \in Endings(t) : Ends(t, e) /\ e.execution = "failed"
      BY <3>1 DEF Endings, FailedTrace, WellFormed, TypeOK, Traces
    <3>3. QED
      BY <3>2
  <2>3. QED
    BY <2>1, <2>2
<1>2. pc[t] \in {"chart", "model"}
  BY DEF End, EndStream
<1>3. /\ pc' = [pc EXCEPT ![t] = "ended"] /\ trace' = [trace EXCEPT ![t] = ending]
      /\ UNCHANGED <<request, route, at, attempt, script, note, seen, facts, calls, chart,
                     faults, historyVars>>
  BY <1>1 DEF Ends
<1>4. ending \in Traces
  BY EndingTraces DEF WellFormed
<1>5. trace' \in [Turns -> Traces]
  BY <1>3, <1>4 DEF WellFormed, TypeOK
<1>6. WellFormed'
  BY <1>2, <1>3, <1>5, ModelKeeps DEF WellFormed, TypeOK, historyVars
<1>7. QED
  BY <1>1, <1>2, <1>3, <1>6

\* Types, places and scripts stay right, whatever turns, nodes and the chart do.
THEOREM WellFormedStays == Spec => []WellFormed
<1>1. Init => WellFormed
  <2> SUFFICES ASSUME Init PROVE WellFormed
    OBVIOUS
  <2>1. Fallback \in Contexts /\ Fallback.groups # {}
    <3>1. Unreadable \in RouterAnswers \cup {Unreadable} /\ Routed(Unreadable) = Fallback
      BY DEF Routed
    <3>2. QED
      BY <3>1, RoutedIsContext
  <2>2. NoNote \in Notes /\ NoFacts \in Facts /\ NewTrace \in Traces
    BY DEF NoNote, Notes, NoFacts, Facts, NewTrace, Traces, Assets, Rsi, Levels
  <2>3. chart \in Charts
    BY DEF Init, Charts
  <2>4. \A t \in Turns : Len(NodesOf(t)) \in Nat
    BY PlanIsItsNodes DEF NodesOf
  <2>5. \A t \in Turns : DOMAIN seen[t] = {} /\ Range(seen[t]) = {}
    BY DEF Init, Range
  <2>6. <<>> \in Seq(Commands) /\ \A t \in Turns : <<>> \in Seq(AllowedCommands(t))
    OBVIOUS
  <2>7. TypeOK
    BY <2>1, <2>2, <2>3, <2>4, <2>5, <2>6, MaxFaultsAssumption DEF Init, TypeOK
  <2>8. Placed
    BY <2>5 DEF Init, Placed, Begun
  <2>9. Scripted
    BY <2>6 DEF Init, Scripted
  <2>10. QED
    BY <2>7, <2>8, <2>9 DEF WellFormed
<1>2. WellFormed /\ [Next]_vars => WellFormed'
  <2> SUFFICES ASSUME WellFormed, [Next]_vars PROVE WellFormed'
    OBVIOUS
  <2>1. ASSUME NEW t \in Turns, Step(t) PROVE WellFormed'
    <3>1. CASE Prepare(t)
      BY <3>1, PrepareKeeps
    <3>2. CASE PrepareFails(t)
      BY <3>2, PrepareFailsKeeps
    <3>3. CASE SkipNode(t)
      BY <3>3, SkipNodeKeeps
    <3>4. CASE Gather(t)
      BY <3>4, GatherKeeps
    <3>5. CASE Review(t)
      BY <3>5, ReviewKeeps
    <3>6. CASE StartChart(t)
      BY <3>6, StartChartKeeps
    <3>7. CASE Command(t)
      BY <3>7, CommandKeeps
    <3>8. CASE Persist(t)
      BY <3>8, PersistKeeps
    <3>9. CASE ChartReturns(t)
      BY <3>9, ChartReturnsKeeps
    <3>10. CASE StartModel(t)
      BY <3>10, StartModelKeeps
    <3>11. CASE CallTool(t)
      BY <3>11, CallToolKeeps
    <3>12. CASE CallToolStream(t)
      BY <3>12, CallToolStreamKeeps
    <3>13. CASE End(t) \/ EndStream(t)
      BY <3>13, EndKeeps
    <3>14. QED
      BY <2>1, <3>1, <3>2, <3>3, <3>4, <3>5, <3>6, <3>7, <3>8, <3>9, <3>10, <3>11,
         <3>12, <3>13 DEF Step
  <2>2. CASE UNCHANGED vars
    <3>1. SameRoutes
      BY <2>2, RoutesStay DEF vars, turnVars
    <3>2. QED
      BY <2>2, <3>1 DEF vars, turnVars, historyVars, WellFormed, TypeOK, Placed, Scripted,
                        SameRoutes, Begun, NodeOf
  <2>3. QED
    BY <2>1, <2>2 DEF Next
<1>3. QED
  BY <1>1, <1>2, PTL DEF Spec

-----------------------------------------------------------------------------
(* What a step leaves of the other turns *)

\* A step is of one turn, which keeps its route once it has one; what was crossed or
\* has failed stays so.
Frame(t) ==
    /\ request' = request
    /\ \A q \in Turns \ {t} :
          /\ pc'[q] = pc[q] /\ route'[q] = route[q] /\ at'[q] = at[q]
          /\ attempt'[q] = attempt[q] /\ script'[q] = script[q] /\ note'[q] = note[q]
          /\ seen'[q] = seen[q] /\ facts'[q].posture = facts[q].posture
          /\ trace'[q] = trace[q] /\ raised'[q] = raised[q]
    /\ Begun(t) => Begun(t)' /\ route'[t] = route[t]
    /\ crossed \subseteq crossed' /\ repeatable \subseteq repeatable'

\* Every step of a turn stays in this frame.
LEMMA StepFrame ==
    ASSUME WellFormed, NEW t \in Turns, Step(t)
    PROVE  WellFormed' /\ Frame(t)
<1> USE DEF historyVars
<1>1. TypeOK
  BY DEF WellFormed
<1>2. CASE Prepare(t)
  <2>1. WellFormed' /\ \E c \in Contexts : /\ route' = [route EXCEPT ![t] = c]
                                          /\ trace' = [trace EXCEPT ![t] = PlannedTrace(c)]
    BY <1>2, PrepareKeeps
  <2>2. pc[t] = "new"
    BY <1>2 DEF Prepare
  <2>3. QED
    BY <1>1, <1>2, <2>1, <2>2 DEF Frame, Prepare, TypeOK, Begun
<1>3. CASE PrepareFails(t)
  BY <1>1, <1>3, PrepareFailsKeeps DEF Frame, PrepareFails, TypeOK, Begun
<1>4. CASE SkipNode(t)
  BY <1>1, <1>4, SkipNodeKeeps DEF Frame, SkipNode, TypeOK, Begun, OthersKeep
<1>5. CASE Gather(t)
  <2>1. /\ WellFormed' /\ OthersKeep(t) /\ \A q \in Turns : facts'[q].posture = facts[q].posture
        /\ \A q \in Turns \ {t} : raised'[q] = raised[q]
    BY <1>1, <1>5, GatherKeeps DEF TypeOK
  <2>2. UNCHANGED <<request, pc, route, script, note, trace, calls, chart, faults,
                    crossed, repeatable>>
    BY <1>5 DEF Gather
  <2>3. QED
    BY <2>1, <2>2 DEF Frame, Begun, OthersKeep
<1>6. CASE Review(t)
  <2>1. \A q \in Turns \ {t} : facts'[q] = facts[q]
    BY <1>1, <1>6 DEF Review, TypeOK
  <2>2. QED
    BY <1>1, <1>6, <2>1, ReviewKeeps DEF Frame, Review, Begun, OthersKeep
<1>7. CASE StartChart(t)
  BY <1>1, <1>7, StartChartKeeps DEF Frame, StartChart, TypeOK, Begun
<1>8. CASE Command(t)
  <2>1. PICK op \in ChartOps, item \in {"none", "stop", "level"}, done \in BOOLEAN,
             bad \in BOOLEAN, failed \in BOOLEAN : CommandIs(t, op, item, done, bad, failed)
    BY <1>8, CommandDoes DEF WellFormed
  <2>2. /\ \A q \in Turns \ {t} : script'[q] = script[q] /\ note'[q] = note[q]
        /\ crossed \subseteq crossed' /\ repeatable \subseteq repeatable'
        /\ UNCHANGED <<request, pc, route, at, attempt, seen, facts, trace, calls>>
    BY <2>1 DEF CommandIs
  <2>3. \A q \in Turns \ {t} : raised'[q] = raised[q]
    BY <1>1, <2>1 DEF CommandIs, TypeOK
  <2>4. QED
    BY <1>8, <2>2, <2>3, CommandKeeps DEF Frame, Begun
<1>9. CASE Persist(t)
  BY <1>1, <1>9, PersistKeeps DEF Frame, Persist, Begun
<1>10. CASE ChartReturns(t)
  <2>1. \A q \in Turns \ {t} : pc'[q] = pc[q]
    BY <1>1, <1>10 DEF ChartReturns, TypeOK
  <2>2. pc[t] = "chart" /\ pc'[t] = "nodes"
    BY <1>1, <1>10 DEF ChartReturns, TypeOK
  <2>3. UNCHANGED <<request, route, script, trace, calls, chart, faults, historyVars>>
    BY <1>10 DEF ChartReturns
  <2>4. QED
    BY <1>10, <2>1, <2>2, <2>3, ChartReturnsKeeps DEF Frame, Begun, OthersKeep
<1>11. CASE StartModel(t)
  BY <1>1, <1>11, StartModelKeeps DEF Frame, StartModel, TypeOK, Begun
<1>12. CASE CallTool(t) \/ CallToolStream(t)
  <2>1. PICK bad : Executes(t, bad)
    BY <1>12 DEF CallTool, CallToolStream
  <2>2. \A q \in Turns \ {t} : trace'[q] = trace[q]
    BY <1>1, <1>12 DEF CallTool, CallToolStream, TypeOK
  <2>3. WellFormed'
    BY <1>12, CallToolKeeps, CallToolStreamKeeps
  <2>4. QED
    BY <2>1, <2>2, <2>3 DEF Frame, Executes, Begun
<1>13. CASE End(t) \/ EndStream(t)
  <2>1. PICK ending \in Endings(t) : trace' = [trace EXCEPT ![t] = ending]
    BY <1>13, EndKeeps
  <2>2. \A q \in Turns \ {t} : trace'[q] = trace[q] /\ pc'[q] = pc[q]
    BY <1>1, <1>13, <2>1, EndKeeps DEF TypeOK
  <2>3. pc'[t] = "ended"
    BY <1>1, <1>13, EndKeeps DEF TypeOK
  <2>4. QED
    BY <1>13, <2>2, <2>3, EndKeeps DEF Frame, Begun
<1>14. QED
  BY <1>2, <1>3, <1>4, <1>5, <1>6, <1>7, <1>8, <1>9, <1>10, <1>11, <1>12, <1>13 DEF Step

\* A turn that keeps its route keeps its plan and what it is to do.
LEMMA KeptRoutes ==
    ASSUME NEW q, request' = request, route'[q] = route[q]
    PROVE  /\ NodesOf(q)' = NodesOf(q) /\ Writing(q)' = Writing(q)
           /\ (at'[q] = at[q] => NodeOf(q)' = NodeOf(q))
BY DEF NodesOf, Writing, NodeOf

\* What a step does to the chart.
LEMMA StepOnChart ==
    ASSUME WellFormed, NEW t \in Turns, Step(t)
    PROVE  /\ chart'.symbol = chart.symbol \/ \A q \in Working \ {t} : q \in crossed'
           /\ \/ chart'.lines \subseteq chart.lines
              \/ \E item \in {"stop", "level"} :
                    /\ Command(t) /\ pc[t] = "chart" /\ Writing(t)
                    /\ script[t] # <<>> /\ script[t][1][1] = "draw"
                    /\ chart'.lines = chart.lines \cup {Line(t, item, attempt[t])}
              \/ /\ pc[t] = "model" /\ "tv_draw_line" \in OfferedTools(route[t], request[t])
                 /\ chart'.lines \subseteq chart.lines \cup {Line(t, "model", 0)}
<1>1. CASE Command(t)
  <2>1. PICK op \in ChartOps, item \in {"none", "stop", "level"}, done \in BOOLEAN,
             bad \in BOOLEAN, failed \in BOOLEAN : CommandIs(t, op, item, done, bad, failed)
    BY <1>1, CommandDoes DEF WellFormed
  <2>2. \/ chart'.lines \subseteq chart.lines
        \/ /\ op = "draw" /\ item \in {"stop", "level"} /\ Writing(t)
           /\ script[t] # <<>> /\ op = script[t][1][1]
           /\ chart'.lines = chart.lines \cup {Line(t, item, attempt[t])}
    BY <2>1 DEF CommandIs
  <2>3. chart'.symbol = chart.symbol \/ \A q \in Working \ {t} : q \in crossed'
    BY <2>1 DEF CommandIs, Crossed
  <2>4. pc[t] = "chart"
    BY <1>1 DEF Command
  <2>5. QED
    BY <1>1, <2>2, <2>3, <2>4
<1>2. CASE CallTool(t) \/ CallToolStream(t)
  <2>1. PICK bad : Executes(t, bad)
    BY <1>2 DEF CallTool, CallToolStream
  <2>2. QED
    BY <2>1, ExecutesKeeps DEF Executes, Crossed
<1>3. CASE ~(Command(t) \/ CallTool(t) \/ CallToolStream(t))
  <2>1. chart' = chart
    BY <1>3 DEF Step, Prepare, PrepareFails, SkipNode, Gather, Review, StartChart, Persist,
                ChartReturns, StartModel, End, EndStream, Ends
  <2>2. QED
    BY <2>1
<1>4. QED
  BY <1>1, <1>2, <1>3


\* A line that was not there is the turn's, where the chart is: one its chart node
\* draws, or one the model does with a tool it was offered.
LEMMA NewLines ==
    ASSUME WellFormed, NEW t \in Turns, Step(t), NEW l \in chart'.lines, l \notin chart.lines
    PROVE  /\ l.turn = t /\ l.symbol = chart.symbol
           /\ \/ /\ l.item = "model" /\ l.attempt = 0 /\ pc[t] = "model"
                 /\ "tv_draw_line" \in OfferedTools(route[t], request[t])
              \/ /\ l.item # "model" /\ l.attempt = attempt[t] /\ pc[t] = "chart" /\ Writing(t)
                 /\ script[t] # <<>> /\ script[t][1][1] = "draw"
<1>1. ASSUME NEW item, NEW try, l = Line(t, item, try)
      PROVE  l.turn = t /\ l.symbol = chart.symbol /\ l.item = item /\ l.attempt = try
  BY <1>1 DEF Line
<1>2. CASE \E item \in {"stop", "level"} :
              /\ pc[t] = "chart" /\ Writing(t)
              /\ script[t] # <<>> /\ script[t][1][1] = "draw"
              /\ chart'.lines = chart.lines \cup {Line(t, item, attempt[t])}
  <2>1. PICK item \in {"stop", "level"} : l = Line(t, item, attempt[t])
    BY <1>2
  <2>2. QED
    BY <1>1, <1>2, <2>1
<1>3. CASE /\ pc[t] = "model" /\ "tv_draw_line" \in OfferedTools(route[t], request[t])
           /\ chart'.lines \subseteq chart.lines \cup {Line(t, "model", 0)}
  <2>1. l = Line(t, "model", 0)
    BY <1>3
  <2>2. QED
    BY <1>1, <1>3, <2>1
<1>4. QED
  BY <1>2, <1>3, StepOnChart

\* A step draws only for turns that may.
LEMMA DrawnStep ==
    ASSUME WellFormed, Drawn, NEW t \in Turns, Step(t)
    PROVE  Drawn'
<1>1. Frame(t)
  BY StepFrame
<1>2. ASSUME NEW q \in Turns, Begun(q), ChartPlanned(route[q], request[q]) => Writing(q)
      PROVE  /\ Begun(q)'
             /\ ChartPlanned(route'[q], request'[q]) => Writing(q)'
  <2>1. Begun(q)' /\ route'[q] = route[q] /\ request' = request
    BY <1>1, <1>2 DEF Frame, Begun
  <2>2. QED
    BY <1>2, <2>1 DEF Writing
<1>3. ASSUME NEW l \in chart'.lines
      PROVE  /\ l.turn \in Turns /\ Begun(l.turn)
             /\ ChartPlanned(route[l.turn], request[l.turn]) => Writing(l.turn)
  <2>1. CASE l \in chart.lines
    BY <2>1 DEF WellFormed, TypeOK, Charts, Lines, Drawn
  <2>2. CASE l \notin chart.lines
    <3>1. route[t] \in Contexts
      BY DEF WellFormed, TypeOK
    <3>2. l.turn = t /\ pc[t] \in {"chart", "model"}
          /\ (Writing(t) \/ "tv_draw_line" \in OfferedTools(route[t], request[t]))
      BY <2>2, NewLines
    <3>3. ChartPlanned(route[t], request[t]) => Writing(t)
      BY <3>1, <3>2, AnalysisTools DEF Writing, DrawingTools
    <3>4. QED
      BY <3>2, <3>3 DEF Begun
  <2>3. QED
    BY <2>1, <2>2
<1>4. QED
  BY <1>2, <1>3 DEF Drawn

-----------------------------------------------------------------------------
(* A second attempt follows a failing call *)

\* What a step of its own does to a turn's attempt at the chart.
LEMMA AttemptsOfChart ==
    ASSUME WellFormed, Attempted, NEW t \in Turns, Step(t)
    PROVE  /\ note'[t].errors \/ note'[t].aborted => t \in repeatable'
           /\ attempt'[t] = 2 /\ at'[t] <= Len(NodesOf(t)') /\ NodeOf(t)' = "chart"
              => t \in repeatable'
<1>1. TypeOK /\ Placed
  BY DEF WellFormed
<1>2. /\ note[t].errors \/ note[t].aborted => t \in repeatable
      /\ attempt[t] = 2 /\ at[t] <= Len(NodesOf(t)) /\ NodeOf(t) = "chart"
         => t \in repeatable
  BY DEF Attempted
<1>3. ~NoNote.errors /\ ~NoNote.aborted
  BY DEF NoNote
<1>4. Begun(t) => /\ route'[t] = route[t] /\ request' = request
                  /\ NodesOf(t)' = NodesOf(t)
                  /\ (at'[t] = at[t] => NodeOf(t)' = NodeOf(t))
  BY StepFrame, KeptRoutes DEF Frame
<1>5. repeatable \subseteq repeatable'
  BY StepFrame DEF Frame
<1>6. CASE Prepare(t) \/ PrepareFails(t)
  <2>1. attempt'[t] = 1 /\ note' = note
    BY <1>1, <1>6 DEF Prepare, PrepareFails, Placed
  <2>2. QED
    BY <1>2, <1>5, <2>1
<1>7. CASE SkipNode(t) \/ Review(t)
  <2>1. attempt'[t] = 1 /\ note' = note
    BY <1>7, SkipNodeKeeps, ReviewKeeps DEF Observes, SkipNode, Review
  <2>2. QED
    BY <1>2, <1>5, <2>1
<1>8. CASE Gather(t)
  <2>1. attempt'[t] = 1 \/ at' = at
    BY <1>8, GatherKeeps DEF Observes
  <2>2. note' = note /\ pc[t] = "nodes" /\ NodeOf(t) # "chart"
    BY <1>8 DEF Gather
  <2>3. QED
    BY <1>2, <1>4, <1>5, <2>1, <2>2 DEF Begun
<1>9. CASE StartChart(t)
  <2>1. note'[t] = NoNote
    BY <1>9, StartChartKeeps
  <2>2. pc[t] = "nodes" /\ UNCHANGED <<at, attempt>>
    BY <1>9 DEF StartChart
  <2>3. QED
    BY <1>2, <1>3, <1>4, <1>5, <2>1, <2>2 DEF Begun
<1>10. CASE Command(t)
  <2>1. PICK op \in ChartOps, item \in {"none", "stop", "level"}, done \in BOOLEAN,
             bad \in BOOLEAN, failed \in BOOLEAN : CommandIs(t, op, item, done, bad, failed)
    BY <1>10, CommandDoes DEF WellFormed
  <2>2. /\ note'[t].errors => note[t].errors \/ failed
        /\ note'[t].aborted => failed
        /\ failed => t \in repeatable'
        /\ UNCHANGED <<pc, at, attempt>>
    BY <2>1 DEF CommandIs
  <2>3. pc[t] = "chart"
    BY <1>10 DEF Command
  <2>4. QED
    BY <1>2, <1>4, <1>5, <2>2, <2>3 DEF Begun
<1>11. CASE ChartReturns(t)
  <2>1. pc[t] = "chart" /\ at[t] <= Len(NodesOf(t)) /\ NodeOf(t) = "chart"
    BY <1>1, <1>11 DEF ChartReturns, Placed
  <2>2. note'[t] = NoNote
    BY <1>11, ChartReturnsKeeps
  <2>3. attempt'[t] = 1 \/ ChartRetryable(t)
    BY <1>11, ChartReturnsKeeps DEF Observes, Repeats
  <2>4. QED
    BY <1>2, <1>3, <1>5, <2>2, <2>3 DEF ChartRetryable
<1>12. CASE \/ Persist(t) \/ StartModel(t) \/ CallTool(t) \/ CallToolStream(t)
            \/ End(t) \/ EndStream(t)
  <2>1. Begun(t) /\ UNCHANGED <<at, attempt, note>>
    BY <1>12 DEF Persist, StartModel, CallTool, CallToolStream, Executes, End, EndStream,
                 Ends, Begun
  <2>2. QED
    BY <1>2, <1>4, <1>5, <2>1
<1>13. QED
  BY <1>6, <1>7, <1>8, <1>9, <1>10, <1>11, <1>12 DEF Step

\* A step keeps what is known of attempts and of the lines they drew.
LEMMA AttemptedStep ==
    ASSUME WellFormed, Attempted, NEW t \in Turns, Step(t)
    PROVE  Attempted'
<1>1. Frame(t)
  BY StepFrame
<1>2. ASSUME NEW q \in Turns \ {t}
      PROVE  /\ note'[q].errors \/ note'[q].aborted => q \in repeatable'
             /\ attempt'[q] = 2 /\ at'[q] <= Len(NodesOf(q)') /\ NodeOf(q)' = "chart"
                => q \in repeatable'
  <2>1. /\ request' = request /\ route'[q] = route[q] /\ at'[q] = at[q]
        /\ attempt'[q] = attempt[q] /\ note'[q] = note[q] /\ repeatable \subseteq repeatable'
    BY <1>1 DEF Frame
  <2>2. NodesOf(q)' = NodesOf(q) /\ NodeOf(q)' = NodeOf(q)
    BY <2>1, KeptRoutes
  <2>3. QED
    BY <2>1, <2>2 DEF Attempted
<1>3. ASSUME NEW l \in chart'.lines
      PROVE  /\ l.item = "model" <=> l.attempt = 0
             /\ l.attempt = 2 => l.turn \in repeatable'
  <2>1. repeatable \subseteq repeatable'
    BY <1>1 DEF Frame
  <2>2. CASE l \in chart.lines
    BY <2>1, <2>2 DEF Attempted
  <2>3. CASE l \notin chart.lines
    <3>1. attempt[t] \in 1..2
      BY DEF WellFormed, TypeOK
    <3>2. pc[t] = "chart" /\ attempt[t] = 2 => t \in repeatable
      BY DEF WellFormed, Placed, Attempted
    <3>3. QED
      BY <2>1, <2>3, <3>1, <3>2, NewLines
  <2>4. QED
    BY <2>2, <2>3
<1>4. QED
  BY <1>2, <1>3, AttemptsOfChart DEF Attempted

-----------------------------------------------------------------------------
(* A free turn's chart is on its asset *)

\* If there is nothing to align, the chart was seen on the asset of a free turn.
LEMMA AlignedAfterLook ==
    ASSUME NEW t, Free(t), NEW symbol, Alignment(t, symbol) = <<>>
    PROVE  symbol = request[t].text
<1>1. RequestedSymbol(t) = request[t].text /\ request[t].text # NoSymbol
  BY DEF Free, RequestedSymbol
<1>2. ~SymbolBlocked(t, symbol)
  BY <1>1 DEF Free, SymbolBlocked
<1>3. <<<<"align", "none">>, <<"recheck", "none">>>> # <<>>
  OBVIOUS
<1>4. QED
  BY <1>1, <1>2, <1>3 DEF Alignment

\* A script that aligns begins with it.
LEMMA AlignmentLeads ==
    ASSUME NEW t, NEW symbol, NEW S, NEW rest \in Seq(S),
           Alignment(t, symbol) # <<>>
    PROVE  (Alignment(t, symbol) \o rest)[1] = <<"align", "none">>
<1> DEFINE a == <<<<"align", "none">>, <<"recheck", "none">>>>
           T == {<<"align", "none">>, <<"recheck", "none">>} \cup S
<1>1. Alignment(t, symbol) = a
  BY DEF Alignment
<1>2. a \in Seq(T) /\ rest \in Seq(T) /\ Len(a) = 2 /\ a[1] = <<"align", "none">>
  OBVIOUS
<1> HIDE DEF a, T
<1>3. (a \o rest)[1] = a[1]
  BY <1>2
<1>4. QED
  BY <1>1, <1>2, <1>3

\* A command of a free turn leaves the chart on its asset, or is about to put it there.
LEMMA CommandAligns ==
    ASSUME WellFormed, Aligned, NEW t \in Turns, Command(t), Free(t)'
    PROVE  \/ script'[t] = <<>>
           \/ script'[t][1][1] \in {"look", "align"}
           \/ chart'.symbol = request'[t].text
<1>1. PICK op \in ChartOps, item \in {"none", "stop", "level"}, done \in BOOLEAN,
           bad \in BOOLEAN, failed \in BOOLEAN : CommandIs(t, op, item, done, bad, failed)
  BY CommandDoes DEF WellFormed
<1> DEFINE symbol == IF done /\ ~bad THEN chart.symbol ELSE NoSymbol
<1>2. /\ script[t] # <<>> /\ op = script[t][1][1]
      /\ chart'.symbol = IF op = "align" /\ done THEN RequestedSymbol(t) ELSE chart.symbol
      /\ \/ script'[t] = <<>>
         \/ op = "look" /\ ~bad /\ script'[t] = Alignment(t, symbol) \o Remainder(t)
         \/ op # "look"
      /\ crossed' = crossed \cup Crossed(t) \cup (IF op = "align" /\ ~done THEN {t} ELSE {})
      /\ request' = request
      /\ script' \in [Turns -> Seq(Commands)]
  BY <1>1 DEF CommandIs
<1>3. pc[t] = "chart" /\ request[t] \in Request
  BY RequestFacts DEF Command, WellFormed, Placed
<1>4. Free(t) /\ t \notin crossed'
  BY <1>2 DEF Free
<1>5. CASE op = "look"
  <2>1. CASE script'[t] = <<>>
    BY <2>1
  <2>2. CASE script'[t] # <<>>
    <3>1. script'[t] = Alignment(t, symbol) \o Remainder(t) /\ chart'.symbol = chart.symbol
      BY <1>2, <1>5, <2>2
    <3>2. CASE Alignment(t, symbol) = <<>>
      <4>1. symbol = request[t].text /\ request[t].text # NoSymbol
        BY <1>4, <3>2, AlignedAfterLook DEF Free
      <4>2. QED
        BY <3>1, <4>1, <1>2
    <3>3. CASE Alignment(t, symbol) # <<>>
      <4>1. Remainder(t) \in Seq(AllowedCommands(t))
        BY <1>3, RemainderAllowed
      <4>2. script'[t][1] = <<"align", "none">>
        BY <3>1, <3>3, <4>1, AlignmentLeads
      <4>3. QED
        BY <4>2
    <3>4. QED
      BY <3>2, <3>3
  <2>3. QED
    BY <2>1, <2>2
<1>6. CASE op = "align"
  <2>1. done /\ chart'.symbol = RequestedSymbol(t)
    BY <1>2, <1>4, <1>6
  <2>2. QED
    BY <1>2, <1>4, <2>1 DEF Free, RequestedSymbol
<1>7. CASE op \notin {"look", "align"}
  <2>1. chart.symbol = request[t].text
    BY <1>2, <1>3, <1>4, <1>7 DEF Aligned
  <2>2. QED
    BY <1>2, <1>7, <2>1
<1>8. QED
  BY <1>5, <1>6, <1>7

\* A step keeps the charts of free turns on their assets, and its lines there.
LEMMA AlignedStep ==
    ASSUME WellFormed, Aligned, NEW t \in Turns, Step(t)
    PROVE  Aligned'
<1>1. Frame(t) /\ request' = request /\ crossed \subseteq crossed'
  BY StepFrame DEF Frame
<1>2. ASSUME NEW q \in Turns, Free(q)'
      PROVE  Free(q)
  BY <1>1, <1>2 DEF Free
<1>3. ASSUME NEW q \in Turns \ {t}, pc'[q] = "chart", Free(q)'
      PROVE  \/ script'[q] = <<>>
             \/ script'[q][1][1] \in {"look", "align"}
             \/ chart'.symbol = request'[q].text
  <2>1. pc[q] = "chart" /\ script'[q] = script[q]
    BY <1>1, <1>3 DEF Frame
  <2>2. Free(q) /\ q \notin crossed'
    BY <1>2, <1>3 DEF Free
  <2>3. chart'.symbol = chart.symbol
    BY <2>1, <2>2, StepOnChart DEF Working
  <2>4. QED
    BY <1>1, <2>1, <2>2, <2>3 DEF Aligned
<1>4. ASSUME pc'[t] = "chart", Free(t)'
      PROVE  \/ script'[t] = <<>>
             \/ script'[t][1][1] \in {"look", "align"}
             \/ chart'.symbol = request'[t].text
  <2>1. pc \in [Turns -> {"new", "nodes", "chart", "model", "ended", "unprepared"}]
    BY DEF WellFormed, TypeOK
  <2>2. CASE Command(t)
    BY <1>4, <2>2, CommandAligns
  <2>3. CASE StartChart(t)
    <3>1. script'[t] = <<<<"look", "none">>>>
      BY <2>3 DEF StartChart, WellFormed, TypeOK
    <3>2. QED
      BY <3>1
  <2>4. CASE Persist(t)
    <3>1. pc[t] = "chart" /\ script[t] # <<>> /\ script[t][1][1] = "persist" /\ chart' = chart
      BY <2>4 DEF Persist
    <3>2. QED
      BY <1>1, <1>2, <1>4, <3>1 DEF Aligned
  <2>5. CASE Prepare(t) \/ PrepareFails(t) \/ ChartReturns(t) \/ StartModel(t)
    BY <1>4, <2>1, <2>5 DEF Prepare, PrepareFails, ChartReturns, StartModel
  <2>6. CASE SkipNode(t) \/ Gather(t) \/ Review(t)
    BY <1>4, <2>6 DEF SkipNode, Gather, Review
  <2>7. CASE CallTool(t) \/ CallToolStream(t)
    BY <1>4, <2>7 DEF CallTool, CallToolStream, Executes
  <2>8. CASE End(t) \/ EndStream(t)
    BY <1>4, <2>1, <2>8, EndKeeps
  <2>9. QED
    BY <2>2, <2>3, <2>4, <2>5, <2>6, <2>7, <2>8 DEF Step
<1>5. DrawingsAreOnTheirSymbol'
  <2> SUFFICES ASSUME NEW l \in chart'.lines,
                      l.item # "model", request[l.turn].text # NoSymbol,
                      l.turn \notin crossed',
                      ~(/\ request[l.turn].locked
                        /\ request[l.turn].context \notin {NoSymbol, request[l.turn].text})
               PROVE  l.symbol = request[l.turn].text
    BY <1>1 DEF DrawingsAreOnTheirSymbol
  <2>1. CASE l \in chart.lines
    BY <1>1, <2>1 DEF Aligned, DrawingsAreOnTheirSymbol
  <2>2. CASE l \notin chart.lines
    <3>1. /\ l.turn = t /\ l.symbol = chart.symbol /\ pc[t] = "chart"
          /\ script[t] # <<>> /\ script[t][1][1] = "draw"
      BY <2>2, NewLines
    <3>2. Free(t)
      BY <1>1, <3>1 DEF Free
    <3>3. QED
      BY <3>1, <3>2 DEF Aligned
  <2>3. QED
    BY <2>1, <2>2
<1>6. QED
  BY <1>3, <1>4, <1>5 DEF Aligned

-----------------------------------------------------------------------------
(* A failing call reaches the composer *)

\* What Failures says of one turn.
FailuresOf(t) ==
    /\ DOMAIN seen[t] \cup raised[t] \subseteq Range(NodesOf(t))
    /\ raised[t] \subseteq SnapshotNodes
    /\ \A n \in raised[t] :
          \/ Observed(t, n) /\ seen[t][n] \in {"degraded", "skipped"}
          \/ at[t] <= Len(NodesOf(t)) /\ NodeOf(t) = n
    /\ Observed(t, "composer") => at[t] = Len(NodesOf(t)) + 1
    /\ pc[t] = "chart" /\ "chart" \in raised[t] => note[t].errors
    /\ (Observed(t, "composer") /\ seen[t]["composer"] = "completed" /\ raised[t] # {})
       => facts[t].posture = "cautious"

\* The invariant says the same of each turn.
LEMMA FailuresByTurn == Failures <=> \A t \in Turns : FailuresOf(t)
BY DEF Failures, FailuresOf, FailuresReachThePosture

\* A planned node that gathers is not planned beside the nodes of an unsure turn.
LEMMA GatheringIsSure ==
    ASSUME NEW c, NEW r, NEW n \in SnapshotNodes, Planned(n, c, r)
    PROVE  ~Planned("clarification", c, r) /\ ~Planned("general_fallback", c, r)
<1>1. Gathers(n, c, r)
  BY DEF Planned, SnapshotNodes
<1>2. ~c.clarify /\ c.confidence # "low"
  <2>1. CASE n \in {"chart", "market"}
    BY <1>1, <2>1 DEF Gathers, ChartPlanned, WriteMode, MarketWanted, Sure
  <2>2. CASE n \notin {"chart", "market"}
    <3>1. SpecialistOf(c) = n
      BY <1>1, <2>2 DEF Gathers
    <3>2. QED
      BY <3>1 DEF SpecialistOf, SnapshotNodes
  <2>3. QED
    BY <2>1, <2>2
<1>3. QED
  BY <1>2 DEF Planned, SnapshotNodes

\* The composer that runs on a failing call has a degraded node before it, and says so.
LEMMA ComposerIsCautious ==
    ASSUME TypeOK, NEW t \in Turns, FailuresOf(t), at[t] <= Len(NodesOf(t)),
           NodeOf(t) = "composer", DependenciesMet(t), raised[t] # {}
    PROVE  Posture(t) = "cautious"
<1>1. PICK n \in raised[t] : n \in SnapshotNodes
  BY DEF FailuresOf
<1>2. Range(NodesOf(t)) = {m \in Nodes : Planned(m, route[t], request[t])}
  BY PlanIsItsNodes DEF NodesOf
<1>3. n \in Range(NodesOf(t)) /\ n # "composer" /\ n # "general_fallback"
      /\ DOMAIN seen[t] \subseteq Range(NodesOf(t))
  BY <1>1 DEF FailuresOf, SnapshotNodes
<1>4. "clarification" \notin Range(NodesOf(t)) /\ "general_fallback" \notin Range(NodesOf(t))
  BY <1>1, <1>2, <1>3, GatheringIsSure
<1>5. n \in DependsOn(NodeOf(t), NodesOf(t))
  BY <1>3, <1>4 DEF DependsOn
<1>6. Observed(t, n) /\ seen[t][n] = "degraded"
  BY <1>3, <1>5 DEF DependenciesMet, FailuresOf
<1>7. <<"degraded_upstream_context", TRUE>> \in Conflicts(t)
  BY <1>6 DEF Conflicts, DegradedNodes, Observed
<1>8. \E f \in Conflicts(t) : f[2]
  BY <1>7
<1>9. ~Observed(t, "clarification") /\ ~Observed(t, "general_fallback")
  BY <1>3, <1>4 DEF Observed
<1>10. QED
  BY <1>8, <1>9 DEF Posture

\* A turn observes the node it is at as degraded or skipped, or as complete.
LEMMA ObservedFailures ==
    ASSUME WellFormed, NEW t \in Turns, FailuresOf(t), at[t] <= Len(NodesOf(t)),
           NEW status, Observes(t, status), request' = request, route'[t] = route[t],
           pc'[t] = "nodes",
           raised'[t] \subseteq SnapshotNodes, raised'[t] \subseteq raised[t] \cup {NodeOf(t)},
           NodeOf(t) \in raised'[t] => status \in {"degraded", "skipped"},
           NodeOf(t) = "composer" /\ status = "completed" /\ raised'[t] # {}
           => facts'[t].posture = "cautious"
    PROVE  FailuresOf(t)'
<1>1. TypeOK
  BY DEF WellFormed
<1>2. /\ NodeOf(t) \in Range(NodesOf(t)) /\ Len(NodesOf(t)) \in Nat
      /\ at[t] \in 1..Len(NodesOf(t)) + 1
      /\ NodeOf(t) = "composer" <=> at[t] = Len(NodesOf(t))
  BY <1>1, NodeFacts
<1>3. NodesOf(t)' = NodesOf(t)
  BY KeptRoutes
<1>4. /\ at'[t] = at[t] + 1 /\ DOMAIN seen'[t] = DOMAIN seen[t] \cup {NodeOf(t)}
      /\ seen'[t][NodeOf(t)] = status
      /\ \A n \in DOMAIN seen[t] \ {NodeOf(t)} : seen'[t][n] = seen[t][n]
  BY DEF Observes
<1>5. ~Observed(t, "composer")
  BY <1>2 DEF FailuresOf
<1>6. /\ DOMAIN seen[t] \cup raised[t] \subseteq Range(NodesOf(t))
      /\ \A n \in raised[t] \ {NodeOf(t)} : Observed(t, n) /\ seen[t][n] \in {"degraded", "skipped"}
  BY DEF FailuresOf
<1>7. DOMAIN seen'[t] \cup raised'[t] \subseteq Range(NodesOf(t))
  BY <1>2, <1>4, <1>6
<1>8. \A n \in raised'[t] : n \in DOMAIN seen'[t] /\ seen'[t][n] \in {"degraded", "skipped"}
  BY <1>4, <1>6 DEF Observed
<1>9. "composer" \in DOMAIN seen'[t] => NodeOf(t) = "composer"
  BY <1>4, <1>5 DEF Observed
<1>10. "composer" \in DOMAIN seen'[t] => at'[t] = Len(NodesOf(t)) + 1
  BY <1>2, <1>4, <1>9
<1>11. "composer" \in DOMAIN seen'[t] /\ seen'[t]["composer"] = "completed" /\ raised'[t] # {}
       => facts'[t].posture = "cautious"
  BY <1>4, <1>9
<1>12. QED
  BY <1>3, <1>7, <1>8, <1>10, <1>11 DEF FailuresOf, Observed

\* While it is at its node, a turn may only have its failing call added.
LEMMA PendingFailures ==
    ASSUME WellFormed, NEW t \in Turns, FailuresOf(t), at[t] <= Len(NodesOf(t)),
           request' = request, route'[t] = route[t], at'[t] = at[t], seen'[t] = seen[t],
           raised'[t] \subseteq SnapshotNodes, raised'[t] \subseteq raised[t] \cup {NodeOf(t)},
           pc'[t] = "chart" /\ "chart" \in raised'[t] => note'[t].errors
    PROVE  FailuresOf(t)'
<1>1. TypeOK
  BY DEF WellFormed
<1>2. /\ NodeOf(t) \in Range(NodesOf(t)) /\ Len(NodesOf(t)) \in Nat
      /\ at[t] \in 1..Len(NodesOf(t)) + 1
  BY <1>1, NodeFacts
<1>3. NodesOf(t)' = NodesOf(t) /\ NodeOf(t)' = NodeOf(t)
  BY KeptRoutes
<1>4. ~Observed(t, "composer")
  BY <1>2 DEF FailuresOf
<1>5. /\ DOMAIN seen[t] \cup raised[t] \subseteq Range(NodesOf(t))
      /\ \A n \in raised[t] :
            \/ Observed(t, n) /\ seen[t][n] \in {"degraded", "skipped"}
            \/ NodeOf(t) = n
  BY DEF FailuresOf
<1>6. DOMAIN seen'[t] \cup raised'[t] \subseteq Range(NodesOf(t)')
  BY <1>2, <1>3, <1>5
<1>7. \A n \in raised'[t] :
         \/ n \in DOMAIN seen'[t] /\ seen'[t][n] \in {"degraded", "skipped"}
         \/ at'[t] <= Len(NodesOf(t)') /\ NodeOf(t)' = n
  BY <1>3, <1>5 DEF Observed
<1>8. "composer" \notin DOMAIN seen'[t]
  BY <1>4 DEF Observed
<1>9. QED
  BY <1>6, <1>7, <1>8 DEF FailuresOf, Observed

\* A turn's own steps keep what is known of its failing calls.
LEMMA FailuresOfStep ==
    ASSUME WellFormed, NEW t \in Turns, FailuresOf(t), Step(t)
    PROVE  FailuresOf(t)'
<1>1. TypeOK /\ Placed
  BY DEF WellFormed
<1>2. raised[t] \subseteq SnapshotNodes /\ DOMAIN seen[t] \cup raised[t] \subseteq Range(NodesOf(t))
  BY DEF FailuresOf
<1>3. Begun(t) => request' = request /\ route'[t] = route[t]
  BY StepFrame DEF Frame
<1>4. raised \in [Turns -> SUBSET Nodes] /\ note \in [Turns -> Notes]
      /\ pc \in [Turns -> {"new", "nodes", "chart", "model", "ended", "unprepared"}]
  BY <1>1 DEF TypeOK
<1>5. CASE Prepare(t) \/ PrepareFails(t)
  <2>1. DOMAIN seen[t] = {} /\ raised[t] = {} /\ UNCHANGED <<seen, raised>> /\ pc'[t] # "chart"
    BY <1>1, <1>4, <1>5 DEF Prepare, PrepareFails, Placed, historyVars
  <2>2. QED
    BY <2>1 DEF FailuresOf, Observed
<1>6. CASE SkipNode(t)
  <2>1. Observes(t, "skipped") /\ pc[t] = "nodes" /\ at[t] <= Len(NodesOf(t))
        /\ UNCHANGED <<pc, raised>>
    BY <1>6, SkipNodeKeeps DEF SkipNode, historyVars
  <2>2. QED
    BY <1>2, <1>3, <2>1, ObservedFailures DEF Begun
<1>7. CASE Gather(t)
  <2>1. /\ pc[t] = "nodes" /\ at[t] <= Len(NodesOf(t)) /\ NodeOf(t) \in SnapshotNodes
        /\ UNCHANGED <<pc, note>>
    BY <1>7 DEF Gather
  <2>2. PICK g \in [status : Statuses, bad : BOOLEAN] :
           /\ g.bad => g.status \in {"degraded", "skipped"}
           /\ raised' = [raised EXCEPT ![t] = IF g.bad THEN @ \cup {NodeOf(t)}
                                              ELSE @ \ {NodeOf(t)}]
           /\ \/ /\ Repeats(t, g.status, g.bad)
                 /\ at' = at /\ seen' = seen /\ attempt'[t] = 2
              \/ Observes(t, g.status)
    BY <1>7, GatherKeeps
  <2>3. /\ raised'[t] \subseteq SnapshotNodes
        /\ raised'[t] \subseteq raised[t] \cup {NodeOf(t)}
        /\ NodeOf(t) \in raised'[t] => g.bad
    BY <1>2, <1>4, <2>1, <2>2
  <2>4. NodeOf(t) # "composer"
    BY <2>1 DEF SnapshotNodes
  <2>5. CASE at' = at /\ seen' = seen
    BY <1>3, <2>1, <2>3, <2>5, PendingFailures DEF Begun
  <2>6. CASE Observes(t, g.status)
    BY <1>3, <2>1, <2>2, <2>3, <2>4, <2>6, ObservedFailures DEF Begun
  <2>7. QED
    BY <2>2, <2>5, <2>6
<1>8. CASE Review(t)
  <2>1. /\ Observes(t, "completed") /\ pc[t] = "nodes" /\ at[t] <= Len(NodesOf(t))
        /\ NodeOf(t) \notin SnapshotNodes /\ ~Skips(t) /\ UNCHANGED <<pc, raised>>
    BY <1>8, ReviewKeeps DEF Review, historyVars
  <2>2. ASSUME NodeOf(t) = "composer", raised[t] # {}
        PROVE  facts'[t].posture = "cautious"
    <3>1. Posture(t) = "cautious"
      BY <1>1, <2>1, <2>2, ComposerIsCautious DEF Skips
    <3>2. facts' = [facts EXCEPT ![t].posture = Posture(t)]
      BY <1>8, <2>2 DEF Review
    <3>3. facts \in [Turns -> Facts]
      BY <1>1 DEF TypeOK
    <3>4. QED
      BY <3>1, <3>2, <3>3 DEF Facts
  <2>3. QED
    BY <1>2, <1>3, <2>1, <2>2, ObservedFailures DEF Begun
<1>9. CASE StartChart(t)
  <2>1. /\ pc[t] = "nodes" /\ at[t] <= Len(NodesOf(t)) /\ UNCHANGED <<at, seen>>
        /\ raised'[t] = raised[t] \ {"chart"}
    BY <1>4, <1>9 DEF StartChart
  <2>2. QED
    BY <1>2, <1>3, <2>1, PendingFailures DEF Begun
<1>10. CASE Command(t)
  <2>1. PICK op \in ChartOps, item \in {"none", "stop", "level"}, done \in BOOLEAN,
             bad \in BOOLEAN, failed \in BOOLEAN : CommandIs(t, op, item, done, bad, failed)
    BY <1>10, CommandDoes DEF WellFormed
  <2>2. /\ failed \/ note[t].errors => note'[t].errors
        /\ raised' = [raised EXCEPT ![t] = IF failed THEN @ \cup {"chart"} ELSE @]
        /\ UNCHANGED <<request, pc, route, at, seen>>
    BY <2>1 DEF CommandIs
  <2>3. pc[t] = "chart" /\ at[t] <= Len(NodesOf(t)) /\ NodeOf(t) = "chart"
    BY <1>1, <1>10 DEF Command, Placed
  <2>4. raised'[t] \subseteq SnapshotNodes /\ raised'[t] \subseteq raised[t] \cup {NodeOf(t)}
    BY <1>2, <1>4, <2>2, <2>3 DEF SnapshotNodes
  <2>5. "chart" \in raised'[t] => note'[t].errors
    BY <1>4, <2>2, <2>3 DEF FailuresOf
  <2>6. QED
    BY <2>2, <2>3, <2>4, <2>5, PendingFailures
<1>11. CASE ChartReturns(t)
  <2>1. /\ pc[t] = "chart" /\ at[t] <= Len(NodesOf(t)) /\ NodeOf(t) = "chart" /\ pc'[t] = "nodes"
        /\ UNCHANGED raised
    BY <1>1, <1>4, <1>11 DEF ChartReturns, Placed, historyVars
  <2>2. \/ at' = at /\ seen' = seen
        \/ Observes(t, ChartStatus(t))
    BY <1>11, ChartReturnsKeeps
  <2>3. "chart" \in raised[t] => ChartStatus(t) = "degraded"
    BY <2>1 DEF FailuresOf, ChartStatus
  <2>4. CASE at' = at /\ seen' = seen
    BY <1>2, <1>3, <2>1, <2>4, PendingFailures DEF Begun
  <2>5. CASE Observes(t, ChartStatus(t))
    BY <1>2, <1>3, <2>1, <2>3, <2>5, ObservedFailures DEF Begun
  <2>6. QED
    BY <2>2, <2>4, <2>5
<1>12. CASE Persist(t) \/ StartModel(t) \/ CallTool(t) \/ CallToolStream(t) \/ End(t) \/ EndStream(t)
  <2>1. Begun(t) /\ UNCHANGED <<at, seen, raised, note, facts>>
    BY <1>12 DEF Persist, StartModel, CallTool, CallToolStream, Executes, End, EndStream,
                 Ends, Begun, historyVars
  <2>2. pc'[t] = "chart" => pc[t] = "chart"
    BY <1>4, <1>12, EndKeeps DEF Persist, StartModel, CallTool, CallToolStream, Executes
  <2>3. NodesOf(t)' = NodesOf(t) /\ NodeOf(t)' = NodeOf(t)
    BY <1>3, <2>1, KeptRoutes
  <2>4. QED
    BY <2>1, <2>2, <2>3 DEF FailuresOf, Observed
<1>13. QED
  BY <1>5, <1>6, <1>7, <1>8, <1>9, <1>10, <1>11, <1>12 DEF Step

\* So do the steps of the others.
LEMMA FailuresStep ==
    ASSUME WellFormed, Failures, NEW t \in Turns, Step(t)
    PROVE  Failures'
<1>1. ASSUME NEW q \in Turns \ {t} PROVE FailuresOf(q)'
  <2>1. /\ request' = request /\ pc'[q] = pc[q] /\ route'[q] = route[q] /\ at'[q] = at[q]
        /\ note'[q] = note[q] /\ seen'[q] = seen[q] /\ facts'[q].posture = facts[q].posture
        /\ raised'[q] = raised[q]
    BY StepFrame DEF Frame
  <2>2. NodesOf(q)' = NodesOf(q) /\ NodeOf(q)' = NodeOf(q)
    BY <2>1, KeptRoutes
  <2>3. FailuresOf(q)
    BY FailuresByTurn
  <2>4. QED
    BY <2>1, <2>2, <2>3 DEF FailuresOf, Observed
<1>2. FailuresOf(t)'
  BY FailuresByTurn, FailuresOfStep
<1>3. QED
  BY <1>1, <1>2 DEF Failures, FailuresOf, FailuresReachThePosture

-----------------------------------------------------------------------------
(* The trace of a turn *)

\* What Traced says of one turn.
TracedOf(t) ==
    /\ pc[t] \in {"nodes", "chart"} => trace[t] = PlannedTrace(route[t])
    /\ pc[t] = "model" =>
          /\ trace[t].graph # "running"
          /\ trace[t].fallback \notin {"safe_error_response", "safe_stream_error"}
          /\ DegradedNodes(t) # {} => trace[t].fallback = "pipeline_node_degraded"
    /\ pc[t] = "ended" =>
          /\ trace[t].execution \in {"completed", "failed"}
          /\ trace[t].completion # "pending" /\ trace[t].final # "pending"
          /\ trace[t].graph = "running" => trace[t].execution = "failed"
          /\ DegradedNodes(t) # {} => trace[t].fallback \notin
                {"none", "low_confidence_route", "clarification_required"}
          /\ (trace[t].execution = "failed")
                <=> trace[t].fallback \in {"safe_error_response", "safe_stream_error"}

\* The invariant says the same of each turn.
LEMMA TracedByTurn == Traced <=> \A t \in Turns : TracedOf(t)
BY DEF Traced, TracedOf, TraceTellsTheTurn

\* The trace that is planned, and the trace once the nodes have run.
LEMMA NodesRanTraces ==
    ASSUME NEW t, trace[t] = PlannedTrace(route[t])
    PROVE  /\ NodesRan(t).graph # "running"
           /\ NodesRan(t).fallback \notin {"safe_error_response", "safe_stream_error"}
           /\ DegradedNodes(t) # {} => NodesRan(t).fallback = "pipeline_node_degraded"
<1>1. /\ trace[t] \in Traces
      /\ trace[t].fallback \notin {"safe_error_response", "safe_stream_error"}
  BY DEF PlannedTrace, NewTrace, Traces
<1>2. CASE DegradedNodes(t) = {}
  <2>1. /\ NodesRan(t).graph = "completed" /\ NodesRan(t).fallback = trace[t].fallback
    BY <1>1, <1>2 DEF NodesRan, Traces
  <2>2. QED
    BY <1>1, <1>2, <2>1
<1>3. CASE DegradedNodes(t) # {}
  <2>1. /\ NodesRan(t).graph = "degraded" /\ NodesRan(t).fallback = "pipeline_node_degraded"
    BY <1>1, <1>3 DEF NodesRan, Traces
  <2>2. QED
    BY <2>1
<1>4. QED
  BY <1>2, <1>3

\* A turn's own steps keep its trace right.
LEMMA TracedOfStep ==
    ASSUME WellFormed, NEW t \in Turns, TracedOf(t), Step(t)
    PROVE  TracedOf(t)'
<1>1. /\ pc \in [Turns -> {"new", "nodes", "chart", "model", "ended", "unprepared"}]
      /\ trace \in [Turns -> Traces] /\ route \in [Turns -> Contexts]
  BY DEF WellFormed, TypeOK
<1>2. CASE Prepare(t)
  <2>1. PICK c \in Contexts : /\ route' = [route EXCEPT ![t] = c]
                              /\ trace' = [trace EXCEPT ![t] = PlannedTrace(c)]
    BY <1>2, PrepareKeeps
  <2>2. pc'[t] = "nodes" /\ trace'[t] = PlannedTrace(route'[t])
    BY <1>1, <1>2, <2>1 DEF Prepare
  <2>3. QED
    BY <2>2 DEF TracedOf, PlannedTrace
<1>3. CASE PrepareFails(t)
  <2>1. pc'[t] = "unprepared"
    BY <1>1, <1>3 DEF PrepareFails
  <2>2. QED
    BY <2>1 DEF TracedOf
<1>4. CASE \/ SkipNode(t) \/ Gather(t) \/ Review(t) \/ StartChart(t) \/ Command(t)
           \/ Persist(t) \/ ChartReturns(t)
  <2>1. pc[t] \in {"nodes", "chart"} /\ pc'[t] \in {"nodes", "chart"}
        /\ UNCHANGED <<route, trace>>
    BY <1>1, <1>4 DEF SkipNode, Gather, Review, StartChart, Command, Persist, ChartReturns
  <2>2. QED
    BY <2>1 DEF TracedOf, PlannedTrace
<1>5. CASE StartModel(t)
  <2>1. pc[t] = "nodes" /\ pc'[t] = "model" /\ trace'[t] = NodesRan(t) /\ seen' = seen
    BY <1>1, <1>5 DEF StartModel
  <2>2. trace[t] = PlannedTrace(route[t])
    BY <2>1 DEF TracedOf
  <2>3. DegradedNodes(t)' = DegradedNodes(t)
    BY <2>1 DEF DegradedNodes
  <2>4. QED
    BY <2>1, <2>2, <2>3, NodesRanTraces DEF TracedOf
<1>6. CASE CallTool(t) \/ CallToolStream(t)
  <2>1. pc[t] = "model" /\ pc' = pc /\ seen' = seen
    BY <1>6 DEF CallTool, CallToolStream, Executes
  <2>2. trace'[t].graph = trace[t].graph /\ trace'[t].fallback = trace[t].fallback
    BY <1>1, <1>6 DEF CallTool, CallToolStream, Traces
  <2>3. DegradedNodes(t)' = DegradedNodes(t)
    BY <2>1 DEF DegradedNodes
  <2>4. QED
    BY <2>1, <2>2, <2>3 DEF TracedOf
<1>7. CASE End(t) \/ EndStream(t)
  <2>1. PICK ending \in Endings(t) : /\ ending.execution = "completed" => pc[t] = "model"
                                     /\ trace' = [trace EXCEPT ![t] = ending]
    BY <1>7, EndKeeps
  <2>2. pc'[t] = "ended" /\ pc[t] \in {"chart", "model"} /\ trace'[t] = ending /\ seen' = seen
    BY <1>1, <1>7, <2>1, EndKeeps
  <2>3. DegradedNodes(t)' = DegradedNodes(t)
    BY <2>2 DEF DegradedNodes
  <2>4. /\ ending.completion # "pending" /\ ending.final # "pending"
        /\ ending.graph = trace[t].graph
        /\ \/ ending.execution = "completed" /\ ending.fallback = trace[t].fallback
           \/ /\ ending.execution = "failed"
              /\ ending.fallback \in {"safe_error_response", "safe_stream_error"}
    BY EndingTraces DEF WellFormed
  <2>5. CASE ending.execution = "completed"
    BY <2>1, <2>2, <2>3, <2>4, <2>5 DEF TracedOf
  <2>6. CASE ending.execution = "failed"
    BY <2>2, <2>3, <2>4, <2>6 DEF TracedOf
  <2>7. QED
    BY <2>4, <2>5, <2>6
<1>8. QED
  BY <1>2, <1>3, <1>4, <1>5, <1>6, <1>7 DEF Step

\* So do the steps of the others.
LEMMA TracedStep ==
    ASSUME WellFormed, Traced, NEW t \in Turns, Step(t)
    PROVE  Traced'
<1>1. ASSUME NEW q \in Turns \ {t} PROVE TracedOf(q)'
  <2>1. pc'[q] = pc[q] /\ route'[q] = route[q] /\ seen'[q] = seen[q] /\ trace'[q] = trace[q]
    BY StepFrame DEF Frame
  <2>2. DegradedNodes(q)' = DegradedNodes(q)
    BY <2>1 DEF DegradedNodes
  <2>3. TracedOf(q)
    BY TracedByTurn
  <2>4. QED
    BY <2>1, <2>2, <2>3 DEF TracedOf, PlannedTrace
<1>2. TracedOf(t)'
  BY TracedByTurn, TracedOfStep
<1>3. QED
  BY <1>1, <1>2 DEF Traced, TracedOf, TraceTellsTheTurn

-----------------------------------------------------------------------------
(* The invariant holds, and with it what the runs check *)

\* The invariant holds in every state.
THEOREM InvHolds == Spec => []Inv
<1>1. Init => Scripted /\ Drawn /\ Attempted /\ Aligned /\ Failures /\ Traced
  <2> SUFFICES ASSUME Init
               PROVE  Scripted /\ Drawn /\ Attempted /\ Aligned /\ Failures /\ Traced
    OBVIOUS
  <2>1. chart.lines = {} /\ \A t \in Turns : pc[t] = "new" /\ raised[t] = {} /\ attempt[t] = 1
    BY DEF Init
  <2>2. \A t \in Turns : ~note[t].errors /\ ~note[t].aborted
    BY DEF Init, NoNote
  <2>3. \A t \in Turns : DOMAIN seen[t] = {}
    BY DEF Init
  <2>4. \A t \in Turns : script[t] \in Seq(AllowedCommands(t))
    <3>1. \A t \in Turns : script[t] = <<>> /\ <<>> \in Seq(AllowedCommands(t))
      BY DEF Init
    <3>2. QED
      BY <3>1
  <2>5. Scripted
    BY <2>4 DEF Scripted
  <2>6. Drawn /\ Attempted
    BY <2>1, <2>2 DEF Drawn, Attempted
  <2>7. Aligned
    BY <2>1 DEF Aligned, DrawingsAreOnTheirSymbol
  <2>8. Failures
    BY <2>1, <2>3 DEF Failures, FailuresReachThePosture, Observed
  <2>9. Traced
    BY <2>1 DEF Traced, TraceTellsTheTurn
  <2>10. QED
    BY <2>5, <2>6, <2>7, <2>8, <2>9
<1>2. /\ WellFormed /\ Drawn /\ Attempted /\ Aligned /\ Failures /\ Traced
      /\ [Next]_vars
      => Drawn' /\ Attempted' /\ Aligned' /\ Failures' /\ Traced'
  <2> SUFFICES ASSUME WellFormed, Drawn, Attempted, Aligned, Failures, Traced, [Next]_vars
               PROVE  Drawn' /\ Attempted' /\ Aligned' /\ Failures' /\ Traced'
    OBVIOUS
  <2>1. CASE Next
    BY <2>1, DrawnStep, AttemptedStep, AlignedStep, FailuresStep, TracedStep DEF Next
  <2>2. CASE UNCHANGED vars
    <3>1. SameRoutes
      BY <2>2, RoutesStay DEF vars, turnVars
    <3> USE <2>2, <3>1 DEF vars, turnVars, historyVars, SameRoutes
    <3>2. Drawn'
      BY DEF Drawn, Begun, Writing
    <3>3. Attempted'
      BY DEF Attempted, NodeOf
    <3>4. Aligned'
      BY DEF Aligned, Free, DrawingsAreOnTheirSymbol
    <3>5. Failures'
      BY DEF Failures, FailuresReachThePosture, Observed, NodeOf
    <3>6. Traced'
      BY DEF Traced, TraceTellsTheTurn, PlannedTrace, DegradedNodes
    <3>7. QED
      BY <3>2, <3>3, <3>4, <3>5, <3>6
  <2>3. QED
    BY <2>1, <2>2
<1>3. Spec => [](Drawn /\ Attempted /\ Aligned /\ Failures /\ Traced)
  <2>1. Init => Drawn /\ Attempted /\ Aligned /\ Failures /\ Traced
    BY <1>1
  <2>2. QED
    BY <1>2, <2>1, WellFormedStays, PTL DEF Spec
<1>4. WellFormed /\ (Drawn /\ Attempted /\ Aligned /\ Failures /\ Traced) => Inv
  BY DEF Inv, Typed, WellFormed
<1>5. QED
  BY <1>3, <1>4, WellFormedStays, PTL

\* Every variable has its type, and a turn is at a node of its plan or past it.
THEOREM TypesHold == Spec => []TypeOK
<1>1. Inv => TypeOK
  BY DEF Inv, Typed
<1>2. QED
  BY <1>1, InvHolds, PTL

\* A turn whose chart node only reads is offered no tool that draws or sets alerts,
\* and no line on the chart is its own (_get_effective_allowed_tool_names).
THEOREM AnalysisDoesNotDraw == Spec => []AnalysisTurnsDoNotDraw
<1>1. Inv => AnalysisTurnsDoNotDraw
  <2> SUFFICES ASSUME Inv, NEW t \in Turns, Begun(t), ChartPlanned(route[t], request[t]),
                      ~Writing(t)
               PROVE  /\ OfferedTools(route[t], request[t])
                            \cap (DrawingTools \cup AlertTools) = {}
                      /\ \A l \in chart.lines : l.turn # t
    BY DEF AnalysisTurnsDoNotDraw
  <2>1. route[t] \in Contexts
    BY DEF Inv, Typed, TypeOK
  <2>2. OfferedTools(route[t], request[t]) \cap (DrawingTools \cup AlertTools) = {}
    BY <2>1, AnalysisTools DEF Writing
  <2>3. \A l \in chart.lines : l.turn # t
    BY DEF Inv, Drawn
  <2>4. QED
    BY <2>2, <2>3
<1>2. QED
  BY <1>1, InvHolds, PTL

\* A tool the user switched off is offered only to a turn that was routed to the group
\* of execution alone: the union of its tools is empty, and empty means unrestricted.
THEOREM DisabledToolsStayOff == Spec => []DisabledToolsAreWithheld
<1>1. Inv => DisabledToolsAreWithheld
  <2> SUFFICES ASSUME Inv, NEW t \in Turns, Begun(t),
                      \/ /\ "web" \in request[t].disabled
                         /\ OfferedTools(route[t], request[t]) \cap WebTools # {}
                      \/ /\ "memory" \in request[t].disabled
                         /\ OfferedTools(route[t], request[t]) \cap MemoryTools # {}
                      \/ /\ "plan" \in request[t].disabled
                         /\ "show_plan" \in OfferedTools(route[t], request[t])
               PROVE  route[t].groups = {"execution"} /\ Sure(route[t])
    BY DEF DisabledToolsAreWithheld
  <2>1. TypeOK /\ Placed
    BY DEF Inv, Typed
  <2>2. route[t] \in Contexts
    BY <2>1 DEF TypeOK
  <2>3. route[t].groups # {} /\ request[t] # NoRequest
    BY <2>1 DEF Placed, Begun
  <2>4. request[t] \in Request
    BY <2>1, <2>3, RequestFacts
  <2>5. QED
    BY <2>2, <2>3, <2>4, DisabledTools
<1>2. QED
  BY <1>1, InvHolds, PTL

\* A tool call that fails in the last attempt of a node makes the composer cautious
\* (_collect_conflict_flags, _derive_response_posture).
THEOREM FailuresAreTold == Spec => []FailuresReachThePosture
<1>1. Inv => FailuresReachThePosture
  BY DEF Inv, Failures
<1>2. QED
  BY <1>1, InvHolds, PTL

\* A line is drawn again by a second attempt only if a call of the first one failed.
THEOREM DrawingsComeOnce == Spec => []DrawingsAreNotRepeated
<1>1. Inv => DrawingsAreNotRepeated
  <2> SUFFICES ASSUME Inv, NEW k \in chart.lines, NEW l \in chart.lines,
                      k.turn = l.turn, k.item = l.item, k.attempt # l.attempt
               PROVE  k.turn \in repeatable
    BY DEF DrawingsAreNotRepeated
  <2>1. k.attempt \in 0..2 /\ l.attempt \in 0..2
    BY DEF Inv, Typed, TypeOK, Charts, Lines
  <2>2. /\ k.attempt = 0 <=> l.attempt = 0
        /\ k.attempt = 2 \/ l.attempt = 2 => k.turn \in repeatable
    BY DEF Inv, Attempted
  <2>3. QED
    BY <2>1, <2>2
<1>2. QED
  BY <1>1, InvHolds, PTL

\* The chart node draws on the asset it aligned the chart to, unless the chart did not
\* follow or another turn moved it.
THEOREM DrawingsFindTheirSymbol == Spec => []DrawingsAreOnTheirSymbol
<1>1. Inv => DrawingsAreOnTheirSymbol
  BY DEF Inv, Aligned
<1>2. QED
  BY <1>1, InvHolds, PTL

\* The trace of a turn that has ended says how it went.
THEOREM TracesAreTold == Spec => []TraceTellsTheTurn
<1>1. Inv => TraceTellsTheTurn
  BY DEF Inv, Traced
<1>2. QED
  BY <1>1, InvHolds, PTL

=============================================================================
