------------------------------ MODULE MCPlanning ------------------------------
(***************************************************************************)
(* The payloads of the planning run.                                       *)
(***************************************************************************)
EXTENDS Planning

Plain(i, t, s, needs) ==
    [id |-> i, type |-> t, scope |-> s, context_needed |-> needs,
     branches |-> [b \in YesNo |-> {}], decision |-> "none", tool |-> "none",
     forced_tier |-> "none", subplan |-> FALSE]

Decision(i, s, needs, yes, no) ==
    [Plain(i, "decision", s, needs) EXCEPT
        !.decision = "full", !.branches = [b \in YesNo |-> IF b = "yes" THEN yes ELSE no]]

Holder(i, s, needs) == [Plain(i, "subplan", s, needs) EXCEPT !.subplan = TRUE]
Tool(i, name)       == [Plain(i, "tool", Outer, {}) EXCEPT !.tool = name]

\* Three nodes with every way of needing each other and themselves; one of them repeats
\* an id or names one that does not exist.
Graphs ==
    {<<Plain(3, "think", Outer, a), Plain(1, "think", Outer, b), Plain(i, "synthesis", Outer, c)>> :
        a \in SUBSET {1, 2}, b \in {{}, {3}, {1}, {2, 3}}, c \in {{}, {1}, {1, 3}, {4}}, i \in {2, 3}}

\* A decision whose branches may point back at what it needs.
Decided ==
    {<<Decision(2, Outer, a, yes, no), Plain(1, "think", Outer, {}), Plain(3, "synthesis", Outer, c)>> :
        a \in SUBSET {1, 3}, yes \in SUBSET {1, 3}, no \in {{}, {3}}, c \in {{}, {1}, {2}}}

\* Decisions in the branches of decisions, to one level too many.
Chains ==
    {<<Decision(1, Outer, {}, {2}, {}), Decision(2, Outer, {}, x, {4}), Decision(3, Outer, {}, {}, {4}),
       Plain(4, "result", Outer, {})>> : x \in {{}, {3}}}

\* Nested plans: repaired, over their limit, one too many, one in the other.
Nested ==
    {<<Holder(2, Outer, {}), Plain(1, "result", Outer, {2}),
       Plain(2, "think", 1, {}), Plain(1, "synthesis", 1, needs)>> : needs \in {{}, {2}, {1}}}
    \cup {<<Holder(1, Outer, needs), Holder(2, Outer, {}), Plain(5, "think", 1, {}), Plain(5, t, 2, {})>> :
             needs \in {{}, {2}}, t \in {"think", "synthesis"}}
    \cup {<<Holder(1, Outer, {}), Holder(2, 1, {}), Plain(1, "synthesis", 2, {})>>,
          <<Holder(1, Outer, {}), Plain(1, "think", 1, {}), Plain(2, "think", 1, {}), Plain(3, "synthesis", 1, {1, 2})>>,
          <<Holder(1, Outer, {}), Plain(1, "think", 1, {2}), Plain(2, "decision", 1, {})>>,
          <<Holder(1, Outer, {}), Holder(2, Outer, {}), Holder(3, Outer, {})>>}

\* Nodes whose fields do not fit, and plans at the node limit.
Fields ==
    {<<>>, <<Tool(1, "registered")>>, <<Tool(1, "unknown")>>, <<Tool(1, "none")>>,
     <<[Plain(1, "think", Outer, {}) EXCEPT !.tool = "registered"]>>,
     <<[Plain(1, "think", Outer, {}) EXCEPT !.forced_tier = "outside"]>>,
     <<[Plain(1, "synthesis", Outer, {}) EXCEPT !.forced_tier = "configured"]>>,
     <<[Plain(1, "think", Outer, {}) EXCEPT !.decision = "full"]>>,
     <<[Plain(1, "subplan", Outer, {}) EXCEPT !.subplan = FALSE]>>,
     <<[Decision(1, Outer, {}, {}, {}) EXCEPT !.decision = "partial"]>>,
     <<Plain(1, "think", Outer, {}), Plain(2, "think", Outer, {}), Plain(3, "think", Outer, {}),
       Plain(4, "synthesis", Outer, {1, 2, 3})>>,
     <<Plain(1, "think", Outer, {}), Plain(2, "think", Outer, {}), Plain(3, "think", Outer, {}),
       Plain(4, "think", Outer, {}), Plain(5, "result", Outer, {})>>}

AllPayloads == Graphs \cup Decided \cup Chains \cup Nested \cup Fields
===============================================================================
