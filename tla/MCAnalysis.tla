----------------------------- MODULE MCAnalysis -----------------------------
(* Two experts of three or four per token: one layer of four tokens, or two  *)
(* layers of three tokens, the last one perhaps without the first positions; *)
(* and pairs of short files, one of which may be torn or have one position.  *)
EXTENDS Analysis

MCCapacities == <<1, 2, 3>>

TopTwo(experts) == {<<a, b>> \in experts \X experts : a # b}
Line(p, l, chosen) == [pos |-> p, layer |-> l, experts |-> chosen]
Whole(lines) == [lines |-> lines, torn |-> FALSE]

OneLayer(experts, tokens) ==
    {[p \in 1 .. tokens |-> Line(p - 1, 0, f[p])] : f \in [1 .. tokens -> TopTwo(experts)]}

\* In two layers the order of the experts of a token does not matter.
InOrder(experts) == {t \in TopTwo(experts) : t[1] < t[2]}
TwoLayers(experts, tokens) ==
    UNION {{[p \in 1 .. tokens |-> Line(p - 1, 0, f[p])] \o
            [p \in 1 .. tokens - missing |-> Line(p - 1 + missing, 1, g[p])] :
                f \in [1 .. tokens -> InOrder(experts)],
                g \in [1 .. tokens - missing -> InOrder(experts)]} : missing \in 0 .. 1}

Short == {Whole(<<Line(0, 0, <<1, 2>>), Line(1, 0, <<2, 3>>)>>),
          Whole(<<Line(0, 0, <<1, 2>>)>>),
          [lines |-> <<Line(0, 0, <<1, 2>>)>>, torn |-> TRUE]}

MCTraceSets ==
    {<<Whole(lines)>> :
        lines \in OneLayer(1 .. 3, 4) \cup OneLayer(1 .. 4, 3) \cup TwoLayers(1 .. 3, 3)}
    \cup {<<a, b>> : a \in Short, b \in Short}
=============================================================================
