--------------------------- MODULE StrategyGraph ---------------------------
(***************************************************************************)
(* A strategy on the builder's canvas (ui/screens/builder-workspace.jsx):  *)
(* nodes in the order they were added, edges as pairs, and the functions   *)
(* that walk, check, group and rewrite it.  An edge may outlive a node.    *)
(***************************************************************************)
EXTENDS Naturals, Sequences, SequencesExt, FiniteSets

CONSTANT TypeOf(_)      \* the module a node is an instance of

NodeTypes == {"supply", "borrow", "swap", "repeat", "settle", "vault"}

\* NEXT_STEP_RULES, nextSuggestionFor: none after a settle.
NextSuggestionFor(type) ==
    CASE type = "supply" -> "borrow"
      [] type = "borrow" -> "swap"
      [] type \in {"swap", "repeat", "vault"} -> "settle"
      [] OTHER -> "none"

Successors(edges, n) ==
    LET out == SelectSeq(edges, LAMBDA e : e[1] = n)
    IN  [i \in DOMAIN out |-> out[i][2]]

HasEdgeTo(edges, n) == \E i \in DOMAIN edges : edges[i][2] = n

\* One turn of walkOrder's queue.
WalkStep(edges, s) ==
    IF s.queue = <<>> THEN s
    ELSE LET n == Head(s.queue)
         IN  IF n \in ToSet(s.order) THEN [s EXCEPT !.queue = Tail(@)]
             ELSE [queue |-> Tail(s.queue) \o Successors(edges, n),
                   order |-> Append(s.order, n)]

\* walkOrder: breadth first from the roots, then whatever is left.
WalkOrder(nodes, edges) ==
    LET roots  == SelectSeq(nodes, LAMBDA n : ~HasEdgeTo(edges, n))
        turns  == [i \in 1 .. Len(nodes) + Len(edges) |-> i]
        walked == FoldLeft(LAMBDA s, i : WalkStep(edges, s),
                           [queue |-> roots, order |-> <<>>], turns).order
    IN  walked \o SelectSeq(nodes, LAMBDA n : n \notin ToSet(walked))

-----------------------------------------------------------------------------
\* The search of detectIssues from the last node of a path: the cycle it meets, if
\* any, and the nodes it is done with.  Dfs is the recursive function of the code,
\* over the paths of a graph.
CycleNodes(nodes, edges) ==
    LET ns == ToSet(nodes)
        Next1(path) == SelectSeq(Successors(edges, Last(path)), LAMBDA n : n \in ns)
        FromHere(path, n) ==
            {path[i] : i \in {j \in DOMAIN path : \A k \in DOMAIN path : path[k] = n => k <= j}}
        Dfs[path \in Seq(ns), done \in SUBSET ns] ==
            LET Visit(s, n) ==
                    IF s.cycle # {} \/ n \in s.done THEN s
                    ELSE IF n \in ToSet(path) THEN [s EXCEPT !.cycle = FromHere(path, n)]
                    ELSE Dfs[Append(path, n), s.done]
            IN  [FoldLeft(Visit, [cycle |-> {}, done |-> done], Next1(path))
                    EXCEPT !.done = @ \cup {Last(path)}]
        Start(s, n) == IF s.cycle # {} \/ n \in s.done THEN s ELSE Dfs[<<n>>, s.done]
    IN  FoldLeft(Start, [cycle |-> {}, done |-> {}], nodes).cycle

\* A cycle through repeats alone is no error.
HasError(nodes, edges) == \E n \in CycleNodes(nodes, edges) : TypeOf(n) # "repeat"

\* The nodes that "go nowhere"; a missing settle is a warning of its own.
DeadEnds(nodes, edges) ==
    {n \in ToSet(nodes) : TypeOf(n) # "settle" /\ Successors(edges, n) = <<>>}

MissingSettle(nodes) == \A n \in ToSet(nodes) : TypeOf(n) # "settle"

Joins(edges, nodes, from, to) ==
    SelectSeq(edges, LAMBDA e : /\ {e[1], e[2]} \subseteq ToSet(nodes)
                                /\ TypeOf(e[1]) = from /\ TypeOf(e[2]) = to)

SwapPairs(nodes, edges) == Joins(edges, nodes, "swap", "swap")

\* The issues list, by severity: an empty canvas has none.
DetectIssues(nodes, edges) ==
    IF nodes = <<>> THEN {}
    ELSE {s \in {"error", "warn", "tip"} :
            CASE s = "error" -> HasError(nodes, edges)
              [] s = "warn"  -> DeadEnds(nodes, edges) # {} \/ MissingSettle(nodes)
              [] s = "tip"   -> SwapPairs(nodes, edges) # <<>>}

\* applyAction: the second swap of every pair goes, and its edges to the first.
MergeSwaps(nodes, edges) ==
    LET pairs == SwapPairs(nodes, edges)
        gone  == {pairs[i][2] : i \in DOMAIN pairs}
        kept  == SelectSeq(edges, LAMBDA e : gone \cap {e[1], e[2]} = {})
        Add(out, e) == IF e \in ToSet(out) THEN out ELSE Append(out, e)
        Bypass(out, p) ==
            FoldLeft(LAMBDA o, d : Add(o, <<p[1], d>>), out, Successors(edges, p[2]))
    IN  [nodes |-> SelectSeq(nodes, LAMBDA n : n \notin gone),
         edges |-> FoldLeft(Bypass, kept, pairs)]

-----------------------------------------------------------------------------
\* An edge with one end on the canvas: groupSubgraphs throws at the other end.
Dangles(nodes, edges) ==
    \E i \in DOMAIN edges : Cardinality({edges[i][1], edges[i][2]} \cap ToSet(nodes)) = 1
                             /\ edges[i][1] # edges[i][2]

Reached(edges, ns) ==
    ns \cup {edges[i][2] : i \in {j \in DOMAIN edges : edges[j][1] \in ns}}
       \cup {edges[i][1] : i \in {j \in DOMAIN edges : edges[j][2] \in ns}}

Component(nodes, edges, n) == FoldLeft(LAMBDA ns, i : Reached(edges, ns), {n}, nodes)

\* groupSubgraphs: the components, each in the order of its nodes.
GroupSubgraphs(nodes, edges) ==
    LET Group(n) == SelectSeq(nodes, LAMBDA m : m \in Component(nodes, edges, n))
        firsts   == SelectSeq(nodes, LAMBDA n : Head(Group(n)) = n)
    IN  [i \in DOMAIN firsts |-> Group(firsts[i])]

-----------------------------------------------------------------------------
\* organizeLayout's columns: the longest way from a root that its queue meets.
RankStep(edges, s) ==
    IF s.queue = <<>> THEN s
    ELSE LET q    == Head(s.queue)
             next == Successors(edges, q[1])
             r    == q[2] + 1
         IN  IF q[1] \in s.seen THEN [s EXCEPT !.queue = Tail(@)]
             ELSE [queue |-> Tail(s.queue) \o [i \in DOMAIN next |-> <<next[i], r>>],
                   seen  |-> s.seen \cup {q[1]},
                   rank  |-> [n \in DOMAIN s.rank |->
                                 IF n \in ToSet(next) /\ r > s.rank[n] THEN r ELSE s.rank[n]]]

Ranks(nodes, edges) ==
    LET roots == SelectSeq(nodes, LAMBDA n : ~HasEdgeTo(edges, n))
    IN  FoldLeft(LAMBDA s, i : RankStep(edges, s),
                 [queue |-> [i \in DOMAIN roots |-> <<roots[i], 0>>], seen |-> {},
                  rank |-> [n \in ToSet(nodes) |-> 0]],
                 [i \in 1 .. Len(nodes) + Len(edges) |-> i]).rank

\* organizeLayout: the nodes by column, the rows of one apart.
OrganizeLayout(nodes, edges) ==
    LET rank == Ranks(nodes, edges)
        Row(n) == SelectInSeq(SelectSeq(nodes, LAMBDA m : rank[m] = rank[n]),
                              LAMBDA m : m = n)
    IN  [n \in ToSet(nodes) |-> <<rank[n], Row(n)>>]

\* aiStepsToCanvas, on the types of a plan: claims and unknown steps are left
\* out, the rest chained, and a settle added unless it ends in one.
AiStepsToCanvas(types) ==
    LET known == SelectSeq(types, LAMBDA t : t \in NodeTypes)
        all   == IF known # <<>> /\ Last(known) # "settle" THEN Append(known, "settle")
                 ELSE known
    IN  [types |-> all, links |-> [i \in 1 .. Len(all) - 1 |-> <<i, i + 1>>]]
=============================================================================
