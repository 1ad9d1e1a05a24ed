------------------------------ MODULE MCPatterns ------------------------------
(* Small graphs and patterns, and the searches they give rise to.           *)
EXTENDS PatternMeaning

(* A graph from the predicate each node satisfies; the input ports of a      *)
(* node number its producers from 1, the lowest first.                       *)
Of(labels, edges) ==
  [nodes |-> DOMAIN labels, edges |-> edges, satisfies |-> [n \in DOMAIN labels |-> {labels[n]}],
   ports |-> {<<e[1], e[2], Cardinality({f \in edges : f[2] = e[2] /\ f[1] <= e[1]})>> : e \in edges}]

ChainAAB  == Of(<<"A", "A", "B">>, {<<1, 2>>, <<2, 3>>})
ChainAAA  == Of(<<"A", "A", "A">>, {<<1, 2>>, <<2, 3>>})
ChainABAB == Of(<<"A", "B", "A", "B">>, {<<1, 2>>, <<2, 3>>, <<3, 4>>})
CycleAB   == Of(<<"A", "B">>, {<<1, 2>>, <<2, 1>>})
CycleAAA  == Of(<<"A", "A", "A">>, {<<1, 2>>, <<2, 3>>, <<3, 1>>})
JoinD     == Of(<<"A", "A", "D", "B">>, {<<1, 3>>, <<2, 3>>, <<3, 4>>})
WideJoin  == Of(<<"A", "A", "A", "D">>, {<<1, 4>>, <<2, 4>>, <<3, 4>>})
LongJoin  == Of(<<"A", "A", "A", "D">>, {<<1, 2>>, <<2, 4>>, <<3, 4>>})
ForkD     == Of(<<"D", "A", "B">>, {<<1, 2>>, <<1, 3>>})
DiamondD  == Of(<<"D", "A", "B", "D">>, {<<1, 2>>, <<1, 3>>, <<2, 4>>, <<3, 4>>})
LoopD     == Of(<<"D", "A">>, {<<1, 2>>, <<2, 1>>, <<1, 1>>})

Graphs == {ChainAAB, ChainAAA, ChainABAB, CycleAB, CycleAAA, JoinD, WideJoin, LongJoin, ForkD,
           DiamondD, LoopD}

A == KEY("A")
B == KEY("B")
D == CKEY("D", 1, FALSE, FALSE)
D2 == CKEY("D", 2, FALSE, FALSE)
InD == CKEY("D", 1, TRUE, FALSE)
OutD == CKEY("D", 1, FALSE, TRUE)

Follow(trees) == FoldRight(LAMBDA t, u : NEXT(t, u, 0), Front(trees), Last(trees))
In(trees)     == GROUP(<<Follow(trees)>>)
Or(t, u)      == GROUP(<<t, u>>)
Plus(t)       == QUANTIFIED(t, "+")
Star(t)       == QUANTIFIED(t, "*")
Opt(t)        == QUANTIFIED(t, "?")

OnePath == {
  Follow(<<A, B, END>>), Follow(<<Plus(A), B>>), Follow(<<Plus(A), Plus(A), END>>),
  Follow(<<Star(A), B, Opt(A)>>), Plus(In(<<Plus(A), B>>)), Star(In(<<Opt(A)>>)),
  PREC(B, Plus(A), 0), Plus(In(<<A, D>>)), Plus(In(<<Opt(A), D>>)), Plus(In(<<Plus(A), D>>)),
  Plus(In(<<D, A>>)), Follow(<<Plus(In(<<A, D>>)), B>>), Plus(In(<<D, A, D2>>)),
  Star(In(<<A, D, END>>)), Or(Follow(<<A, A>>), A), Plus(Or(A, B)), Plus(Or(Plus(A), B)),
  NEXT(A, B, 1), NEXT(A, D, 2), NEXT(Plus(A), Opt(B), 1), Follow(<<A, OutD>>),
  Star(In(<<Star(In(<<D, Opt(A)>>))>>)), Plus(In(<<Plus(In(<<A, D>>))>>)) }

(* The searches of a pattern over a graph: one for each tuple of nodes.  The *)
(* transitions may be met in either order of their targets by the compiler.  *)
SearchOf(tree, graph, rising) ==
  LET paths   == Paths(tree)
      machine == Interpret(tree, rising)
      before(k) == SubSeq(paths, 1, k - 1)
      read == [k \in DOMAIN paths |->
                [tree |-> paths[k],
                 before |-> Sum([i \in DOMAIN before(k) |-> Quantifiers(before(k)[i])])]]
  IN  {[graph |-> graph, machine |-> machine, tuple |-> tuple, read |-> read]
        : tuple \in [DOMAIN machine.starts -> graph.nodes]}

Searches(trees, graphs) == UNION {SearchOf(t, g, r) : t \in trees, g \in graphs, r \in BOOLEAN}

(* What each path of the problem, and the pattern as a whole, means.         *)
PathOf(p, k)   == p.machine.origin[p.machine.starts[k]]
MeaningOf(p, k) == Meaning(p.graph, p.read[k].tree, p.tuple[k], p.read[k].before)
ExpectedWalks(p) == UNION {{<<PathOf(p, k), c>> : c \in MeaningOf(p, k)} : k \in DOMAIN p.read}
ExpectedMatches(p) ==
  {{<<PathOf(p, k), f[k]>> : k \in DOMAIN f} : f \in Together([k \in DOMAIN p.read |-> MeaningOf(p, k)])}
=============================================================================
