---------------------------- MODULE MCMatchRequest ----------------------------
EXTENDS MatchRequest, RootedCompiler, MCPatterns

(* Rooted paths: roots first, last and in between, shared by paths, with     *)
(* quantifiers, alternatives, a second anchor or a strict one.               *)
Rooted == {
  Follow(<<A, D>>), Follow(<<D, A>>), Follow(<<A, D, B>>), Follow(<<Plus(A), D, Opt(B)>>),
  Follow(<<Star(A), D>>), Follow(<<Plus(In(<<A, Opt(A)>>)), D>>), Follow(<<Or(A, B), D, B>>),
  PREC(D, A, 0), PREC(NEXT(D, B, 0), Plus(A), 0), Follow(<<D, A, D>>), Follow(<<D, A, D2>>),
  Follow(<<InD, A, OutD>>), SEP(Follow(<<A, D>>), Follow(<<D, B>>)),
  SEP(Follow(<<A, InD>>), Follow(<<Star(A), D, B>>)), SEP(D, SEP(Follow(<<A, D>>), Follow(<<A, D>>))) }

(* Paths that keep their order, for one reason or another, and starts that   *)
(* may accept any node.                                                      *)
Unrooted == {
  Follow(<<A, B>>), Opt(A), Follow(<<Star(A), B>>), Follow(<<A, D, B, END>>), NEXT(A, D, 2),
  Plus(In(<<A, D>>)), SEP(D, Plus(In(<<A, D>>))), Follow(<<A, A, D>>),
  SEP(Follow(<<A, D>>), SEP(Follow(<<D, D2>>), Follow(<<D2, B>>))), SEP(A, Opt(B)), Or(Opt(A), B) }

(* Loops that consume nothing, and loops through an anchor: they must end on *)
(* cycles.                                                                   *)
Loops == {Star(In(<<Opt(A)>>)), Plus(In(<<D, Opt(A)>>)), Plus(Or(A, B))}

Nothing == Of(<<>>, {})
RequestGraphs == {JoinD, LongJoin, DiamondD, LoopD, ForkD, ChainABAB, CycleAB, Nothing}

RequestsFor(trees, graphs, budgets) ==
  UNION {{[graph |-> g, machine |-> InterpretRooted(t, r), budget |-> b, tree |-> t] : g \in graphs, b \in budgets}
         : t \in trees, r \in BOOLEAN}

(* Budgets that some of the requests exceed. *)
Tight == RequestsFor({SEP(A, B), SEP(A, SEP(B, D)), SEP(Follow(<<A, D>>), Follow(<<D, B>>))},
                     {JoinD, ChainABAB}, {1, 2, 3})

MCRequests == RequestsFor(Rooted \cup Unrooted \cup Loops, RequestGraphs, {100}) \cup Tight

-----------------------------------------------------------------------------
(* A trace without the order in which it was walked: the invocations with   *)
(* their passes, and in them what each pass captured.                        *)
RECURSIVE Unordered(_)
Unordered(item) ==
  IF Len(item) = 2 THEN item
  ELSE LET pass(p) == ToBag([k \in DOMAIN p |-> Unordered(p[k])])
       IN  << item[1], item[2], item[3], BagOfAll(pass, item[5]) >>

(* What the walks of one path captured, bound, and repeated. *)
Outline(contents) ==
  [captures |-> UNION {c.valid : c \in contents},
   anchors  |-> UNION {c.commons : c \in contents},
   invocations |-> UNION {{Unordered(x) : x \in {x \in ToSet(c.trace) : Len(x) # 2}} : c \in contents}]

PathsOfRequest == Paths(request.tree)
Reported(entry) ==
  LET starts == request.machine.starts
      of(k)  == {Contents(w) : w \in {w \in entry.walks :
                  \E i \in DOMAIN starts : request.machine.path[i] = k /\ request.machine.origin[starts[i]] = Origin(w)}}
  IN  [k \in DOMAIN PathsOfRequest |-> Outline(of(k))]

(* The matches of a pattern, from any start, path by path. *)
Expected ==
  LET before(k)  == SubSeq(PathsOfRequest, 1, k - 1)
      symbols(k) == Sum([i \in DOMAIN before(k) |-> Quantifiers(before(k)[i])])
      starts     == IF Nodes = {} THEN {NoNode} ELSE Nodes
      meaning(k) == UNION {Meaning(request.graph, PathsOfRequest[k], n, symbols(k)) : n \in starts}
  IN  {[k \in DOMAIN f |-> Outline({f[k]})] : f \in Together([k \in DOMAIN PathsOfRequest |-> meaning(k)])}

(* "Rooting does not change which node sets match or their quantifier        *)
(* counts" (doc/post-ast-root-selection.md), nor does trying only the nodes  *)
(* that a start can accept: the answer to a request reports every match the  *)
(* pattern has in the graph from any start, and nothing else.                *)
AnswerIsExact ==
  stage = "answered" => {Reported(entry) : entry \in ToSet(answer)} = Expected
=============================================================================
