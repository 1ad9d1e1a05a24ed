---------------------------- MODULE PatternCompiler ----------------------------
(***************************************************************************)
(* From the tree of a pattern to its automaton: PGInterpreterTG.cpp and the *)
(* construction half of TransitionGraph.cpp.                                *)
(*                                                                          *)
(* A fragment is an automaton under construction: edges, start and valid    *)
(* states, the paths each state comes from (origin), all of them (origins), *)
(* the group of each state, and ok, FALSE once an assertion of the code has *)
(* failed.  States are numbered in creation order: Build(tree, n, ...) uses *)
(* n .. n + Size(tree) - 1.                                                 *)
(* The transitions of a state are kept by address; `rising` says whether    *)
(* the compiler meets them in the order of their targets or the other way.  *)
(***************************************************************************)
EXTENDS Transition, PatternTree

CONSTANT DistanceLimit   \* kLimit, 32 in the code

RECURSIVE Sum(_)
Sum(s) == IF s = <<>> THEN 0 ELSE Head(s) + Sum(Tail(s))

IsArrow(tree) == tree.op \in {"NEXT", "PREC"}
Parts(tree) == CASE tree.op = "QUANTIFIED" -> <<tree.body>>
                 [] tree.op = "GROUP" -> tree.branches
                 [] IsArrow(tree) \/ tree.op = "SEP" -> <<tree.left, tree.right>>
                 [] OTHER -> <<>>

(* States a tree compiles to, and quantifier symbols it contains. *)
RECURSIVE Size(_), Quantifiers(_)
Size(tree) ==
  Sum([k \in DOMAIN Parts(tree) |-> Size(Parts(tree)[k])])
    + CASE tree.op \in {"KEY", "CKEY", "END"} -> 2
        [] IsArrow(tree) /\ tree.port # 0 -> 3
        [] tree.op = "QUANTIFIED" -> 3
        [] tree.op = "GROUP" /\ Len(tree.branches) > 1 -> 2
        [] OTHER -> 0
Quantifiers(tree) ==
  Sum([k \in DOMAIN Parts(tree) |-> Quantifiers(Parts(tree)[k])])
    + IF tree.op = "QUANTIFIED" THEN 1 ELSE 0

(* A tree and the trees it contains. *)
RECURSIVE Subtrees(_)
Subtrees(tree) == {tree} \cup UNION {Subtrees(t) : t \in ToSet(Parts(tree))}
HasAnchor(tree) == \E t \in Subtrees(tree) : t.op = "CKEY"

-----------------------------------------------------------------------------
(* Fragments.                                                               *)
Edge(from, to, label) == [from |-> from, to |-> to, label |-> label]
StatesOf(f) == {e.from : e \in f.edges} \cup {e.to : e \in f.edges}

Leaf(label, n, group) ==
  [edges |-> {Edge(n, n + 1, label)}, starts |-> {n}, valid |-> {n + 1},
   origin |-> [s \in {n, n + 1} |-> {0}], origins |-> {0},
   group |-> [s \in {n, n + 1} |-> group], ok |-> TRUE]

\* Mutant of Extend: setGroupe is forgotten.
ExtendUngrouped(f, states, group, edges, starts, valid) ==
  [edges |-> f.edges \cup edges, starts |-> starts, valid |-> valid,
   origin |-> f.origin @@ [s \in states |-> {0}], origins |-> f.origins \cup {0},
   group |-> f.group @@ [s \in states |-> 0], ok |-> f.ok]

(* New states and transitions around a fragment; new states have origin 0.  *)
Extend(f, states, group, edges, starts, valid) ==
  [edges |-> f.edges \cup edges, starts |-> starts, valid |-> valid,
   origin |-> f.origin @@ [s \in states |-> {0}], origins |-> f.origins \cup {0},
   group |-> f.group @@ [s \in states |-> group], ok |-> f.ok]

UnionG(f, g) ==
  [edges |-> f.edges \cup g.edges, starts |-> f.starts \cup g.starts, valid |-> f.valid \cup g.valid,
   origin |-> f.origin @@ g.origin, origins |-> f.origins \cup g.origins,
   group |-> f.group @@ g.group, ok |-> f.ok /\ g.ok]

(* _mergeState: `dest` takes the edges and the origins of `source`.  An edge *)
(* that both enters and leaves `source` would only be redirected once.       *)
MergeState(f, source, dest) ==
  LET redirect(e) == CASE e.to = source -> [e EXCEPT !.to = dest]
                       [] e.to # source /\ e.from = source -> [e EXCEPT !.from = dest]
                       [] OTHER -> e
      edges  == {redirect(e) : e \in f.edges}
      merged == [f EXCEPT !.edges = edges,
                          !.origin[dest] = @ \cup f.origin[source]]
  IN  [merged EXCEPT !.ok = /\ @
                            /\ {source, dest} \subseteq StatesOf(f)
                            /\ f.group[source] = f.group[dest]
                            /\ f.origin[source] \cup f.origin[dest] \subseteq f.origins
                            /\ source \notin StatesOf(merged)]

(* mergeOneStartOneValid: the end of f becomes the start of g. *)
Then(f, g) ==
  LET end   == CHOOSE s \in f.valid : TRUE
      start == CHOOSE s \in g.starts : TRUE
      both  == [UnionG(f, g) EXCEPT !.valid = @ \ {end}, !.starts = @ \ {start}]
  IN  IF Cardinality(f.valid) = 1 /\ Cardinality(g.starts) = 1
      THEN MergeState(both, start, end)
      ELSE [f EXCEPT !.ok = FALSE]

IncOriginBy(f, k) ==
  LET shifted(set) == {o + k : o \in set}
  IN  [f EXCEPT !.origin = [s \in DOMAIN @ |-> shifted(@[s])], !.origins = shifted(@)]

\* Mutant of Beside: both operands keep the origin 0.
BesideSame(f, g) == UnionG(f, g)

(* sepF: paths keep their own origins. *)
Beside(f, g) ==
  LET last(h) == Max(h.origins)
  IN  IF last(g) >= last(f) THEN UnionG(f, IncOriginBy(g, last(f) + 1))
                            ELSE UnionG(IncOriginBy(f, last(g) + 1), g)

-----------------------------------------------------------------------------
(***************************************************************************)
(* TransitionRef::getAnchor: the first anchor met in the repeated body, and  *)
(* the walk distances from the start of the body at which it stands.  A      *)
(* queue of <<state, distance>> is served at the front; transitions that     *)
(* consume nothing are followed at once, the others in breadth.              *)
(***************************************************************************)
ByAddress(edges, rising) ==
  SetToSortSeq(edges, LAMBDA e, f : IF rising THEN e.to < f.to ELSE e.to > f.to)

NoAnchor == [id |-> -1, deltas |-> {}, unboundedParents |-> FALSE, unboundedChildren |-> FALSE]

(* One transition met at distance `delta`: s = [pending, anchor]. *)
Meet(s, edge, delta) ==
  LET label == edge.label
      next  == delta + IF label.type = "UNIQUE" /\ ~ label.forward THEN 1 ELSE -1
      id    == IF s.anchor.id = -1 THEN label.id ELSE s.anchor.id
  IN  CASE label.type = "COMMON" ->
             [s EXCEPT !.anchor.id = id,
                       !.anchor.deltas = IF id = label.id THEN @ \cup {delta} ELSE @]
        [] label.type = "REF" -> s
        [] label.type \in {"EMPTY", "ALTERNATIVE", "TRACE", "PORT"} ->
             [s EXCEPT !.pending = << <<edge.to, delta>> >> \o @]
        [] label.type \in {"UNIQUE", "NNULL"} /\ next < -DistanceLimit ->
             [s EXCEPT !.anchor.unboundedParents = TRUE]
        [] label.type \in {"UNIQUE", "NNULL"} /\ next > DistanceLimit ->
             [s EXCEPT !.anchor.unboundedChildren = TRUE]
        [] OTHER -> [s EXCEPT !.pending = Append(@, <<edge.to, next>>)]

RECURSIVE SearchAnchor(_, _, _, _)
SearchAnchor(edges, s, visited, rising) ==
  IF s.pending = <<>> THEN s.anchor
  ELSE LET at   == Head(s.pending)
           rest == [s EXCEPT !.pending = Tail(@)]
           out  == ByAddress({e \in edges : e.from = at[1]}, rising)
       IN  IF at \in visited THEN SearchAnchor(edges, rest, visited, rising)
           ELSE SearchAnchor(edges, FoldLeft(LAMBDA t, e : Meet(t, e, at[2]), rest, out),
                             visited \cup {at}, rising)

GetAnchor(edges, first, rising) ==
  SearchAnchor(edges, [pending |-> << <<first, 0>> >>, anchor |-> NoAnchor], {}, rising)

-----------------------------------------------------------------------------
(* quantify: bookkeeping around the body, and the way back for + and *.      *)
ContainsCommon(f) == \E e \in f.edges : e.label.type = "COMMON"

Repeat(body, index, symbol, n, group, rising) ==
  LET first == CHOOSE s \in body.starts : TRUE
      last  == CHOOSE s \in body.valid : TRUE
      entry == n   completed == n + 1   exit == n + 2
      trace(action) == Trace(action, index, symbol)
      through == {Edge(entry, first, trace("Begin")),
                  Edge(last, completed, trace("Iteration")),
                  Edge(completed, exit, trace("End"))}
      anchor == GetAnchor(body.edges \cup through, first, rising)
      again  == IF symbol = "?" THEN {}
                ELSE {Edge(completed, first, IF ContainsCommon(body) THEN Ref(anchor) ELSE Empty)}
      skip   == IF symbol = "+" THEN {} ELSE {Edge(entry, exit, trace("Skip"))}
      result == Extend(body, {entry, completed, exit}, group, through \cup again \cup skip,
                       {entry}, {exit})
      single == Cardinality(body.starts) = 1 /\ Cardinality(body.valid) = 1
      found  == symbol # "?" /\ ContainsCommon(body) => anchor.id # -1
  IN  [result EXCEPT !.ok = @ /\ single /\ found]

(* alternate: one branch is taken per walk, no new origin. *)
Alternate(branches, n, group) ==
  LET start(b) == CHOOSE s \in b.starts : TRUE
      end(b)   == CHOOSE s \in b.valid : TRUE
      entry == n   exit == n + 1
      all == FoldLeft(UnionG, Head(branches), Tail(branches))
      ways == UNION {{Edge(entry, start(b), Alternative), Edge(end(b), exit, Alternative)}
                      : b \in ToSet(branches)}
      single == \A b \in ToSet(branches) : Cardinality(b.starts) = 1 /\ Cardinality(b.valid) = 1
  IN  [Extend(all, {entry, exit}, group, ways, {entry}, {exit}) EXCEPT !.ok = @ /\ single]

(* A numbered arrow: the scope begins before its left operand, the port is  *)
(* checked after it, and the scope ends after the right operand.             *)
Numbered(left, right, port, n, group) ==
  LET append(f, end, action) ==
        Extend(f, {end}, group, {Edge(CHOOSE s \in f.valid : TRUE, end, Port(action, port))},
               f.starts, {end})
      open == Extend(left, {n}, group, {Edge(n, CHOOSE s \in left.starts : TRUE, Port("Begin", port))},
                     {n}, left.valid)
  IN  append(Then(append(open, n + 1, "Check"), right), n + 2, "End")

(* visit and reversed: q quantifier symbols precede the tree, group counts   *)
(* the parentheses around it, and `forward` is FALSE in a reversed tree.     *)
RECURSIVE Build(_, _, _, _, _, _)
Build(tree, n, group, q, forward, rising) ==
  LET left   == Build(tree.left, n, group, q, forward, rising)
      right  == Build(tree.right, n + Size(tree.left), group, q + Quantifiers(tree.left), forward, rising)
      middle == n + Size(tree.left) + Size(tree.right)
      first  == IF (tree.op = "PREC") = forward THEN right ELSE left
      second == IF (tree.op = "PREC") = forward THEN left ELSE right
      before(k) == SubSeq(tree.branches, 1, k - 1)
      branch(k) == Build(tree.branches[k], n + Sum([i \in DOMAIN before(k) |-> Size(before(k)[i])]), group + 1,
                         q + Sum([i \in DOMAIN before(k) |-> Quantifiers(before(k)[i])]), forward, rising)
      branches  == [k \in DOMAIN tree.branches |-> branch(k)]
  IN  CASE tree.op = "KEY"  -> Leaf(Unique(tree.predicate, forward), n, group)
        [] tree.op = "CKEY" -> Leaf(Common(tree.predicate, tree.id, tree.inputs, tree.outputs, forward), n, group)
        [] tree.op = "END"  -> Leaf(Null, n, group)
        [] IsArrow(tree) /\ (tree.port = 0 \/ ~ forward) -> Then(first, second)
        [] IsArrow(tree) /\ tree.port # 0 /\ forward -> Numbered(first, second, tree.port, middle, group)
        [] tree.op = "QUANTIFIED" ->
             Repeat(Build(tree.body, n, group, q, forward, rising), q + Quantifiers(tree),
                      tree.symbol, n + Size(tree.body), group, rising)
        [] tree.op = "GROUP" -> IF Len(branches) = 1 THEN branches[1]
                                ELSE Alternate(branches, n + Size(tree) - 2, group)
        [] tree.op = "SEP" -> Beside(left, right)

(* interpret(): the automaton, with its start states in creation order.      *)
Machine(f) == [edges |-> f.edges, starts |-> SetToSortSeq(f.starts, <), valid |-> f.valid,
               origin |-> f.origin, origins |-> f.origins, ok |-> f.ok]
Interpret(tree, rising) == Machine(Build(tree, 1, 0, 0, TRUE, rising))

(* The paths of a pattern: their start states are created in this order      *)
(* when the operands of ; are visited from left to right.                    *)
RECURSIVE Paths(_)
Paths(tree) == IF tree.op = "SEP" THEN Paths(tree.left) \o Paths(tree.right) ELSE <<tree>>
=============================================================================
