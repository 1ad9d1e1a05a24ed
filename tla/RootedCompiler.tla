----------------------------- MODULE RootedCompiler -----------------------------
(***************************************************************************)
(* The compilation that requests use: RootSelectionPass.cpp proposes a root *)
(* for each component of a pattern, and PGInterpreterTG::interpretRooted    *)
(* splits every path of a component at its root anchor.  Both halves start  *)
(* there, the first part of the path being walked backwards, and all start  *)
(* states of one component are tied to the same node.                       *)
(*                                                                          *)
(* `paths` are the operands of ; and their units are numbered through the   *)
(* whole pattern in the order of the text.  A planning node is a unit; the  *)
(* occurrences of an anchor are one planning node, named by the first.      *)
(***************************************************************************)
EXTENDS PatternCompiler

(* What stands between the arrows of a path, and the order of the walk.     *)
RECURSIVE Units(_), Route(_)
Units(tree) == IF IsArrow(tree) THEN Units(tree.left) \o Units(tree.right) ELSE <<tree>>
Route(tree) ==
  LET left  == Route(tree.left)
      right == [k \in DOMAIN Route(tree.right) |-> Route(tree.right)[k] + Len(left)]
  IN  CASE tree.op = "NEXT" -> left \o right
        [] tree.op = "PREC" -> right \o left
        [] OTHER -> <<1>>

AllUnits(paths) == FlattenSeq([p \in DOMAIN paths |-> Units(paths[p])])
UnitsBefore(paths, p) == Len(AllUnits(SubSeq(paths, 1, p - 1)))
RouteOf(paths, p) ==
  [k \in DOMAIN Route(paths[p]) |-> UnitsBefore(paths, p) + Route(paths[p])[k]]

(* Quantifier symbols in the text before a unit. *)
SymbolsBefore(units, u) == Sum([v \in 1 .. u - 1 |-> Quantifiers(units[v])])

-----------------------------------------------------------------------------
(***************************************************************************)
(* The plan.                                                               *)
(***************************************************************************)
PlanNode(units, u) ==
  IF units[u].op = "CKEY"
  THEN Min({v \in DOMAIN units : units[v].op = "CKEY" /\ units[v].id = units[u].id})
  ELSE u

NodesOfPath(paths, p) == {PlanNode(AllUnits(paths), u) : u \in ToSet(RouteOf(paths, p))}
PathsThrough(paths, nodes) == {p \in DOMAIN paths : NodesOfPath(paths, p) \cap nodes # {}}

Constraints(paths) ==
  LET node(p, k) == PlanNode(AllUnits(paths), RouteOf(paths, p)[k])
  IN  UNION {{<<node(p, k), node(p, k + 1)>> : k \in 1 .. Len(RouteOf(paths, p)) - 1} : p \in DOMAIN paths}

Adjacent(constraints, n) == {c[2] : c \in {c \in constraints : c[1] = n}}
                              \cup {c[1] : c \in {c \in constraints : c[2] = n}}

RECURSIVE Connected(_, _)
Connected(constraints, nodes) ==
  LET more == nodes \cup UNION {Adjacent(constraints, n) : n \in nodes}
  IN  IF more = nodes THEN nodes ELSE Connected(constraints, more)

(* More paths first, then more neighbours, then the first of the text. *)
Score(paths, n) ==
  << Cardinality(PathsThrough(paths, {n})), Cardinality(Adjacent(Constraints(paths), n) \ {n}) >>
Better(paths, m, n) ==
  LET s == Score(paths, m)
      t == Score(paths, n)
  IN  \/ s[1] > t[1]
      \/ s[1] = t[1] /\ s[2] > t[2]
      \/ s = t /\ m < n

NoRoot == 0
SelectRoot(paths, component) ==
  LET units    == AllUnits(paths)
      eligible == {n \in component : units[n].op \in {"KEY", "CKEY"}}
      quantifiedCommon == \E u \in DOMAIN units : units[u].op = "QUANTIFIED" /\ HasAnchor(units[u])
  IN  IF quantifiedCommon \/ eligible = {} THEN NoRoot
      ELSE CHOOSE n \in eligible : \A m \in eligible \ {n} : Better(paths, n, m)

-----------------------------------------------------------------------------
(***************************************************************************)
(* interpretRooted.                                                        *)
(***************************************************************************)
(* The root of a path, where it is rooted: an anchor that all paths of the  *)
(* component go through, none of which has a numbered arrow or a boundary.  *)
Plain(tree)  == \A t \in Subtrees(tree) : t.op # "END" /\ (IsArrow(t) => t.port = 0)
Rooting(paths, component, root) ==
  LET members == PathsThrough(paths, component)
  IN  IF /\ root # NoRoot /\ AllUnits(paths)[root].op = "CKEY"
         /\ members \subseteq PathsThrough(paths, {root})
         /\ \A q \in members : Plain(paths[q])
      THEN root ELSE NoRoot
ComponentOf(paths, p) == Connected(Constraints(paths), NodesOfPath(paths, p))
RootOfComponent(paths, component) == Rooting(paths, component, SelectRoot(paths, component))
RootOf(paths, p) == RootOfComponent(paths, ComponentOf(paths, p))

(* The parts of a path: all of it, or the halves before and after its root. *)
Part(p, route, forward, root) == [path |-> p, route |-> route, forward |-> forward, root |-> root]
Halves(p, route, k, root) ==
  LET ahead == Part(p, SubSeq(route, k, Len(route)), TRUE, root)
      back  == Part(p, Reverse(SubSeq(route, 1, k)), FALSE, root)
  IN  CASE k = 1 -> << ahead >>
        [] k = Len(route) /\ k > 1 -> << back >>
        [] OTHER -> << ahead, back >>
Split(paths, p, route, root) ==
  IF root = NoRoot THEN << Part(p, route, TRUE, NoRoot) >>
  ELSE Halves(p, route, Min({k \in DOMAIN route : PlanNode(AllUnits(paths), route[k]) = root}), root)
PartsOf(paths) ==
  FlattenSeq([p \in DOMAIN paths |-> Split(paths, p, RouteOf(paths, p), RootOf(paths, p))])

(* The states of a part, numbered from n, are created unit by unit. *)
BuildPart(paths, units, part, n, rising) ==
  LET first(k) == n + Sum([i \in 1 .. k - 1 |-> Size(units[part.route[i]])])
      piece(k) == Build(units[part.route[k]], first(k), 0, SymbolsBefore(units, part.route[k]), part.forward, rising)
  IN  IF part.root = NoRoot
      THEN Build(paths[part.path], n, 0, SymbolsBefore(units, UnitsBefore(paths, part.path) + 1), TRUE, rising)
      ELSE FoldLeft(Then, piece(1), [k \in 1 .. Len(part.route) - 1 |-> piece(k + 1)])

PartSize(paths, units, part) ==
  IF part.root = NoRoot THEN Size(paths[part.path])
  ELSE Sum([k \in DOMAIN part.route |-> Size(units[part.route[k]])])

BuildParts(paths, units, parts, rising) ==
  [i \in DOMAIN parts |->
     BuildPart(paths, units, parts[i], 1 + Sum([j \in 1 .. i - 1 |-> PartSize(paths, units, parts[j])]), rising)]

(* The machine also says which start states are tied to one node, by their  *)
(* root, and which path of the pattern the part of each start belongs to.   *)
Assemble(parts, built) ==
  LET start(i) == CHOOSE s \in built[i].starts : TRUE
      rooted   == {i \in DOMAIN parts : parts[i].root # NoRoot}
  IN  Machine(FoldLeft(Beside, built[1], Tail(built)))
        @@ [tied |-> [s \in {start(i) : i \in rooted} |-> parts[CHOOSE i \in rooted : start(i) = s].root],
            path |-> [i \in DOMAIN parts |-> parts[i].path]]

Compile(paths, units, parts, rising) == Assemble(parts, BuildParts(paths, units, parts, rising))
InterpretRooted(tree, rising) ==
  Compile(Paths(tree), AllUnits(Paths(tree)), PartsOf(Paths(tree)), rising)
=============================================================================
