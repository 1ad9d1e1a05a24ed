------------------------------- MODULE StartPlan -------------------------------
(***************************************************************************)
(* The starts of a search: TGCompiled::getStartGroups and startCandidates   *)
(* (src/TransitionGraph/TransitionGraph.cpp).                               *)
(*                                                                          *)
(* A machine is the one of WalkSearch and has, as well,                     *)
(*   tied   start states that belong to a rooted component -> its root.     *)
(***************************************************************************)
EXTENDS Transition

(* Tied starts share a group, every other start has its own; groups are     *)
(* numbered by their first start.                                           *)
Tied(machine, i, j) ==
  \/ i = j
  \/ /\ {machine.starts[i], machine.starts[j]} \subseteq DOMAIN machine.tied
     /\ machine.tied[machine.starts[i]] = machine.tied[machine.starts[j]]
Leads(machine, i) == \A j \in 1 .. i - 1 : ~ Tied(machine, j, i)

StartGroups(machine) ==
  LET leader(i) == CHOOSE j \in 1 .. i : Leads(machine, j) /\ Tied(machine, j, i)
  IN  [i \in DOMAIN machine.starts |-> Cardinality({j \in 1 .. leader(i) : Leads(machine, j)})]

GroupCount(machine) == Cardinality({i \in DOMAIN machine.starts : Leads(machine, i)})

(* The states a start can be in before it has consumed a node. *)
FreeTypes == {"EMPTY", "ALTERNATIVE", "TRACE", "PORT"}
FreelyReached(machine, start) ==
  LET onward(states) == {e.to : e \in {e \in machine.edges : e.from \in states /\ e.label.type \in FreeTypes}}
      Reached[k \in Nat] == IF k = 0 THEN {start} ELSE LET before == Reached[k - 1] IN before \cup onward(before)
  IN  Reached[Cardinality(machine.edges)]

(* The nodes a start can accept first: any node when it may finish, or ask  *)
(* for the end of the graph or for an anchor, before it consumes one.       *)
\* Mutant of Accepts: a start that may finish at once is forgotten.
AcceptsKeysOnly(g, machine, start) ==
  LET tests == {e \in machine.edges : e.from \in FreelyReached(machine, start)}
      keys  == {e.label.predicate : e \in {e \in tests : e.label.type \in {"UNIQUE", "COMMON"}}}
  IN  {n \in g.nodes : keys \cap g.satisfies[n] # {}}

Accepts(g, machine, start) ==
  LET reached == FreelyReached(machine, start)
      tests == {e \in machine.edges : e.from \in reached}
      keys  == {e.label.predicate : e \in {e \in tests : e.label.type \in {"UNIQUE", "COMMON"}}}
  IN  IF \/ reached \cap machine.valid # {}
         \/ \E e \in tests : e.label.type \in {"REF", "NNULL"}
      THEN g.nodes
      ELSE {n \in g.nodes : keys \cap g.satisfies[n] # {}}

(* For each group the nodes that all its starts accept, the lowest first.   *)
(* An empty graph is searched with absent starts.                           *)
Ascending(set) ==
  CHOOSE s \in [1 .. Cardinality(set) -> set] : \A i, j \in 1 .. Cardinality(set) : i < j => s[i] < s[j]

StartCandidates(g, machine) ==
  LET accepted(k) == {n \in g.nodes : \A i \in DOMAIN machine.starts :
                        StartGroups(machine)[i] = k => n \in Accepts(g, machine, machine.starts[i])}
  IN  [k \in 1 .. GroupCount(machine) |->
         IF g.nodes = {} THEN <<NoNode>> ELSE Ascending(accepted(k))]
=============================================================================
