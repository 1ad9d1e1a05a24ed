------------------------------- MODULE Transition -------------------------------
(***************************************************************************)
(* The transitions of the automaton (src/TransitionGraph/Transition.cpp,    *)
(* TransitionTrace.hpp, TransitionPort.hpp) and State::test.                *)
(*                                                                          *)
(* A transition tests a copy of a walk: it refuses it, or changes it and    *)
(* names the graph nodes where it goes on.  A graph g is a record           *)
(*   nodes, edges (pairs), satisfies (node -> predicates that accept it)    *)
(*   and ports (triples <<producer, consumer, input port>>);                *)
(* parents and children are reciprocal, as GraphView demands.  Labels of    *)
(* transitions are records built by the operators at the top.               *)
(***************************************************************************)
EXTENDS RunTimeContext

Children(g, n) == {m \in g.nodes : <<n, m>> \in g.edges}
Parents(g, n)  == {m \in g.nodes : <<m, n>> \in g.edges}

(* Labels.  `forward` is the direction of the next nodes: children.         *)
Unique(predicate, forward) ==
  [type |-> "UNIQUE", predicate |-> predicate, forward |-> forward]
Common(predicate, id, inputs, outputs, forward) ==
  [type |-> "COMMON", predicate |-> predicate, id |-> id,
   inputs |-> inputs, outputs |-> outputs, forward |-> forward]
Ref(anchor) == [type |-> "REF", anchor |-> anchor]
Empty       == [type |-> "EMPTY"]
Null        == [type |-> "NNULL"]
Alternative == [type |-> "ALTERNATIVE"]
Trace(action, index, symbol) ==
  [type |-> "TRACE", action |-> action, index |-> index, symbol |-> symbol]
Port(action, port) == [type |-> "PORT", action |-> action, port |-> port]

Anchor == [id : Int, deltas : SUBSET Int, unboundedParents : BOOLEAN, unboundedChildren : BOOLEAN]
Labels ==
  [type : {"UNIQUE"}, predicate : STRING, forward : BOOLEAN]
    \cup [type : {"COMMON"}, predicate : STRING, id : Nat, inputs : BOOLEAN, outputs : BOOLEAN, forward : BOOLEAN]
    \cup [type : {"REF"}, anchor : Anchor]
    \cup {Empty, Null, Alternative}
    \cup [type : {"TRACE"}, action : {"Begin", "Skip", "Iteration", "End"}, index : Nat, symbol : {"+", "*", "?"}]
    \cup [type : {"PORT"}, action : {"Begin", "Check", "End"}, port : Nat]

-----------------------------------------------------------------------------
Refuse(w)       == [success |-> FALSE, walk |-> w, nodes |-> {}]
GoTo(w, nodes)  == [success |-> TRUE, walk |-> w, nodes |-> nodes]
StayPut(w)      == GoTo(w, IF w.node = NoNode THEN {} ELSE {w.node})

NextNodes(g, w, label) == IF label.forward THEN Children(g, w.node) ELSE Parents(g, w.node)

(* A plain occurrence has one parent and one child at most and is a node    *)
(* that this walk has not captured yet.                                     *)
TestUnique(g, w, label) ==
  IF /\ w.node # NoNode
     /\ w.node \notin ValidNodes(w)
     /\ label.predicate \in g.satisfies[w.node]
     /\ Cardinality(Children(g, w.node)) <= 1
     /\ Cardinality(Parents(g, w.node)) <= 1
  THEN GoTo(SetValid(w, w.node, label.predicate), NextNodes(g, w, label))
  ELSE Refuse(w)

(* An identity binds one node and a node holds one identity.  A strict      *)
(* occurrence makes its neighbours an obligation of the match.              *)
MayBind(w, id) ==
  LET bound == CommonNodeFromIdx(w, id)
  IN  IF bound = NoNode THEN w.node \notin CommonNodes(w) ELSE bound = w.node

TestCommon(g, w, label) ==
  IF w.node # NoNode /\ label.predicate \in g.satisfies[w.node] /\ MayBind(w, label.id)
  THEN LET captured == SetValid(SetCommon(w, w.node, label.id), w.node, label.predicate)
           covered  == (IF label.inputs THEN Parents(g, w.node) ELSE {})
                         \cup (IF label.outputs THEN Children(g, w.node) ELSE {})
       IN  GoTo(Reject(captured, covered), NextNodes(g, w, label))
  ELSE Refuse(w)

(* Where the next pass of a repeated body may start: at the distances from  *)
(* its anchor that the compiler found (see getAnchor).                      *)
Layer(g, from, up) ==
  LET neighbours(n) == IF up THEN Parents(g, n) ELSE Children(g, n)
      Nodes[k \in Nat] == IF k = 0 THEN {from} ELSE UNION {neighbours(n) : n \in Nodes[k - 1]}
  IN  Nodes

SideOf(g, from, anchor, up) ==
  LET unbounded == IF up THEN anchor.unboundedParents ELSE anchor.unboundedChildren
      distances == IF unbounded THEN 1 .. Cardinality(g.nodes)
                   ELSE {IF up THEN -d ELSE d : d \in {e \in anchor.deltas : IF up THEN e < 0 ELSE e > 0}}
  IN  {n \in g.nodes : \E k \in distances : n \in Layer(g, from, up)[k]}

TestRef(g, w, label) ==
  LET from == CommonNodeFromIdx(w, label.anchor.id)
  IN  IF from = NoNode THEN Refuse(w)
      ELSE GoTo(w, (IF 0 \in label.anchor.deltas THEN {from} ELSE {})
                     \cup SideOf(g, from, label.anchor, TRUE)
                     \cup SideOf(g, from, label.anchor, FALSE))

TestEmpty(w) == IF w.node = NoNode THEN Refuse(w) ELSE StayPut(w)

TestNull(w) == IF w.node = NoNode THEN GoTo(w, {}) ELSE Refuse(w)

(* Bookkeeping of quantifiers, which also passes at the end of the graph.   *)
TestTrace(w, label) ==
  CASE label.action = "Begin" -> StayPut(BeginQuantifier(w, label.index, label.symbol))
    [] label.action = "Skip"  -> StayPut(EndQuantifier(BeginQuantifier(w, label.index, label.symbol)))
    [] label.action = "Iteration" ->
         IF ~ Balanced(w, label.index) THEN Refuse(Broken(w))
         ELSE IF PassIsNew(w) THEN StayPut(CompletePass(w)) ELSE Refuse(w)
    [] label.action = "End" ->
         IF Balanced(w, label.index) THEN StayPut(EndQuantifier(w)) ELSE Refuse(Broken(w))

(* The edge just crossed must reach the numbered input port.                *)
TestPort(g, w, label) ==
  CASE label.action = "Begin" -> StayPut(BeginPortScope(w))
    [] label.action = "Check" ->
         IF /\ CapturedInScope(w) /\ w.node # NoNode
            /\ <<Last(w.captures).node, w.node, label.port>> \in g.ports
         THEN StayPut(CheckedPort(w)) ELSE Refuse(w)
    [] label.action = "End" -> IF CapturedInScope(w) THEN StayPut(EndPortScope(w)) ELSE Refuse(w)

Test(g, w, label) ==
  CASE label.type = "UNIQUE" -> TestUnique(g, w, label)
    [] label.type = "COMMON" -> TestCommon(g, w, label)
    [] label.type = "REF"    -> TestRef(g, w, label)
    [] label.type = "EMPTY"  -> TestEmpty(w)
    [] label.type = "NNULL"  -> TestNull(w)
    [] label.type = "ALTERNATIVE" -> StayPut(w)
    [] label.type = "TRACE"  -> TestTrace(w, label)
    [] label.type = "PORT"   -> TestPort(g, w, label)

-----------------------------------------------------------------------------
(* The quantifiers of an automaton nest when each state can be given the     *)
(* quantifiers that are open there, outermost first, so that they change as  *)
(* the transitions say.                                                      *)
Brackets(before, label, after) ==
  IF label.type # "TRACE" \/ label.action = "Skip" THEN after = before
  ELSE CASE label.action = "Begin"     -> after = Append(before, label.index)
         [] label.action = "Iteration" -> after = before /\ before # <<>> /\ Last(before) = label.index
         [] label.action = "End"       -> before = Append(after, label.index)

Nesting(machine, open) ==
  /\ \A k \in DOMAIN machine.starts : open[machine.starts[k]] = <<>>
  /\ \A e \in machine.edges : Brackets(open[e.from], e.label, open[e.to])

-----------------------------------------------------------------------------
(* State::test, for one next node: a node that is already captured, and that *)
(* no anchor allows the walk to revisit, is replaced by none.               *)
Place(w, node) == IF node \in PlainNodes(w) THEN NoNode ELSE node

\* Mutant of Moved: the walk goes back to a node it has captured.
MovedBack(w, node) == [w EXCEPT !.node = node]

Moved(w, node) == [w EXCEPT !.node = Place(w, node)]
=============================================================================
