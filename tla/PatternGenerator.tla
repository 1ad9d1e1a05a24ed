--------------------------- MODULE PatternGenerator ---------------------------
(***************************************************************************)
(* PGInterpreterIR: a graph from a pattern and values for its quantifiers.   *)
(* Expansion visits the tree; every visit makes new nodes, except that an     *)
(* anchor has one.  Counts that the values leave open, and the alternatives,  *)
(* are drawn: Visit gives all states the generator may be in afterwards.      *)
(***************************************************************************)
EXTENDS PatternRules

CONSTANTS Problems,    \* [tree, options]: options has values, random, maxLoops and maxNodes
          VisitLimit   \* 1000000 in the code

VARIABLES problem,   \* what interpret() was asked
          stage,     \* parse, options, expand, check, then done, refused or failed
          state,     \* of the generator
          fragment   \* the whole expansion, once there is one

vars == <<problem, stage, state, fragment>>

(* Nodes are numbered in creation order.  automatic and inputs say, for the  *)
(* nodes that were connected to, how their inputs are numbered and how far.  *)
Blank == [nodes |-> <<>>, edges |-> <<>>, terminal |-> {}, anchors |-> <<>>, automatic |-> <<>>,
           inputs |-> <<>>, consumed |-> <<>>, visits |-> 0, error |-> ""]

Fragment(first, last, common, boundary) ==
  [first |-> first, last |-> last, common |-> common, boundary |-> boundary]
NoFragment == Fragment(<<>>, <<>>, FALSE, FALSE)

At(f, x, default) == IF x \in DOMAIN f THEN f[x] ELSE default
Step(s, f) == [state |-> s, fragment |-> f]
Throw(s, error) == Step([s EXCEPT !.error = error], NoFragment)
Threw(step) == step.state.error # ""

-----------------------------------------------------------------------------
\* Mutant of Connect: an input that is taken is not noticed.
ConnectMutant(s, from, to, port) ==
  LET input == IF port = 0 THEN At(s.inputs, to, 0) + 1 ELSE port
      seen  == [s EXCEPT !.automatic = (to :> (port = 0)) @@ @,
                         !.inputs = IF port = 0 THEN (to :> input) @@ @ ELSE @]
  IN  IF s.error # "" THEN s
      ELSE [seen EXCEPT !.edges = IF <<from, to, input>> \in ToSet(@) THEN @ ELSE Append(@, <<from, to, input>>)]

(* connect: automatic inputs are counted per node; a node has inputs of one  *)
(* kind, and an input has one producer.                                      *)
Connect(s, from, to, port) ==
  LET automatic == port = 0
      input == IF automatic THEN At(s.inputs, to, 0) + 1 ELSE port
      taken == \E e \in ToSet(s.edges) : e[2] = to /\ e[3] = input /\ e[1] # from
      seen  == [s EXCEPT !.automatic = @ @@ (to :> automatic),
                         !.inputs = IF automatic THEN (to :> input) @@ @ ELSE @]
  IN  IF s.error # "" THEN s
      ELSE IF At(s.automatic, to, automatic) # automatic THEN [s EXCEPT !.error = "mixed inputs"]
      ELSE IF taken THEN [seen EXCEPT !.error = "input taken"]
      ELSE [seen EXCEPT !.edges = IF <<from, to, input>> \in ToSet(@) THEN @ ELSE Append(@, <<from, to, input>>)]

ConnectAll(s, from, to, port) ==
  LET pairs == FlattenSeq([i \in DOMAIN from |-> [j \in DOMAIN to |-> <<from[i], to[j]>>]])
  IN  FoldLeft(LAMBDA t, p : Connect(t, p[1], p[2], port), s, pairs)

Dangling(f) == f.boundary /\ f.first = <<>>

JoinError(left, right, separate, port) ==
  IF separate /\ (Dangling(left) \/ Dangling(right)) THEN "boundary without operation"
  ELSE IF port # 0 /\ (left.first = <<>> \/ right.first = <<>>) THEN "empty operand"
  ELSE IF ~ separate /\ left.boundary /\ right.first # <<>> THEN "boundary followed"
  ELSE ""

(* An operand that is empty leaves the other one as it is, but a boundary    *)
(* marks the operations that it then follows.                                *)
Combine(s, left, right, separate, port) ==
  LET common == left.common \/ right.common IN
  IF ~ separate /\ Dangling(right) /\ left.first # <<>>
  THEN Step([s EXCEPT !.terminal = @ \cup ToSet(left.last)], Fragment(left.first, left.last, common, TRUE))
  ELSE IF left.first = <<>> THEN Step(s, right)
  ELSE IF right.first = <<>> THEN Step(s, left)
  ELSE IF separate
  THEN Step(s, Fragment(left.first \o right.first, left.last \o right.last, common, left.boundary))
  ELSE Step(ConnectAll(s, left.last, right.first, port), Fragment(left.first, right.last, common, right.boundary))

(* join. *)
Join(s, left, right, reverse, separate, port) ==
  LET first  == IF reverse THEN right ELSE left
      second == IF reverse THEN left ELSE right
      error  == JoinError(first, second, separate, port)
  IN  IF s.error # "" THEN Step(s, NoFragment)
      ELSE IF error # "" THEN Throw(s, error)
      ELSE Combine(s, first, second, separate, port)

-----------------------------------------------------------------------------
(* count: the values of a quantifier, broadcast when there is only one, or a *)
(* drawn number; the empty set and an error when there is none left.         *)
Drawn(symbol, options) ==
  CASE symbol = "+" -> 1 .. options.maxLoops + 1
    [] symbol = "*" -> 0 .. options.maxLoops
    [] symbol = "?" -> 0 .. 1

Counts(s, index, symbol, options) ==
  LET values == At(options.values, index, <<>>)
      invocation == At(s.consumed, index, 0) + 1
  IN  IF index \in DOMAIN options.values
      THEN IF Len(values) = 1 THEN {values[1]}
           ELSE IF invocation <= Len(values) THEN {values[invocation]} ELSE {}
      ELSE IF options.random THEN Drawn(symbol, options) ELSE {}

Invoked(s, index) == [s EXCEPT !.consumed = (index :> At(@, index, 0) + 1) @@ @]

(* A new node; the generator stops when there are maxNodes already. *)
Create(s, tree, options) ==
  LET node == Len(s.nodes) + 1
      common == tree.op = "CKEY"
      grown == [s EXCEPT !.nodes = Append(@, [predicate |-> tree.predicate, common |-> common]),
                         !.anchors = IF common THEN @ @@ (tree.id :> node) ELSE @]
  IN  IF Len(s.nodes) >= options.maxNodes THEN Throw(s, "too many nodes")
      ELSE Step(grown, Fragment(<<node>>, <<node>>, common, FALSE))

(* One more iteration of a repeated body.  Iterations that share an anchor   *)
(* are not connected: the group is entered through its first iteration and    *)
(* left through its last one.                                                *)
\* Mutant of Iterate: iterations are joined as if every body shared an anchor.
IterateMutant(result, step) ==
  LET body == step.fragment IN
  IF result.first = <<>> \/ body.first = <<>>
  THEN Join(step.state, result, body, FALSE, FALSE, 0)
  ELSE Step(step.state, Fragment(result.first, body.last, TRUE, body.boundary))

Iterate(result, step) ==
  LET body == step.fragment IN
  IF ~ body.common \/ result.first = <<>> \/ body.first = <<>>
  THEN Join(step.state, result, body, FALSE, FALSE, 0)
  ELSE Step(step.state, Fragment(result.first, body.last, TRUE, body.boundary))

RECURSIVE Visit(_, _, _, _), Repeated(_, _, _, _, _, _)

(* All outcomes of visiting a tree; q quantifier symbols precede it. *)
Visit(tree, before, q, options) ==
  LET s == [before EXCEPT !.visits = @ + 1]
      index == q + Quantifiers(tree)
      skipped(k) == SubSeq(tree.branches, 1, k - 1)
      qBranch(k) == q + Sum([i \in DOMAIN skipped(k) |-> Quantifiers(skipped(k)[i])])
      counts == Counts(s, index, tree.symbol, options)
      rights(a) == Visit(tree.right, a.state, q + Quantifiers(tree.left), options)
      port == IF IsArrow(tree) THEN tree.port ELSE 0
  IN  CASE s.error # "" -> {Step(before, NoFragment)}
        [] s.error = "" /\ s.visits > VisitLimit -> {Throw(s, "too many visits")}
        [] s.error = "" /\ s.visits <= VisitLimit ->
           CASE IsArrow(tree) \/ tree.op = "SEP" ->
                  UNION {{Join(b.state, a.fragment, b.fragment, tree.op = "PREC", tree.op = "SEP", port)
                          : b \in rights(a)} : a \in Visit(tree.left, s, q, options)}
             [] tree.op = "GROUP" ->
                  UNION {Visit(tree.branches[k], s, qBranch(k), options) : k \in DOMAIN tree.branches}
             [] tree.op = "END" -> {Step(s, Fragment(<<>>, <<>>, FALSE, TRUE))}
             [] tree.op = "QUANTIFIED" ->
                  IF counts = {} THEN {Throw(Invoked(s, index), "no value")}
                  ELSE UNION {Repeated(tree.body, Invoked(s, index), NoFragment, times, q, options) : times \in counts}
             [] tree.op = "CKEY" /\ tree.id \in DOMAIN s.anchors ->
                  {Step(s, Fragment(<<s.anchors[tree.id]>>, <<s.anchors[tree.id]>>, TRUE, FALSE))}
             [] tree.op = "KEY" \/ (tree.op = "CKEY" /\ tree.id \notin DOMAIN s.anchors) ->
                  {Create(s, tree, options)}

Repeated(body, s, result, times, q, options) ==
  IF times = 0 \/ s.error # "" THEN {Step(s, result)}
  ELSE UNION {LET joined == Iterate(result, step)
              IN  Repeated(body, joined.state, joined.fragment, times - 1, q, options)
              : step \in Visit(body, s, q, options)}

-----------------------------------------------------------------------------
(* index: the symbols of the quantifiers in the order of the text.           *)
RECURSIVE SymbolsOf(_)
SymbolsOf(tree) ==
  FlattenSeq([k \in DOMAIN Parts(tree) |-> SymbolsOf(Parts(tree)[k])])
    \o IF tree.op = "QUANTIFIED" THEN <<tree.symbol>> ELSE <<>>

ValidValues(tree, values) ==
  \A index \in DOMAIN values :
    /\ index \in DOMAIN SymbolsOf(tree) /\ values[index] # <<>>
    /\ \A value \in ToSet(values[index]) :
         /\ SymbolsOf(tree)[index] = "+" => value # 0
         /\ SymbolsOf(tree)[index] = "?" => value <= 1

SuccessorsOf(s, node) == {e[2] : e \in {e \in ToSet(s.edges) : e[1] = node}}
Unused(s, values) == \E index \in DOMAIN values :
  Len(values[index]) > 1 /\ At(s.consumed, index, 0) # Len(values[index])

FinalError(s, f, values) ==
  IF Dangling(f) THEN "boundary without operation"
  ELSE IF \E node \in s.terminal : SuccessorsOf(s, node) # {} THEN "terminal with successor"
  ELSE IF Unused(s, values) THEN "unused values" ELSE ""

(* interpret() and run(). *)
Init ==
  /\ problem \in Problems
  /\ stage = "parse" /\ state = Blank /\ fragment = NoFragment

Parse ==
  /\ stage = "parse"
  /\ stage' = IF Accepted(problem.tree) THEN "options" ELSE "refused"
  /\ UNCHANGED <<problem, state, fragment>>

CheckOptions ==
  /\ stage = "options"
  /\ IF ValidValues(problem.tree, problem.options.values)
     THEN stage' = "expand" /\ UNCHANGED state
     ELSE stage' = "failed" /\ state' = [state EXCEPT !.error = "invalid values"]
  /\ UNCHANGED <<problem, fragment>>

Expand ==
  /\ stage = "expand"
  /\ \E step \in Visit(problem.tree, state, 0, problem.options) :
       /\ state' = step.state /\ fragment' = step.fragment
       /\ stage' = IF Threw(step) THEN "failed" ELSE "check"
  /\ UNCHANGED problem

Check ==
  /\ stage = "check"
  /\ state' = [state EXCEPT !.error = FinalError(state, fragment, problem.options.values)]
  /\ stage' = IF state'.error = "" THEN "done" ELSE "failed"
  /\ UNCHANGED <<problem, fragment>>

Next == Parse \/ CheckOptions \/ Expand \/ Check
Spec == Init /\ [][Next]_vars

-----------------------------------------------------------------------------
TypeOK ==
  /\ stage \in {"idle", "parse", "options", "expand", "check", "done", "refused", "failed"}
  /\ stage = "failed" <=> state.error # ""
  /\ \A e \in ToSet(state.edges) : e[1] \in DOMAIN state.nodes /\ e[2] \in DOMAIN state.nodes
  /\ state.terminal \subseteq DOMAIN state.nodes

(* "Fixed and automatic inputs cannot be mixed on the same destination; two  *)
(* distinct producers cannot occupy the same fixed input"                    *)
(* (doc/ir-generation.md), and automatic inputs are numbered from 1 without   *)
(* a gap, independently for each node, in whatever order paths and            *)
(* iterations reach it.                                                      *)
InputsAreNumbered ==
  /\ TypeOK
  /\ stage = "done" =>
       \A node \in DOMAIN state.nodes :
         LET into == {e \in ToSet(state.edges) : e[2] = node}
         IN  /\ \A e, f \in into : e[3] = f[3] => e = f
             /\ At(state.automatic, node, FALSE) => {e[3] : e \in into} = 1 .. Cardinality(into)
=============================================================================
