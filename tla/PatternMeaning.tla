---------------------------- MODULE PatternMeaning ----------------------------
(***************************************************************************)
(* What a path of a pattern means (doc/pattern-language.md and              *)
(* doc/match-traces.md), without an automaton, without a search order and   *)
(* without keys: the set of all its readings from a start node.             *)
(*                                                                          *)
(* A reading t has the node where it goes on, its captures and anchors, the *)
(* nodes it obliges the match to cover, and its trace: the captures and the *)
(* quantifier invocations as a tree, the completed passes of an invocation  *)
(* in a bag.                                                                *)
(*                                                                          *)
(* One thing is the code's and not the documentation's: a successor that the *)
(* path has captured already, and that is no anchor, counts as none          *)
(* (Revisit; State::nextNode, and the comment of PGInterpreterTG::append),   *)
(* so that $ holds before it.  doc/pattern-language.md asks that there be    *)
(* no successor at all (README, "Divergences"; WalkSearch_boundary.cfg).     *)
(***************************************************************************)
EXTENDS PatternCompiler

Reading(node) ==
  [node |-> node, captures |-> <<>>, commons |-> {}, rejected |-> {}, trace |-> <<>>]

Covered(t) == {c.node : c \in ToSet(t.captures)}
Anchors(t) == {m.node : m \in t.commons}
Revisit(t, n) == IF n \in Covered(t) \ Anchors(t) THEN NoNode ELSE n

(* The readings that go on from one of the nodes, or nowhere. *)
On(t, nodes) == {[t EXCEPT !.node = n] : n \in IF nodes = {} THEN {NoNode} ELSE {Revisit(t, n) : n \in nodes}}

Captured(t, predicate) ==
  [t EXCEPT !.captures = Append(@, [node |-> t.node, predicate |-> predicate]),
            !.trace = Append(@, <<t.node, predicate>>)]

Anchored(t, id) == [t EXCEPT !.commons = @ \cup {[node |-> t.node, id |-> id]}]

(* An invocation in the trace: index, symbol, passes, not open, nothing after. *)
Invocation(index, symbol, passes) ==
  <<index, symbol, Len(passes), -1, ToBag(passes), <<>> >>

RECURSIVE Readings(_, _, _, _), Passes(_, _, _, _, _, _)

(* The readings of a tree that starts where t stands; q quantifier symbols  *)
(* precede it in the pattern.                                               *)
Readings(g, tree, t, q) ==
  LET n == t.node
      right == q + Quantifiers(tree.left)
      first  == IF tree.op = "PREC" THEN tree.right ELSE tree.left
      second == IF tree.op = "PREC" THEN tree.left ELSE tree.right
      qFirst  == IF tree.op = "PREC" THEN right ELSE q
      qSecond == IF tree.op = "PREC" THEN q ELSE right
      index  == q + Quantifiers(tree)
      symbol == tree.symbol
      before(k) == SubSeq(tree.branches, 1, k - 1)
      qBranch(k) == q + Sum([i \in DOMAIN before(k) |-> Quantifiers(before(k)[i])])
      hits   == n # NoNode /\ tree.predicate \in g.satisfies[n]
      holder == {m.node : m \in {m \in t.commons : m.id = tree.id}}
  IN  CASE tree.op = "KEY" ->
             IF /\ hits /\ n \notin Covered(t)
                /\ Cardinality(Children(g, n)) <= 1 /\ Cardinality(Parents(g, n)) <= 1
             THEN On(Captured(t, tree.predicate), Children(g, n)) ELSE {}
        [] tree.op = "CKEY" ->
             IF hits /\ (holder = {n} \/ (holder = {} /\ n \notin Anchors(t)))
             THEN LET u == Captured(Anchored(t, tree.id), tree.predicate)
                      must == (IF tree.inputs THEN Parents(g, n) ELSE {})
                                \cup (IF tree.outputs THEN Children(g, n) ELSE {})
                  IN  On([u EXCEPT !.rejected = @ \cup must], Children(g, n))
             ELSE {}
        [] tree.op = "END" -> IF n = NoNode THEN {t} ELSE {}
        [] IsArrow(tree) ->
             UNION {{v \in Readings(g, second, u, qSecond) :
                       tree.port # 0 => Len(v.captures) > Len(u.captures)}
                     : u \in {u \in Readings(g, first, t, qFirst) :
                                tree.port # 0 =>
                                  /\ Len(u.captures) > Len(t.captures)
                                  /\ u.node # NoNode
                                  /\ <<Last(u.captures).node, u.node, tree.port>> \in g.ports}}
        [] tree.op = "GROUP" ->
             UNION {Readings(g, tree.branches[k], t, qBranch(k)) : k \in DOMAIN tree.branches}
        [] tree.op = "QUANTIFIED" ->
             LET skipped == IF symbol = "+" THEN {}
                            ELSE {[t EXCEPT !.trace = Append(@, Invocation(index, symbol, <<>>))]}
                 done == Passes(g, tree, [t EXCEPT !.trace = <<>>], <<>>, {}, q)
             IN  skipped \cup {[p.reading EXCEPT !.trace = Append(t.trace, Invocation(index, symbol, p.passes))]
                                : p \in done}

(* One more pass of a repeated body, then any number of further ones.  A    *)
(* pass after the first covers a node that was not covered before.  Without *)
(* an anchor in the body it starts where the last one ended; with one, it    *)
(* starts anywhere and reaches an anchor that was reached before.            *)
Passes(g, tree, t, passes, covered, q) ==
  LET repeated == passes # <<>>
      anchors  == Anchors(t)
      jumps    == HasAnchor(tree.body)
      starts   == IF repeated /\ jumps THEN On(t, g.nodes) ELSE {t}
      reached(s, u) == {u.captures[k].node : k \in Len(s.captures) + 1 .. Len(u.captures)}
      ends == UNION {{u \in Readings(g, tree.body, s, q) :
                        repeated => /\ Covered(u) # covered
                                    /\ jumps => reached(s, u) \cap anchors # {}} : s \in starts}
      once == {[reading |-> [u EXCEPT !.trace = <<>>], passes |-> Append(passes, u.trace)] : u \in ends}
      more == {p \in once : tree.symbol # "?" /\ (jumps \/ p.reading.node # NoNode)}
  IN  once \cup UNION {Passes(g, tree, p.reading, p.passes, Covered(p.reading), q) : p \in more}

(* The contents of a walk that reads the whole path (see Contents).          *)
Summary(t, tree) ==
  [commons |-> t.commons,
   rejected |-> t.rejected, valid |-> ToSet(t.captures), scopes |-> <<>>, exact |-> <<>>,
   trace |-> IF Quantifiers(tree) = 0 THEN <<>> ELSE t.trace]

Meaning(g, tree, node, q) == {Summary(t, tree) : t \in Readings(g, tree, Reading(node), q)}

(* The readings of several paths make a match when they agree on every       *)
(* anchor, when a plain capture of one is captured by no other, and when     *)
(* together they cover the neighbours that each of them demands.             *)
Disagree(s, t) ==
  \/ \E m \in s.commons, n \in t.commons : (m.id = n.id) # (m.node = n.node)
  \/ \E c \in s.valid : c.node \in {d.node : d \in t.valid} \ {m.node : m \in s.commons}

Together(meanings) ==
  LET paths == DOMAIN meanings
  IN  {f \in [paths -> UNION {meanings[k] : k \in paths}] :
         /\ \A k \in paths : f[k] \in meanings[k]
         /\ \A k, l \in paths : k # l => ~ Disagree(f[k], f[l])
         /\ UNION {f[k].rejected : k \in paths} \subseteq {c.node : c \in UNION {f[k].valid : k \in paths}}}
=============================================================================
