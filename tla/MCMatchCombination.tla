-------------------------- MODULE MCMatchCombination --------------------------
EXTENDS MatchCombination, MCPatterns

(* Paths that share an anchor, repeat around it, or demand its neighbours;   *)
(* paths without an anchor; the same path twice or three times.              *)
TwoPaths == {
  SEP(Follow(<<A, D>>), Follow(<<D, B>>)), SEP(Follow(<<A, D>>), Follow(<<A, D>>)),
  SEP(Follow(<<A, InD>>), Follow(<<A, D>>)), SEP(Plus(In(<<A, D>>)), Follow(<<D, B>>)),
  SEP(Plus(In(<<A, D>>)), Opt(In(<<A, D>>))), SEP(A, A), SEP(Follow(<<OutD, A>>), Follow(<<D, B>>)),
  SEP(Follow(<<D, Opt(A)>>), Follow(<<D2, Opt(A)>>)) }

ThreePaths == {
  SEP(A, SEP(A, A)), SEP(Follow(<<A, InD>>), SEP(Follow(<<A, D>>), Follow(<<A, D>>))),
  SEP(SEP(Follow(<<A, D>>), Follow(<<A, D>>)), Follow(<<D, B>>)) }

MCProblems == Searches(OnePath, Graphs)
                \cup Searches(TwoPaths, {ChainAAA, JoinD, WideJoin, DiamondD, LoopD, ForkD})
                \cup Searches(ThreePaths, {ChainAAA, JoinD, WideJoin})

(* A repeated body whose first anchor is optional. *)
TwoC  == Of(<<"C", "C", "D">>, {<<1, 3>>, <<2, 3>>})
MCOptionalAnchor ==
  Searches({Plus(In(<<Opt(GROUP(<<CKEY("A", 2, FALSE, FALSE)>>)), KEY("C"), D>>))}, {TwoC})

(* A boundary after plain operations, on a cycle. *)
MCBoundary == Searches({Follow(<<A, B, END>>)}, {CycleAB})

-----------------------------------------------------------------------------
(* The search is over, its walks are not combined yet. *)
Searched == Exhausted /\ cursors = <<1>>

(* The search does not throw and finds every reading of every path, each of  *)
(* them once, and nothing else, whatever the order of the transitions: the   *)
(* compiler, the transitions, the keys that drop walks and the order of the  *)
(* queue together implement the meaning of the pattern (PatternMeaning).     *)
(* That is the documented one except for $: where every successor of a node  *)
(* is captured already, $ holds, against doc/pattern-language.md             *)
(* (BoundaryHasNoSuccessor, which fails on a cycle).                         *)
SearchIsExact ==
  /\ NeverThrows
  /\ Searched => /\ {ResultKey(Origin(w), w) : w \in ToSet(finished)} = ExpectedWalks(problem)
                 /\ Len(finished) = Cardinality(ExpectedWalks(problem))

(* "In a repeated group containing an anchor, each iteration reaches the     *)
(* same anchor node and may start at any distance from it allowed by the     *)
(* body" (doc/pattern-language.md): every such reading is found.             *)
IterationsAreFound ==
  Searched => ExpectedWalks(problem) \subseteq {ResultKey(Origin(w), w) : w \in ToSet(finished)}

(* "`$` asserts that the operation before it has no successor"               *)
(* (doc/pattern-language.md).                                                *)
BoundaryHasNoSuccessor ==
  \A w \in ToSet(finished) : Children(problem.graph, Last(w.captures).node) = {}

(* From a pattern of several paths to its matches: what is reported is what  *)
(* the pattern means, readings of its paths that agree on anchors, share no  *)
(* plain node and meet the strict anchors together.                          *)
MatchesAreExact ==
  Combined /\ Len(problem.read) > 1 =>
    {{<<Origin(finished[i]), Contents(finished[i])>> : i \in ToSet(m)} : m \in ToSet(matches)}
      = ExpectedMatches(problem)
=============================================================================
