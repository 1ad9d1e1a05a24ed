-------------------------- MODULE MCPatternGenerator --------------------------
EXTENDS PatternGenerator, GenerateCommand, PatternGrammar, MCPatterns

MCTokens == {Token("KEY", A), Token("CKEY", D), Token("NEXT", 0), Token("PREC", 0), Token("NEXT", 2)}
              \cup {Token(type, "") : type \in {"QOM", "QZO", "LPAREN", "RPAREN", "SEP", "END", "ALT"}}

Problem(tree, values, random, loops, nodes) ==
  [tree |-> tree, options |-> [values |-> values, random |-> random, maxLoops |-> loops, maxNodes |-> nodes]]
Drawing(tree) == Problem(tree, <<>>, TRUE, 1, 100)
Given(tree, values) == Problem(tree, values, FALSE, 10, 100)

(* Nested, shared and numbered patterns that are longer than the sentences. *)
Nested  == Follow(<<Plus(In(<<Plus(A), B>>)), Star(A), Opt(B)>>)
Shared  == Follow(<<B, Plus(In(<<Star(A), D>>)), A>>)
Skipped == Star(In(<<D, Plus(A)>>))
Ported  == SEP(NEXT(A, D, 2), NEXT(B, D, 1))
Larger == {
  Given(Nested, (1 :> <<2, 1>>) @@ (2 :> <<2>>) @@ (3 :> <<0>>) @@ (4 :> <<1>>)),
  Given(Nested, (1 :> <<3>>) @@ (2 :> <<2>>) @@ (3 :> <<1>>) @@ (4 :> <<0>>)),
  Given(Nested, (1 :> <<2, 1>>) @@ (2 :> <<3>>) @@ (3 :> <<0>>) @@ (4 :> <<1>>)),
  Given(Nested, (1 :> <<2, 1, 1>>) @@ (2 :> <<2>>) @@ (3 :> <<0>>) @@ (4 :> <<1>>)),
  Given(Nested, (1 :> <<2>>) @@ (2 :> <<2>>)), Given(Nested, 1 :> <<0>>), Given(Nested, 4 :> <<2>>),
  Given(Nested, 5 :> <<1>>), Given(Nested, 1 :> <<>>),
  Given(Shared, (1 :> <<0, 2, 1>>) @@ (2 :> <<3>>)), Given(Shared, (1 :> <<1>>) @@ (2 :> <<2>>)),
  Given(Skipped, 2 :> <<0>>), Given(Skipped, (1 :> <<1, 2>>) @@ (2 :> <<2>>)),
  Given(PREC(D, Plus(In(<<Or(A, B), D2>>)), 0), 1 :> <<2>>),
  Drawing(Nested), Drawing(Shared), Drawing(Skipped), Drawing(SEP(Follow(<<D, END>>), Follow(<<D, Opt(A)>>))),
  Drawing(Follow(<<Or(Opt(A), B), END>>)), Drawing(SEP(Ported, Follow(<<B, D>>))), Drawing(SEP(Ported, NEXT(A, D, 1))),
  Drawing(Ported), Drawing(Follow(<<D, Opt(B), END>>)), Problem(Nested, <<>>, TRUE, 2, 3) }
Conflict == Drawing(SEP(NEXT(D, PREC(Opt(B), PREC(Opt(A), END, 0), 0), 0), Follow(<<D, Opt(A)>>)))

(* Every sentence of the grammar with counts that are drawn, and those. *)
MCProblems == {Drawing(s.tree) : s \in QueriesOf(Levels(FALSE))} \cup Larger
MCConflict == {Conflict}

-----------------------------------------------------------------------------
Argument(option, value) == [option |-> option, value |-> value]
Line(key, index, values) == [key |-> key, index |-> index, valid |-> TRUE, values |-> values, random |-> FALSE]
BadLine(key, index) == [Line(key, index, <<>>) EXCEPT !.valid = FALSE]
Random == [Line("mode", 0, <<>>) EXCEPT !.random = TRUE]

(* A pattern with two quantifiers, one the rules refuse, and the options in   *)
(* every order, twice and left out.                                          *)
Fine    == Argument("-r", Follow(<<Plus(A), Opt(B)>>))
Illegal == Argument("-r", Follow(<<Opt(A), END>>))
Looping == {Argument("--max-loops", 1), Argument("--max-loops", 2), Argument("-v", 0)}
Other   == {Argument("-v", 0), Argument("-o", "graph"), Argument("--random", 0)}
Arguments ==
  {Append(p, Fine) : p \in SeqOf(Looping, 3)}
    \cup {p \o <<q>> \o r : p \in SeqOf(Other, 1), q \in {Fine, Illegal}, r \in SeqOf(Other, 1)}
    \cup {<<>>, <<Argument("-v", 0)>>, <<Fine, Argument("unknown", 0)>>, <<Argument("-o", "graph"), Argument("--help", 0), Fine>>,
      <<Argument("-o", "graph"), Fine, Argument("-o", StandardOutput)>>, <<Illegal, Fine>>}

Lines == {Line("1", 1, <<2>>), Line("01", 1, <<3>>), Line("2", 2, <<0>>), Line("0", 0, <<1>>),
          Random, Line("mode", 0, <<>>), Line("max_loops", 0, <<3>>),
          Line("max_nodes", 0, <<1>>), BadLine("mode", 0), BadLine("1", 1)}
Files == SeqOf(Lines, 2) \cup {<<Line("max_loops", 0, <<3>>), Line("2", 2, <<1>>), Line("1", 1, <<3>>)>>}

MCCalls == {[arguments |-> a, lines |-> f] : a \in Arguments, f \in Files}

(* The generator is called by the command, or directly with any problem.  A  *)
(* step of the command is one of GenerateCommand, in which the interpreter    *)
(* returns when the generator has finished.                                  *)
allVars == <<vars, commandVars>>
Finished == {"done", "refused", "failed"}

CalledByCommand ==
  /\ CommandInit
  /\ problem = [tree |-> END, options |-> Defaults]
  /\ stage = "idle" /\ state = Blank /\ fragment = NoFragment
CalledDirectly ==
  /\ Init
  /\ call = [arguments |-> <<>>, lines |-> <<>>] /\ phase = "called" /\ arguments = <<>> /\ lines = <<>>
  /\ given = [random |-> FALSE, loops |-> Absent, tree |-> Absent, values |-> FALSE, output |-> FALSE]
  /\ seen = {} /\ options = problem.options
  /\ result = "none" /\ destination = "old" /\ status = -1

CallGenerator ==
  /\ LoadLibrary
  /\ IF phase' = "generate"
     THEN /\ problem' = [tree |-> CHOOSE tree \in given.tree : TRUE, options |-> options]
          /\ stage' = "parse" /\ UNCHANGED <<state, fragment>>
     ELSE UNCHANGED vars
GeneratorStep == phase \in {"generate", "called"} /\ Next /\ UNCHANGED commandVars
ReturnGraph ==
  /\ stage \in Finished /\ Generate
  /\ result' = "graph" <=> stage = "done"
  /\ UNCHANGED vars
OtherStep ==
  /\ ReadArgument \/ ArgumentsRead \/ ReadLine \/ ReadFails \/ ValuesRead \/ Generated \/ Open \/ Write
  /\ UNCHANGED vars

MCInit == CalledByCommand \/ CalledDirectly
MCNext == CallGenerator \/ GeneratorStep \/ ReturnGraph \/ OtherStep
MCSpec == MCInit /\ [][MCNext]_allVars

-----------------------------------------------------------------------------
(* The matches of the whole graph with the pattern that it comes from.       *)
Graph ==
  [nodes |-> DOMAIN state.nodes, edges |-> {<<e[1], e[2]>> : e \in ToSet(state.edges)},
   satisfies |-> [n \in DOMAIN state.nodes |-> {state.nodes[n].predicate}], ports |-> ToSet(state.edges)]
Matches ==
  LET paths == Paths(problem.tree)
      before(k) == SubSeq(paths, 1, k - 1)
      symbols(k) == Sum([i \in DOMAIN before(k) |-> Quantifiers(before(k)[i])])
      starts == IF Graph.nodes = {} THEN {NoNode} ELSE Graph.nodes
      meaning(k) == UNION {Meaning(Graph, paths[k], n, symbols(k)) : n \in starts}
  IN  {f \in Together([k \in DOMAIN paths |-> meaning(k)]) :
         {c.node : c \in UNION {f[k].valid : k \in DOMAIN f}} = Graph.nodes}

(* How often the invocations of a quantifier in a trace repeated its body.   *)
RECURSIVE PassCounts(_, _)
PassCounts(trace, index) ==
  LET items == SelectSeq(trace, LAMBDA item : Len(item) > 2)
      passes(item) == FlattenSeq(SetToSeq({[k \in 1 .. CopiesIn(p, item[5]) |-> p] : p \in BagToSet(item[5])}))
      inside(item) == [k \in DOMAIN passes(item) |-> PassCounts(passes(item)[k], index)]
      own(item) == IF item[1] = index THEN <<item[3]>> ELSE <<>>
  IN  FlattenSeq([k \in DOMAIN items |-> own(items[k]) \o FlattenSeq(inside(items[k]))])

(* A generated graph is matched by its pattern, and one of these matches     *)
(* repeats each quantifier as its values say: the generator and the traces   *)
(* number the quantifiers and their invocations alike.                       *)
AsGiven(counts, values) == IF Len(values) = 1 THEN ToSet(counts) \subseteq ToSet(values)
                                             ELSE ToBag(counts) = ToBag(values)
GeneratedMatches ==
  stage = "done" =>
    \E f \in Matches : \A index \in DOMAIN problem.options.values :
      AsGiven(FlattenSeq([k \in DOMAIN f |-> PassCounts(f[k].trace, index)]), problem.options.values[index])

(* What is refused, and when: no expansion of an accepted pattern has a       *)
(* boundary without an operation before it ("$ must follow a guaranteed      *)
(* operation"); a pattern that the rules for boundaries refuse has counts    *)
(* with which a boundary does not hold; and a draw that fails because a       *)
(* terminal operation got a successor is one whose graph "could not match its *)
(* pattern" (doc/ir-generation.md).                                          *)
BoundaryErrors == {"boundary without operation", "boundary followed", "terminal with successor", "empty operand"}
RefusalsAreExact ==
  /\ state.error # "boundary without operation"
  /\ stage = "refused" /\ AlternativesArePlain(problem.tree) =>
       \E step \in Visit(problem.tree, Blank, 0, Drawing(problem.tree).options) :
         {step.state.error, FinalError(step.state, step.fragment, <<>>)} \cap BoundaryErrors # {}
  /\ state.error = "terminal with successor" => Matches = {}

(* The error "when the drawn counts give a terminal operation a successor"   *)
(* (doc/ir-generation.md): no graph is returned that cannot match.           *)
BoundaryIsKept == stage = "done" => Matches # {}
=============================================================================
