# CorGIReg in TLA+

CorGIReg matches patterns over the nodes of a directed graph: `A->B`, `(A|B)+`, anchors such
as `D#` that several walks share, numbered arrows `A-2>B`, and several paths in one pattern
`A->D#;B->D#`. A pattern is parsed to a tree, the tree is compiled to an automaton, walks of
the automaton over the graph are searched breadth first, and the finished walks of the paths
are combined into matches. The native command runs one such search for every tuple of start
nodes on a pool of threads and writes the answers in order. A Python command line imports a graph,
sends it to the native command with the definitions of a node library, and replaces a report by the
answer. The same patterns also generate graphs.

Sources are named relative to `src/` of the repository, C++ sources to `src/src/`.

## 1. Inventory

| Component | State | Operations | Modelled in |
|---|---|---|---|
| Ordered executor `Cli/SearchExecutor.cpp` | ring of slots, two counters, stop flag, first exception, threads, one mutex and one condition variable | `runOrderedSearch`: claim, evaluate, publish, take, consume, join | `SearchExecutor`, abstractly `OrderedDelivery` |
| Walk contexts `TransitionGraph/RunTimeContext.cpp` | captures, common nodes, rejected nodes, quantifier invocations, stacks of invocations and port scopes | `setValid`, `setCommon`, `beginQuantifier`, `completeIteration`, `endQuantifier`, port scopes, `key`, `areCompatible` | `RunTimeContext` |
| Transitions `TransitionGraph/Transition.cpp`, `TransitionTrace.hpp`, `TransitionPort.hpp` | none but their label | `test` of every transition type, `State::test` | `Transition` |
| Walk search `TransitionGraph/TransitionGraph.cpp` (`TGCompiled::test`) | walks of this and of the next round, keys seen, results | breadth-first search | `WalkSearch` |
| Match combination `TransitionGraph/MatchSolution.cpp` | recursion of `_makeTheMatch`, chosen walks | extend, report, take back | `MatchCombination` |
| Automaton construction `CompileTransitionGraph/PGInterpreterTG.cpp`, `TransitionGraph.cpp` | graph under construction, start, valid and grouped states | one visit per tree node, `unionG`, `addTransition`, `mergeOneStartOneValid`, `getAnchor` | `PatternCompiler` |
| Pattern language `doc/pattern-language.md`, `doc/match-traces.md` | none | the meaning of a pattern | `PatternMeaning` (reference for the three above) |
| Root selection `PostAstOptimization/RootSelectionPass.cpp`, `interpretRooted` | planning graph of the pattern | propose a root for each component, split each path at its root anchor | `RootedCompiler` |
| Lexer and parser `PartitionGraphLexer.cpp`, `PartitionGraphParser.cpp` | position in the text, current token, tree | recursive descent, checks of alternatives and boundaries, `parse` again | `PatternParser`, `PatternRules`, `PatternGrammar` (tokens, not characters) |
| Random expressions `Generation/RandomExpressionGenerator.cpp` | the text drawn so far | draw until the parser accepts | `RandomExpressionGenerator` |
| Graph generation `PGInterpreterIR.cpp`, `Cli/generate.cpp` | graph under construction, counters of inputs and visits; options, output file | options from arguments and values file, one visit per tree node, final checks, writing | `PatternGenerator`, `GenerateCommand` |
| Match request `Cli/MatchRequest.cpp`, start groups and candidates in `TransitionGraph.cpp` | request read so far; candidates, combinations | read the protocol, plan the starts, count them against the budget, decode, search and write every tuple | `RequestReader`, `MatchRequest`, `StartPlan` |
| Node predicates and library `NodeTest/` | definitions by name, the predicates of a request | load files and directories, validate, resolve keys and aliases, compute predicates | `NodeLibrary` (rules are an equality) |
| Graph classes `BasicGraphIr/Graph.cpp`, `GraphAdapters/` | reciprocal adjacency, port bindings, infos | `addNode`, `addEdge`, `setInfo`, `deepCopy`, `mergeNodes` | `GraphStore`, abstractly `OperandGraph`; `ImportedGraph` in `RequestReader` |
| Python command line `python/corgireg_cli/cli.py`, `graph.py` | inputs, subprocess, temporary and report file | check the output, validate and encode the graph, run with a timeout, replace the report | `ReportWriter`, `RequestWriter` |
| Importers, iterators, build files | none | translate files of other tools; permutation helpers; packaging | not modelled |

How they interact. `MatchRequest` calls `runOrderedSearch` with two callbacks: `evaluate(i)`,
run by workers without the lock, searches start tuple `i` (walk search, then match
combination) and `consume(result)`, run by the calling thread only, writes the answer.
Searches share the automaton and the graph, read-only. Before that, `matchRequest` reads the request
that `graph.py` wrote, has `NodeLibrary` turn the keys of the pattern into sets of nodes, parses the
pattern and compiles it. `cli.py` is the parent process: it gives the request to the engine and
writes what the engine answers. `generate` parses the pattern too, and interprets the tree as a graph
instead of an automaton. Inside a search everything is
sequential; what varies is the order in which transitions are tested, because `State` keeps
them in a set ordered by address.

What is hard here:

* Workers overtake each other and run ahead of the caller through a ring that wraps; both sides
  wait on one condition variable and are notified after the unlock; `evaluate`, `consume` and
  thread creation can fail at any moment, with workers that refer to locals of the call.
* A walk is dropped when its `key()` was seen. If the key forgets something that a later
  transition reads, a match disappears, for some search orders only.
* Repetitions may consume nothing or jump back to an anchor, on cyclic graphs. That the search
  ends rests on one comparison (`RunTimeContext.cpp:27`).
* The anchor of a repeated body, and how far from it the next pass may start, are found by a
  search through the automaton under construction (`Transition.cpp:283-325`).
* `_makeTheMatch` is recursive over one shared vector and must report each combination once.
* A request is answered from less than it asks for: paths are split at an anchor and walked
  backwards, starts are tied, nodes that a start cannot accept are not tried, tuples are decoded
  from a number. None of that may add or lose a match.
* The parser decides on one token of look-ahead; what it accepts goes to two compilers and a generator
  that assume properties of trees which nobody checks again.
* The generator joins fragments that may be empty, shared by an anchor, or end at a boundary, with
  counts that are consumed per visit; its graph has to match the pattern it came from.
* Graphs keep every edge in three places by hand (children, parents, bindings), through copies and
  merges.
* Several runs of the command line may share their files; each can fail, time out or be killed
  between any two steps.
* The request protocol has six forms, written in Python and read in C++; a request can be cut off.

What makes each component correct:

* Executor: results in tuple order, each once, a return only after all of them; a failure holds
  back its tuple and every later one; buffered results stay within 8 per job; no lost wake-up;
  no worker outlives the call; the call ends.
* Walk contexts and transitions: a plain node is captured once; an identity has one node and a
  node one identity; the trace is a tree; nothing throws.
* Search and construction: exactly the readings that the documentation gives the pattern (but see `$` in "Divergences"), each
  once, for every order of the transitions; the search ends.
* Combination: exactly the sets of agreeing walks that cover every path, each once.
* Request: every tuple that respects the plan is searched once, never more than the budget, and
  the answer is what the unsplit pattern means from all nodes.
* Parser: exactly the sentences of the grammar (but see `A->$<-B` in "Divergences"), with their trees; it ends; what it accepts compiles.
* Generator: the graph matches its pattern, inputs are numbered without gaps, only what cannot match is
  refused; a failed command leaves the destination alone.
* Graphs: neighbours reciprocal, bindings on edges only, no node in two graphs, and operand uses change
  as the operations promise.
* Library: spellings of a key agree, a key accepts what its definition says, none is lost.
* Protocol: what is written is read back, and no part of it is taken for all of it.
* Report: whole or the old one, with an exit status that says which; inputs are never overwritten.

## 2. Modules

```
OrderedDelivery <--refines-- SearchExecutor <-- SearchExecutorProofs
RunTimeContext <- Transition <- WalkSearch <- MatchCombination <- MatchRequest -> StartPlan
WalkSearchProofs <- MatchProofs       about WalkSearch; about MatchCombination and MatchRequest

PatternTree                           the nodes of the tree, for all that follow
PatternCompiler -> Transition         the automaton of a tree
RootedCompiler  -> PatternCompiler    the automaton that requests use
PatternMeaning  -> PatternCompiler    what the tree means (uses its trees only)
MCPatterns      -> PatternMeaning     graphs and patterns, for MCMatchCombination,
                                      MCMatchRequest and MCPatternGenerator
PatternRules    -> RootedCompiler     the parser's checks of a tree
PatternParser   -> PatternGrammar     <-- PatternParserProofs
RandomExpressionGenerator -> PatternParser          MCPatternParser, MCPatternDivergences;
                                      PatternParserProofs is about it too
                                      (they give the parser the checks of PatternRules)
PatternGenerator -> PatternRules
GenerateCommand                       MCPatternGenerator puts it around PatternGenerator

OperandGraph    <--refines-- GraphStore <-- GraphStoreProofs, MCGraphStore
ReportWriter    <-- MCReportWriter
ReportWriter, GenerateCommand <-- CommandLineProofs
NodeLibrary     <-- NodeLibraryProofs, MCNodeLibrary
RequestReader   <-- RequestReaderProofs
RequestReader, RequestWriter <-- MCRequestReader
```

`SearchExecutor`. One action is one critical section, one callback or one `notify_all()`, so
every interleaving between an unlock and the notification after it is a behaviour. `caller`
and `worker[t]` say where each thread is; `asleep` is a thread inside `wait()`. `slots`,
`next`, `consumed`, `stop` and `failure` are the locals that the threads share. A wake-up
sends a thread back to the section in which it tests its predicate; spurious wake-ups are an
action. `Choose` is the branch to the inline loop for one job. The result of a tuple is the
tuple, `delivered` is a history of what `consume` accepted.

`RunTimeContext`. A walk is a record; the methods are operators from walks to walks. What would
be thrown is remembered in `threw`. `mValidNodes` is not a field: it is always the captures
without their order. `Key` keeps the structure of the text that `key()` prints: the completed
passes of an invocation are sorted there, so they are a bag here.

`Transition`. `Test(g, w, label)` is the `test` of the transition with that label: whether it
succeeds, the changed walk and the next nodes. `Moved` is the end of `State::test`, which
replaces a captured next node by none. Predicates are names, a graph says which of them each
node satisfies.

`WalkSearch`. `Begin` files a start walk, `Visit` takes the next walk and records it when it is a
new solution, `Cross` tests one transition on a copy, `Arrive` files the walk for one next
node. The rounds of the code are one queue. `order` is an arbitrary order of the transitions
of each state, chosen at the start and kept.

`MatchCombination`. EXTENDS `WalkSearch`: when the search is exhausted, `cursors` is the stack of
calls of `_makeTheMatch`, `precedence` the walks chosen so far. `Report`, `Try` and `GiveUp`
are the ways a call goes on; `Return` takes back the walk that the caller had added.

`PatternCompiler`. `Interpret` builds the machine from a tree as the visitor does, state numbers
included. `ok` collects the assertions of the construction. `ByAddress` stands for the order
in which `getAnchor` meets the transitions of a state: rising or falling.

`RootedCompiler`. `Interpret` for requests. `SelectRoot` is the proposal of `RootSelectionPass`: units
are planning nodes, occurrences of one anchor are one node, arrows connect nodes to components, and
the node on most paths, then with most neighbours, then the first in the text, is the root. `RootOf`
adds the conditions of `interpretRooted`, `PartsOf` splits the paths, `BuildPart` builds the half
before the root backwards. The machine records which starts are tied to one root.

`StartPlan`. `StartGroups` numbers the tied starts, `Accepts` walks the transitions that consume
nothing and collects the predicates a start may test first, `StartCandidates` lists the nodes that
all starts of a group accept.

`MatchRequest`. EXTENDS `MatchCombination` and `StartPlan`. `CountGroup`, `NoCandidate` and
`RefuseRequest` are the loop that counts combinations, `ChooseNode` one digit of the decoding,
`SearchTuple` the call of `test` with everything in it fresh, `Search` a step of that call, `Write`
the fragment and its `consume`. Tuples are searched one after the other: what `evaluate` computes
depends on its tuple only, since searches share nothing they write, and `SearchExecutor` shows that
fragments are consumed in tuple order for every number of jobs.

`PatternMeaning`. The readings of a tree from a node, as a set, from the documentation: no
automaton, queue or key. It is the specification that compiler, transitions and search are
checked against. It is taken from the documentation, except for `$`: like the code, it takes a successor that
the path has already captured for none (`Revisit`), where `doc/pattern-language.md:25,96` asks that there be
no successor at all. What is checked against it says nothing of that difference; see "Divergences".

`PatternTree` has the constructors of the tree alone, so that the parser can be reasoned about without the
compilers, which are recursive.

`PatternParser`. The call stack of the recursive descent is explicit; an action is one function up to
its next call or return, `ReadToken` the lexer. The text is chosen token by token as it is asked for, so
one behaviour stands for all texts with the same beginning. `Finish` resets the parser and applies
`Accepts`, a parameter that every instance gives as `Accepted` of `PatternRules`; `ParseAgain` is a second
`parse` on the same object, up to `MaxParses` calls. `PatternGrammar`
has the sentences with their trees, in levels by their
number of tokens; `Grammar` is the table of these levels, which an instance computes once. It is the grammar of
`doc/pattern-language.md` with one exception: `-> $` ends a path, as in the code, so `A->$<-B` is no sentence
(`loose` puts it back; see "Divergences").

`RandomExpressionGenerator`. A path is any text that the nested draws can return; `ReadDrawn` has the
parser read the text, `DrawAgain` starts over when it is refused. A sequence (`SequencesOver`) has up to three
expressions and, in either direction, a boundary or none; `Expressions` nests them to `MaxDepth`.

`PatternGenerator`. `Visit` returns all states in which the generator may be after a visit of a tree:
counts that are drawn and the branch of an alternative make several. What throws is kept in `error`.
`Join` is `join` with `anchored` and `connect`, `Iterate` one iteration of a quantifier.

`GenerateCommand`. `ReadArgument`, then `ReadLine` for each line of the values file, `LoadLibrary`, `Generate`,
and `Open` and `Write` for the destination, each of which may fail. The interpreter is a call that
returns a graph or throws. In `MCPatternGenerator` the two run together: the interpreter is
`PatternGenerator`, with the tree and the options of the command, so each step there is one of `GenerateCommand` or of the
generator it waits for, and the theorems about `GenerateCommand` hold of it.

`GraphStore`. `parents`, `children` and `connections` are the containers of the nodes, keyed by address;
`members` the nodes of each graph. `Merge` is `mergeNodes` with its bindings numbered before anything is
unlinked; `CopyInto` is `_copyNode` for all nodes reached. The refinement maps to `OperandGraph`: nodes,
the set of operand uses `<<producer, consumer, ports>>`, infos.

`ReportWriter`. `pc[r]` is where run `r` stands in `run` and `write_report`, `entry` what each path leads
to, `temporary` whose temporary file is there. A file a run makes is named by the run. `Kill` may come at
any point, also between the rename (`Replace`) and the end of the run (`Return`). `SameFile` is `samefile`, so that two paths may lead to one file.

`NodeLibrary`. `OpenLocation` and `LoadFile` load, `Valid` is the validation of one definition, `Resolve`
computes the members of each definition in the selected format, then `matchRequest`'s loops:
`CheckKeys`, `NamePredicates`, `Narrow` for an inline condition.

`RequestReader`. `todo` is the list of fields still to be read, one action per kind of field, in the
order of the reading functions of `MatchRequest.cpp`; a version or a count puts the fields it announces
in front. `inner` is the same for the value that `readValue` is in the middle of, each field with its
depth; every tag of a value has its own reading of the payload. `RequestWriter` is `validate_graph` and
`encode_request` as operators, with the values that `encode_value` refuses (`Encodable`); `MCRequestReader` feeds
what the one writes, whole, cut short between two tokens or inside one, or
followed by more, and every short text, to the other. Nothing marks the end of a request, so the reader cannot know
that its last numeral lost digits: a budget of 41 that is cut to 4 is read (`number` and the check for further tokens,
`MatchRequest.cpp:22-30, 233-236`). `WholeRequestsOnly` excepts exactly that, and `WrittenIsReadBack` says that everything but the
budget is then as it was written. (`subprocess.run` sends the whole text or fails, so only a killed command could
cut it.)

`MCPatterns` has the graphs (up to four nodes: chains, cycles, joins, forks, a diamond, a
self-loop) and the patterns; the other `MC` modules the instances and the properties that compare two
modules. `MCPatternDivergences` states what documents and comments say where the code does something else.

The readings of `PatternMeaning`, the searches of the model and the compiled library agree on
220 combinations of pattern and graph with 625 matches; requests of the model and of the compiled
`matchRequest` give the same number of matches from the same starts for 184 combinations. Findings 1 and 2 and the
first divergence below were reproduced with the library as well.

## 3. Runs

| Run | Shows |
|---|---|
| `executor_ring` | `DeliversInOrder` (refinement of `OrderedDelivery`), `BoundedBuffer`, `FailureHoldsBack`, `JoinedOnExit`, `NoResultOverwritten`; `CallEnds`, which a lost wake-up would break |
| `walk_exact` | `SearchIsExact`: the walks found are the readings of the pattern (`PatternMeaning`, with the code's `$`), each once, and nothing throws; `WalksConsistent`; `EachCombinationOnce`, `MatchesAreExact`: the matches are the meaning of the pattern |
| `request_exact` | `AnswerIsExact`: the answer is the meaning of the pattern although paths are rooted, starts tied and candidates pruned; `TuplesOnce`; `WithinBudget`: no more tuples are searched than the budget, and a request is refused only when its groups, up to the one that exceeds, combine to more (a later group may have no candidate, finding 2); `AnswerAgrees`, `RequestEnds` |
| `parser_grammar` | `ParseIsExact`: the sentences of `PatternGrammar` (without `A->$<-B`) and only those, with their trees, also the second time; `AcceptedCompile`: by both compilers, into automata whose quantifiers nest; `DrawnIsRead`: a random expression is no syntax error; `Terminates` |
| `generator_all` | `GeneratedMatches`: a generated graph has a match that covers it and repeats each quantifier as its values say; `InputsAreNumbered`, `RefusalsAreExact`, `OptionsMeetTheCall`, `DestinationIsKept` |
| `graph_copy_merge` | `ImplementsOperandGraph` (refinement), `Reciprocal`, `BindingsFollowEdges`, `Disjoint` |
| `report_shared` | `ReportsAreWhole`, `StatusIsTrue`, `TemporariesAreRemoved`, `InputsAreKept`, `NoRunWaits` |
| `library_keys` | `SpellingsAgree`, `PredicatesAreExact`, `LibraryIsWhole`, `GeneratedIsMatched` |
| `request_protocol` | `WrittenIsReadBack`; `WholeRequestsOnly`: no part of a request is answered, but for a cut in the last numeral; `ContentIsClosed` |
| `optional_anchor` | violates `IterationsAreFound` (finding 1) |
| `no_tuple` | violates `RefusedBeyondBudget` (finding 2) |
| `generator_boundary` | violates `BoundaryIsKept` (finding 3) |

Bounds, and why they are enough.

* `Counts`, `JobRequests`, `MaxJobs = 3`, `SlotsPerJob = 1`: with five tuples and up to three workers and slots
  the ring wraps, a worker can be late by more than one turn of the ring, all workers can
  owe results while the caller waits for the oldest one, and `jobs` is tried below, at and
  above its limits. The code has 256 and 8; the theorems hold for all values.
* Graphs of up to four nodes and the patterns of `MCPatterns`: every constructor of the tree,
  each quantifier around plain nodes, anchors and groups, nested quantifiers, two anchors, an
  optional and a repeated neighbour of an anchor, boundaries, both arrow directions, ports,
  alternatives. Every node is tried as a start and every order of the transitions is tried.
* `DistanceLimit = 4` in searches stands for `kDistanceLimit = 32` of `getAnchor`: a body longer than the
  limit counts as unbounded, which four-node graphs already tell apart.
* Patterns of two and three paths: shared anchors, strict anchors that another path satisfies,
  equal paths, paths without an anchor.
* Requests: 15 patterns with a root first, last, in between, shared by paths, twice on a path, next
  to repetitions and alternatives; 11 that keep their order, each for a different reason
  (no anchor, boundary, numbered arrow, anchor under a quantifier, an anchor that not all paths
  share), or whose start accepts any node; eight graphs, the empty one included. Matches are compared
  path by path as nodes, anchors and pass structure, because a split path lists its captures from
  the root on. A budget that is never reached, and budgets of one to three tuples. Three patterns loop
  without consuming anything, or through an anchor, for `RequestEnds`.
* `PatternParser`: texts of up to six tokens over one token of each type, a second `parse` of each.
  Six reach every function in every other (a quantified alternative of paths is six tokens). Random
  expressions: `MaxDepth = 1`, two expressions in a first path, one in the second.
* `PatternGenerator`: the sentences of up to seven tokens with all drawn counts of 0 and 1, and 24 larger
  problems with given counts: nested quantifiers with one count per visit of the outer, anchors
  shared between iterations, fixed and automatic inputs, limits exceeded. With eight tokens the run
  would meet finding 3. `VisitLimit = 60` (1000000 in the code) is exceeded by some.
  `DistanceLimit = 8` here, since no sentence of seven tokens is longer.
* `GraphStore`: five nodes by address, two graphs, three calls of `addEdge` or `setInfo` and any number of
  copies and merges that five nodes allow: enough to copy and merge neighbours, nodes with a
  common neighbour and nodes with a self-loop, with two bindings on an edge.
* `ReportWriter`: two runs, three paths, two files that were there before. A third run would
  meet no other kind of file; the theorems hold for any number.
* `NodeLibrary`: two canonical keys in two formats with every mapping to five places, one of them under
  an array index, and 8 node documents that tell any two places apart; invalid definitions one by
  one, for each rule of the validation.
* `RequestReader`: any text of six tokens, and the requests of 309 graphs of at most two nodes,
  those of one node and at most one edge also with
  every prefix, with a token cut short at any place and with a further token; values of every tag, those outside
  64 bits, not finite or too deep included, which the writer refuses. `MaxDepth = 2` (64 in the code), `MaxCount = 2` (1000000),
  `MaxPort = 2` (2^32 - 1) are exceeded by one.

Fairness. Each thread of the executor is weakly fair: the scheduler runs every thread that
can run, and the callbacks return, as the command line's do. Nothing is assumed of spurious
wake-ups, so they never replace a notification. Search, combination and request are one thread; weak
fairness of their next-state action only says that it is not suspended for ever. So is the parser, for
its own steps: nothing is assumed of its caller. `ReportWriter` assumes no fairness: a run may be stopped
by the system, and the engine may never answer; `NoRunWaits` says instead that every run that has not
ended has a step of its own that needs nobody else's.

`CHECK_DEADLOCK FALSE` appears where what is modelled has an end: nothing follows an answered request,
a finished parse or run, a library that is ready, or a store without fresh nodes. The executor
stutters once its call is over, so every other standstill is reported there.

## 4. Theorems

`SearchExecutorProofs`, for every set of counts and job requests, every limit of jobs and every
number of slots per job (`ArgumentsAssumption`: naturals, the latter two positive).

`ExecutorInv` is inductive. `BoundedBuffer` or `NoResultOverwritten` alone are not: that a late
worker finds its slot free needs that every tuple between `consumed` and `next` has one owner,
the worker that owes it or the slot that keeps it (`RingInv`), and that tuples less than a ring
apart never share a slot (`SlotsDiffer`). What the caller delivers needs where it stands
relative to `consumed` (`CallerInv`), and what `join` waits for which threads exist
(`ThreadsInv`). From it follow

* `TypeCorrect`, `FailureHeldBack`, `WorkersJoined`, `BufferBounded`: invariants of the run;
* `ResultsKept`: the action property `NoResultOverwritten`;
* `OrderedDeliveryImplemented`: initial states map to initial states, `Consume` to `Deliver`,
  the ends of the call to `Return` or `Throw`, every other step to a stutter;
* `WakeupsKept`: `NoLostWakeup`, by induction of its own, since who still has to notify is not
  part of `ExecutorInv`.

`WalkSearchProofs` and, for the combination, `MatchProofs`, for every graph, every
automaton, any number of start states and paths and every order of the transitions. The
assumption, `ProblemsAssumption`, only says what a problem is made of: graph nodes and states
are numbers, transitions carry labels of `Labels`, there is a start node of the graph, or
none, for every start state, there are finitely many paths and every state belongs to some of them
(`HasOrigins`: `State.hpp` creates a state in path 0, and a union shifts and joins the paths). Nothing else
is assumed of how the automaton was built, so the results do not depend on the compiler. The runs
check the assumptions for the automata of `RootedCompiler` and `PatternCompiler`.

`Sound(nodes, w)` is what every walk keeps: its type, its place in the graph, that the stack of
quantifiers names invocations that exist, `PlainOnce` and `AnchorsAgree`. `TestKeeps` shows that
no transition type spoils it, one lemma for each (`UniqueKeeps`, `CommonKeeps`, `RefKeeps`,
`TraceKeeps`, `PortKeeps`). The point is `SetValidKeeps`: a node may be captured when it is new
or common, which `TransitionUnique::test` checks before and `TransitionCommon::test` brings
about by `setCommon`. That a walk does not wait on a plain node of its own (`StandsFree`) is lost
between a transition and the end of `State::test`, so `SearchInv` asks it of waiting walks only,
and `MovedKeeps` restores it. From `SearchInv` follow

* `SearchTyped`: walks stay in the graph and in the automaton;
* `CapturesConsistent`: `WalksConsistent`.

What dropping walks loses is a question of its own. A run (`IsRun`) is a sequence of walks, each of which a
transition leads to from the one before; nobody drops it. `ExploredInv` says that there is a set of walks, ends
of runs, one for every key seen, such that each of them still waits, is the one being visited, or has had the
key of everything it leads to seen and its result filed; of the walk being visited it says the same, but for the
transitions still to test and the nodes still to arrive at. It needs `Orders` to list every transition of a
state. From it follow, for every automaton,

* `FinishedWalksAreRuns`: nothing but runs is found, and no result twice;
* `SearchIsClosed`: the walks that were followed are closed under the transitions up to their keys.

Whether the key keeps enough is then a question about transitions only. `Alike` is what they can tell of two
walks: the state, the node, anchors, obligations, the set of captures, how many captures each open numbered
arrow has seen and, when it has seen any, the last of them. `KeysAreAlike`: equal keys make walks alike.
`AlikeTests` and `AlikeMoves`: a transition that is none of a quantifier answers alike walks in the same way and
leaves them alike, although their captures may be in another order and of another length. So along any run the
search has a walk alike (`RunsAreKept`), and

* `EveryRunIsFound`: for every run that ends in a valid state there is a finished walk that covers the same
  paths with the same captures, anchors and obligations, when no transition begins or ends a quantifier (`Bare`).

Nothing is assumed of the quantifiers either, and a walk that ends one it has not begun throws ("Unbalanced
quantifier trace"). `Nesting(machine, open)` says that `open` gives each state the quantifiers that are open there,
so that they change as the transitions say. Then every walk that goes on has open what its state says (`Nest`, with
`BeginOpens`, `PassOpens`, `EndOpens` for what the operations do to the stack of invocations), and

* `NestedNeverThrow`: a search over an automaton that has such an `open` never throws, neither there nor in
  `setCommon` or `setValid`.

That compiled patterns have one is part of `AcceptedCompile`, which TLC checks.

With quantifiers the key also holds the tree of invocations with the passes of each as a bag, which is defined
by recursion over the walk: there the same question stays with `SearchIsExact`.

`CombinationInv` adds that nothing is chosen before the search is exhausted (so that positions in
`finished` keep their meaning), that every call on the stack added at most one walk, and that the
chosen walks agree. From it follow

* `CombinationTyped`: no call takes back more walks than were added;
* `MatchesAlwaysAgree`: `MatchesAgree`, which `MatchSolution.cpp:12-14` names as assertions still
  to be written.

`EveryCombinationOnce` is `EachCombinationOnce`: nothing is missing, nothing is reported twice, whatever
the walks are. The calls walk a tree. Its nodes are the sequences of walks (`Partial`) in which each
walk covers the lowest path left open, no path twice, and agrees with those before it; its complete ones
(`Covers`) are leaves (`NothingFollows`). The stack of loops is a place in that tree, and `TreeInv` says that
the matches reported so far are the good leaves left of it, each once. It is inductive because
`Try` moves right by one place that is no leaf, and a `Return` after the last walk has
passed everything below (`ReturnVisits`). In the end everything is left of the place, and it
remains to show that sets and sequences correspond: a set of agreeing walks that covers the
paths has one order in which each covers the lowest open path, by minimality of the open path
(`OneOrder`, `SomeOrder`), and it cannot have more members than there are paths (`NoMoreThanPaths`).

`EveryMatchIsFound` joins this with `EveryRunIsFound`: when the pattern has no quantifier, any set of runs that ends
in valid states, covers every path once, agrees on anchors and meets its obligations (`Joined`) is reported,
as a match of walks that are interchangeable with them one by one. Neither the keys that drop walks, nor the
results that drop solutions, nor the recursion over the solutions loses a match.

`MatchProofs` also has the request, for every graph, every automaton with tied starts, and every budget
(`RequestsAssumption`: the graph is finite, its nodes are numbers, the budget is positive).
`RequestInv` says that `combinations` is the number of tuples of the groups counted so far and never
above the budget, that a number below it leaves every group a candidate to choose, and that the
search in progress keeps `CombinationInv`. Counting rests on `PicksMultiply` (a further group
multiplies the tuples, which needs that no candidate is listed twice, `CandidatesListed`, hence
`AllListed`) and on `Division` (the comparison with a quotient is the comparison of the product);
decoding on `GroupsExist`. From it follow

* `BudgetKept`: `WithinBudget`;
* `AnswersAgree`: `AnswerAgrees`, whatever was searched before;
* `RequestTyped`: `RequestTypeOK`, the assumption of the search theorems for every tuple decoded.

`EveryTupleOnce` is `TuplesOnce`: the tuples searched are those the plan allows (each start from its
candidates, tied starts from one node), once each. `DecodeInv` says that tuple `i` was decoded from the number `i`:
there are quotients, from `i` down to what is left, whose remainders chose the nodes. Two numbers that
choose the same nodes are equal when both are used up (`PickedOnce`), and a number below the count is
(`UsedUp`). So the numbers below the count choose different tuples; there are as many tuples as numbers
(`PicksMultiply`), hence none is missed (`AllPicked`). `StartingTuples` turns choices of
nodes for the groups into tuples of start nodes; it needs that the groups are the classes of tied starts
(`GroupsAreTies`).

`GraphStoreProofs`, for any sets of nodes, graphs, ports and infos, when copies are whole
(`MayKeep = FALSE`; the last divergence below is about the other case). No part of `Inv` is
inductive alone: that a merge keeps edges reciprocal needs that no edge leaves the graph
(`MembersAreClosed`), that one needs that the graphs are disjoint, and that a fresh node has no stale
bindings needs `BindingsFollowEdges`. From it follow `NeighborsAreReciprocal`, `BindingsStay`,
`GraphsAreApart`, `GraphsAreClosed`, `TypeCorrect`. `StoreImplementsOperandGraph` is the refinement: every
operation is the one of `OperandGraph` on operand uses, or leaves them alone. A merge is the hard case: it
collects bindings from the parents of the merged nodes and erases them at the outer parents and children, and
that this renames every use of a merged node, and leaves none behind, needs `Reciprocal`.

`NodeLibraryProofs`, for any definitions, formats, keys and documents (`CasesAssumption`: lists are sequences
and a case has what an invocation has). `Inv` says what each stage leaves to the next: a file is
loaded or waits (`Loading`), memberships are those of the definitions (`Resolved`), every key names a definition
with the format in use (`Checked`), predicates are the nodes of the names (`Named`). From it follow
`EverySpellingAgrees`, `KeysAreExact`, `GivenFilesAreKept`, `GenerationAgrees`, `TypeCorrect`: the four
properties of the run.

`RequestReaderProofs`, for any tokens, numerals, texts, limits and rules (`NumeralAssumption`: numerals are naturals). Every
list of fields that can be left to read is described by which field may follow which (`Fields`, `Chain`), and
`HeldFits` says what was kept when a field is in front. `ReaderInvariant` is that, and that the nodes
without a document are the one being read (`Covered`). From it follows `ReadIsClosed`:
`ContentIsClosed`, for texts that end or go wrong anywhere.

`PatternParserProofs`, for any set of tokens, any length of text, any checks of the trees and any number of calls.
`TokensAssumption` says which kinds of tokens the lexer has, `GrammarAssumption` that `Grammar` has the levels of
the grammar, each built from those below it (the run checks it of its table), `ParsesAssumption` that `parse`
may be called. The theorem is that recursive descent and grammar (the one in which `-> $` ends a path) agree, in both directions:

* The grammar first. `Derives(w, nt, a, b, tree)` says that the tokens of `w` from `a` to before `b` are a sentence of the
  nonterminal `nt` with that tree. Every production is proved to join such spans, and, conversely, every span to be cut by one
  of the productions of its nonterminal. What sentences have in common (no boundary begins a plain sequence, the
  tree of a list is the sequence of its branches) is shown for all levels by the least one that would be wrong.
* What was read (`ReadingInv`). A stack is read as a path of cuts of the word (`Reaches`): each frame of a function
  that began at `a` and goes on at `p` has kept what lies between them (`Before`), and waits for the nonterminal that the
  frame above it computes; the last cut is the start of the word. `Sound` holds this of every word that begins with the
  text, so it does not matter which tokens are still to be chosen. Each action keeps it, by the production it stands for.
* What is still to be read (`ViableInv`). If a sentence begins with the text, there is a path of cuts from the position
  to its end, on which every frame of the stack finds what it still needs (`Complete`). This is where the one token
  of look-ahead matters: an action must take the branch that the sentence needs, for every sentence. For that
  it has to be known what can follow a span (`Follow`), and that an expression ends where the parser ends it: a list
  in parentheses is read from its first branch, while the grammar adds branches at the end
  (`FirstBranch`), and a key followed by `+` is no sentence without it.
* The calls that ended (`ResultsInv`), which have read the same text to its end.

`ParserInv` is their conjunction with the bounds of the text (`ParserIsInvariant`). `ParseIsExact` alone says nothing about
the stack, so it is far from inductive; from `ParserInv` it follows (`ParsingIsExact`), with the type invariant in it.
What TLC compares for texts of six tokens holds for any length.

The last part is about `RandomExpressionGenerator`. `DrawsFit` says what the theorem is for: the words, quantifiers, arrows
and marks that are drawn are tokens of the lexer, and the grammar has levels up to the longest text that can be drawn.
(The constants of `parser_grammar` are not such: its lexer numbers every `<-`, to keep the run small, and its
grammar is shorter than the texts; there TLC reads what is drawn all the same.) `Texts(nt)` are the texts of a nonterminal. What `sequence`
returns grows from the right, one expression at a time: `Forward` and `Backward` say which texts it is then, with a boundary
behind it and without. By the least depth that would be wrong, `Expressions` are texts of the grammar at all depths.
A text with paths to come must be a query whatever query follows (`Continued`), which a new path keeps.
`GeneratorInv` is that, with the room that is left, while the text is drawn, and afterwards `ParserInv`
and that the text is a whole sentence. That the parser has not failed then is what `ViableInv` says of this very sentence:
`DrawnIsAlwaysRead`.

`CommandLineProofs`, about the two commands that write files. `corgireg`, for any number of runs and paths (`TasksAssumption`, `FilesAssumption`: what a task
is made of). `Inv` says what a run knows at each point (`Progress`) and that a file of a run is found
only where the run put it by renaming (`Placed`); `WholeReports`, `TrueStatus`, `RemovedTemporaries` and
`KeptInputs` follow. `InputsAreKept` is about the inputs at the time of the check: a path that
another run makes an input later is that run's to compare. `corgireg-generate`, for any arguments, any lines
of the values file and any interpreter (`CallsAssumption`: they are lists, and a mode is random or not): `CommandInv`
says that `given` is what the arguments read so far have given, of an option with a value the last
(`GivenIs`), and that `options` is what the lines read so far have set, in whatever order (`OptionsAre`, which needs that
no key and no index was there twice). `OptionsAsCalled` and `DestinationStays` follow.

Type invariants of the executor, search, combination, request, graph and report modules are proved and
not checked by a run; those of the other modules are part of a property of their run.

Induction over numbers is by least counterexample (`LeastElement`, `UpTo` in `WalkSearchProofs`): a set
of naturals that misses one has a least one that it misses.

Only model-checked, and why:

* liveness (`CallEnds`, `Terminates`, `RequestEnds`) and `NoRunWaits`, which is about `ENABLED`: out of the
  prover's reach;
* `SearchIsExact`, `MatchesAreExact`, `AnswerIsExact`: they compare with what the recursive compiler and
  the recursive meaning of a tree compute; so do `AcceptedCompile`, `GeneratedMatches`,
  `InputsAreNumbered`, `RefusalsAreExact`: trees are recursive, and an induction over them is not
  available (the parser needs none: its grammar is a table of levels, and its stack is explicit);
* `WrittenIsReadBack`, `WholeRequestsOnly`: they compare the reader with the writer, which encodes values recursively.

## 5. Findings

1. `Transition.cpp:290-324` anchors a repeated body on the first anchor it meets, even if a pass
   may skip it. `((A#)?->C->D#)+` over two `C` nodes that join at `D` reports one iteration;
   `doc/pattern-language.md:146-148` promises both, and `(C->D#)+` does report them.
2. `MatchRequest.cpp:262-270` compares partial products with the budget before it meets a group
   without candidates. `A;B;D` with two `A`, no `D` and `--max-starts 1` is refused for too many
   starting combinations although there is none; `D;A;B` is answered. `doc/cli.md:68` calls the
   option the maximum number of starting tuples.
3. `PGInterpreterIR.cpp:150` returns the right operand alone when the left one drew nothing, and
   forgets that the left one ends at a boundary. `D#->B?<-A?<-$;D#->A?` with the counts 0, 0, 1 writes
   `D->A` although `D` is terminal; `doc/ir-generation.md:180-182` promises an error.

### Divergences

Smaller disagreements. None of them is a run of the project; the configurations named here, and the change of one
constant in the last case, show them.

* `WalkSearch_boundary.cfg` (`MCMatchCombination`): `State.cpp:57-62` gives `$` the same "no node" for the end of the graph and
  for a successor that is already captured, so `A->B->$` matches `A1->B2` on the cycle.
  `doc/pattern-language.md:96` says that `$` asserts that there is no successor; a comment at
  `PGInterpreterTG.cpp:91` has the other reading.
* `PatternParser_far_anchor.cfg` (`MCPatternDivergences`): `getAnchor` throws (`Transition.cpp:322`) when the anchor of a
  repeated body is more than 32 steps away on both sides, so a pattern that `parse` accepts cannot be compiled.
  `Transition.hpp:279` says "Distances beyond kLimit make that side unbounded."
* `PatternParser_documented.cfg`: after `->` the parser takes `$` as the end of the path
  (`PartitionGraphParser.cpp:236-241`), so `A->$<-B` is a syntax error; the grammar of
  `doc/pattern-language.md:115` derives it.
* `PatternParser_boundaries.cfg`: `A->B<-C<-$` is accepted, because some operation precedes `$` in the order of the walk
  (`PartitionGraphParser.cpp:93-97`), but no graph has a match; `doc/pattern-language.md:96-97` says that
  such patterns are refused.
* `GraphStore_copy_merge.cfg` (`MCGraphStore`) with `MayKeep = TRUE` violates `Reciprocal`: `deepCopy` with nodes to keep gives a copy edges to kept nodes that do not
  have the copy as neighbour (`Graph.cpp:160-171`); `GraphView.hpp:18` demands reciprocal neighbours.

`RunTimeContext.cpp:200` prints the node and the predicate of a capture without a separator, and a
predicate may begin with a digit. The key also holds the nodes of every predicate, so only walks over
the same nodes in another order within one pass could be confused. The model keeps the two apart.

`doc/multithreading.md:59` and `doc/pattern-language.md:141-142` still say that root selection only
plans; `doc/cli.md:81-82` and the code tie the starts of rooted paths, as the model does.

## 6. Not modelled, and the plan

Not modelled for good:

* Characters: the lexer's scanning, the text of keys, of reports, of JSON and of generated graphs, the text
  formats of `Graph.cpp`, Mermaid output. Tokens of requests are strings with their readings.
* Evaluation of node rules (`NodeRule`, `Expression` and their parsers): stateless, their value is a
  parameter in `RequestReader` and an equality in `NodeLibrary`.
* Importers: they translate files of other tools; the seed of the random generator: every draw is a choice.
* The legacy strict modes and relative positions, which no pattern produces; the permutation iterators,
  which the matcher no longer uses; build files.
* A power loss: `write_report` does not flush the file to the disk before the rename, and what is
  there afterwards depends on the file system. A file that is closed is whole in the model.
* Two patterns compiled at the same time: the registry of identities (`Transition.cpp:205`) has no lock, and
  the documentation excludes it.

Abstractions inside the modelled parts: the order of nodes in a graph, more than one info key
(`GraphStore`); `--seed` and `--format` (`GenerateCommand`); symbolic links that change during a run, and a temporary file that
cannot be removed (`ReportWriter`: `CleanUp` never fails, so `TemporariesAreRemoved` is about runs whose `unlink` works);
values of other Python types and keys that are no strings, which `encode_value` refuses (`RequestWriter`); operations with punctuation in `NodeLibrary` (they are in `RequestWriter`); a few fields
stand for all fields of a document.

Planned, in this order:

1. Theorems: what a transition of a quantifier can tell of two walks whose passes are in another order, for
   quantifiers that are not nested, to extend `EveryRunIsFound` to them.
2. `PatternGenerator` and `PatternRules` with recursive functions, to prove that connected inputs are
   numbered without gaps for every pattern.
3. The composition of `ReportWriter` with `RequestReader`: an engine that is killed while it reads.
