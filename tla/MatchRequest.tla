------------------------------ MODULE MatchRequest ------------------------------
(***************************************************************************)
(* matchRequest (src/Cli/MatchRequest.cpp) once the request has been read   *)
(* and its pattern compiled: the starting tuples are counted against the    *)
(* budget, every tuple is decoded from its number and searched, and its     *)
(* matches are written in tuple order.                                      *)
(*                                                                          *)
(* Searches share nothing but the machine and the graph, and SearchExecutor *)
(* shows that results are consumed in tuple order whatever the number of    *)
(* jobs: here tuples are searched one after the other.  A search begins in  *)
(* SearchTuple, so that Init of WalkSearch, and Problems, play no part.     *)
(*                                                                          *)
(* A request is a record [graph, machine, budget] (see WalkSearch).         *)
(***************************************************************************)
EXTENDS MatchCombination, StartPlan

CONSTANT Requests

IsRequest(r) ==
  /\ r.graph.nodes \subseteq Nat /\ IsFiniteSet(r.graph.nodes)
  /\ \A e \in r.machine.edges : e.from \in Nat /\ e.to \in Nat /\ e.label \in Labels
  /\ r.machine.starts \in Seq(States(r.machine)) /\ HasOrigins(r.machine)
  /\ r.budget \in Nat \ {0}

ASSUME RequestsAssumption == \A r \in Requests : IsRequest(r)

VARIABLES
  request,       \* the arguments
  stage,         \* where the call is
  candidates,    \* the nodes to try for each group of starts
  counted,       \* the groups counted so far
  combinations,  \* the tuples they allow
  number,        \* the tuple that is searched, or is next
  rest, chosen,  \* what is left of its number, the nodes decoded from it
  searched,      \* history: the tuples whose search has begun
  answer         \* the matches written, each with its starts and walks

planning   == <<candidates, counted, combinations>>
decoding   == <<rest, chosen>>
writing    == <<number, searched, answer>>
requestVars == <<allVars, request, stage, planning, decoding, writing>>

-----------------------------------------------------------------------------
RequestInit ==
  /\ request \in Requests
  /\ candidates = StartCandidates(request.graph, request.machine)
  /\ problem = [graph |-> request.graph, machine |-> request.machine, tuple |-> <<>>]
  /\ order \in Orders(request.machine)
  /\ begun = 0 /\ queue = <<>> /\ walk = Nowhere /\ tests = <<>>
  /\ moved = Nowhere /\ arrivals = {}
  /\ seen = {} /\ results = {} /\ finished = <<>> /\ aborted = FALSE
  /\ precedence = <<>> /\ cursors = <<>> /\ matches = <<>>
  /\ stage = "counting" /\ counted = 0 /\ combinations = 1
  /\ rest = 0 /\ chosen = <<>>
  /\ number = 0 /\ searched = <<>> /\ answer = <<>>

(* The tuples are counted group by group; a group without candidates ends   *)
(* the counting, and more tuples than the budget allows are an error.       *)
Counting == stage = "counting" /\ counted < Len(candidates)
Options  == Len(candidates[counted + 1])

NoCandidate ==
  /\ Counting /\ Options = 0
  /\ combinations' = 0
  /\ stage' = "next"
  /\ UNCHANGED <<allVars, request, candidates, counted, decoding, writing>>

\* Mutant of TooMany: the product is compared before it is extended.
TooManyLate == combinations > request.budget

TooMany == combinations > request.budget \div Options

RefuseRequest ==
  /\ Counting /\ Options # 0 /\ TooMany
  /\ stage' = "refused"
  /\ UNCHANGED <<allVars, request, planning, decoding, writing>>

CountGroup ==
  /\ Counting /\ Options # 0 /\ ~ TooMany
  /\ combinations' = combinations * Options
  /\ counted' = counted + 1
  /\ UNCHANGED <<allVars, request, stage, candidates, decoding, writing>>

CountingEnds ==
  /\ stage = "counting" /\ counted = Len(candidates)
  /\ stage' = "next"
  /\ UNCHANGED <<allVars, request, planning, decoding, writing>>

(* evaluate(number): the number is decoded in mixed radix, the first group  *)
(* varying first, and every start gets the node of its group.               *)
NextTuple ==
  /\ stage = "next" /\ number < combinations
  /\ rest' = number /\ chosen' = <<>>
  /\ stage' = "decoding"
  /\ UNCHANGED <<allVars, request, planning, writing>>

Digit == Len(chosen) + 1

\* Mutant of ChooseNode: the number is not divided.
ChooseNodeUndivided ==
  /\ stage = "decoding" /\ Len(chosen) < Len(candidates)
  /\ chosen' = Append(chosen, candidates[Digit][1 + (rest % Len(candidates[Digit]))])
  /\ UNCHANGED <<allVars, request, stage, planning, rest, writing>>

ChooseNode ==
  /\ stage = "decoding" /\ Len(chosen) < Len(candidates)
  /\ chosen' = Append(chosen, candidates[Digit][1 + (rest % Len(candidates[Digit]))])
  /\ rest' = rest \div Len(candidates[Digit])
  /\ UNCHANGED <<allVars, request, stage, planning, writing>>

Tuple == [i \in DOMAIN request.machine.starts |-> chosen[StartGroups(request.machine)[i]]]

(* The search of a tuple starts afresh, whatever has been searched before.  *)
SearchTuple ==
  /\ stage = "decoding" /\ Len(chosen) = Len(candidates)
  /\ problem' = [problem EXCEPT !.tuple = Tuple]
  /\ begun' = 0 /\ queue' = <<>> /\ walk' = Nowhere /\ tests' = <<>>
  /\ moved' = Nowhere /\ arrivals' = {}
  /\ seen' = {} /\ results' = {} /\ finished' = <<>> /\ aborted' = FALSE
  /\ precedence' = <<>> /\ cursors' = <<1>> /\ matches' = <<>>
  /\ stage' = "searching" /\ searched' = Append(searched, Tuple)
  /\ UNCHANGED <<order, request, planning, decoding, number, answer>>

Search ==
  /\ stage = "searching"
  /\ CombinationNext
  /\ UNCHANGED <<request, stage, planning, decoding, writing>>

(* consume(fragment): the matches of the tuple are written.                 *)
Written(match) == [starts |-> problem.tuple, walks |-> {finished[i] : i \in ToSet(match)}]

Write ==
  /\ stage = "searching" /\ Combined
  /\ answer' = answer \o [m \in DOMAIN matches |-> Written(matches[m])]
  /\ number' = number + 1
  /\ stage' = "next"
  /\ UNCHANGED <<allVars, request, planning, decoding, searched>>

Finish ==
  /\ stage = "next" /\ number = combinations
  /\ stage' = "answered"
  /\ UNCHANGED <<allVars, request, planning, decoding, writing>>

RequestNext ==
  \/ NoCandidate \/ RefuseRequest \/ CountGroup \/ CountingEnds
  \/ NextTuple \/ ChooseNode \/ SearchTuple \/ Search \/ Write \/ Finish

RequestSpec == RequestInit /\ [][RequestNext]_requestVars /\ WF_requestVars(RequestNext)

-----------------------------------------------------------------------------
StartNodes == Nodes \cup {NoNode}

(* Every number is decoded to nodes of the graph, and every search is given *)
(* a problem it is meant for.                                               *)
RequestTypeOK ==
  /\ stage \in {"counting", "next", "decoding", "searching", "answered", "refused"}
  /\ counted \in 0 .. Len(candidates) /\ combinations \in Nat
  /\ number \in 0 .. combinations
  /\ rest \in Nat /\ chosen \in Seq(StartNodes)
  /\ searched \in Seq(Seq(StartNodes))
  /\ stage = "searching" => IsProblem(problem) /\ CombinationTypeOK

(* The tuples a request has to try: a node for each start that accepts it,  *)
(* the same for starts with the same root, and none in an empty graph.      *)
TuplesToTry ==
  LET starts   == DOMAIN request.machine.starts
      accepted == [i \in starts |-> IF Nodes = {} THEN {NoNode}
                                    ELSE Accepts(request.graph, request.machine, request.machine.starts[i])]
  IN  {t \in [starts -> StartNodes] :
         \A i \in starts : t[i] \in accepted[i] /\ \A j \in starts : Tied(request.machine, i, j) => t[i] = t[j]}

(* Combination numbers are decoded to every tuple once, and never to one     *)
(* that gives tied starts different nodes.                                   *)
TuplesOnce ==
  stage = "answered" => IsInjective(searched) /\ ToSet(searched) = TuplesToTry

(* "Exceeding a budget is an error, not a silently truncated report"         *)
(* (doc/cli.md): no call searches more tuples than its budget, and a call is *)
(* refused only when the candidates of the groups counted so far, the last   *)
(* of them included, combine to more than its budget.  A later group may have *)
(* no candidate: such a request has no tuple and is refused all the same     *)
(* (RefusedBeyondBudget, which fails).                                       *)
WithinBudget ==
  /\ Len(searched) <= request.budget
  /\ stage = "refused" =>
       LET groups == 1 .. counted + 1
       IN  Cardinality({t \in [groups -> StartNodes] : \A k \in groups : t[k] \in ToSet(candidates[k])}) > request.budget

(* What the answer reports is consistent: the walks of a match cover every   *)
(* path, agree two by two on anchors and plain nodes, and cover together     *)
(* what the strict anchors of each of them demand, whichever tuples were     *)
(* searched before.                                                          *)
AnswerAgrees ==
  \A entry \in ToSet(answer) :
    /\ \A v, w \in entry.walks : v # w => AreCompatible(v, w)
    /\ UNION {Origin(w) : w \in entry.walks} = request.machine.origins
    /\ UNION {w.rejected : w \in entry.walks} \subseteq UNION {ValidNodes(w) : w \in entry.walks}

(* "--max-starts: Maximum number of starting tuples" (doc/cli.md): only a    *)
(* request that has more starting tuples than that is refused.               *)
RefusedBeyondBudget ==
  stage = "refused" => FoldFunction(LAMBDA options, product : product * Len(options), 1, candidates) > request.budget

(* The request is answered or refused: no search goes on forever or leaves   *)
(* the call with an exception.                                               *)
RequestEnds == <>(stage \in {"answered", "refused"})
=============================================================================
