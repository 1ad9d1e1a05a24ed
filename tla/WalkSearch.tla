------------------------------ MODULE WalkSearch ------------------------------
(***************************************************************************)
(* TGCompiled::test (src/TransitionGraph/TransitionGraph.cpp): from one     *)
(* starting tuple, every walk of the automaton over the graph, breadth      *)
(* first and each of them once.  A walk whose key was already seen is       *)
(* dropped; a finished walk is kept when its result is new.                 *)
(*                                                                          *)
(* A problem is a record                                                    *)
(*   graph    the graph view and its predicates (see Transition)            *)
(*   machine  edges    transitions [from, to, label]                        *)
(*            starts   start states, in creation order                      *)
(*            valid    accepting states                                     *)
(*            origin   state -> the paths of the pattern it belongs to      *)
(*            origins  all paths of the pattern                             *)
(*   tuple    the start nodes, one for each start state, or none.           *)
(* The outgoing transitions of a state are kept by address: `order` is any  *)
(* order of them, the same for the whole search.  The vectors `walks` and   *)
(* `nextWalks` of the code are one queue, and what State::test returns is   *)
(* filed as it is produced: nothing reads the keys in between.              *)
(***************************************************************************)
EXTENDS Transition

CONSTANT Problems

States(machine) == {e.from : e \in machine.edges} \cup {e.to : e \in machine.edges}
Outgoing(machine, state) == {e \in machine.edges : e.from = state}

(* Every state belongs to some path: it is created in path 0, and states     *)
(* are merged and shifted with the set of all paths.                         *)
HasOrigins(machine) ==
  /\ machine.origins \subseteq Nat /\ IsFiniteSet(machine.origins) /\ machine.origins # {}
  /\ \A s \in States(machine) : machine.origin[s] \subseteq machine.origins /\ machine.origin[s] # {}

IsProblem(p) ==
  /\ p.graph.nodes \subseteq Nat
  /\ \A e \in p.machine.edges : e.from \in Nat /\ e.to \in Nat /\ e.label \in Labels
  /\ p.machine.starts \in Seq(States(p.machine)) /\ HasOrigins(p.machine)
  /\ p.tuple \in Seq(p.graph.nodes \cup {NoNode}) /\ Len(p.tuple) = Len(p.machine.starts)

ASSUME ProblemsAssumption == \A p \in Problems : IsProblem(p)

VARIABLES
  problem, order,  \* the arguments of the call
  begun,           \* start walks created so far
  queue,           \* walks to visit
  walk, tests,     \* the walk being visited, its transitions still to test
  moved, arrivals, \* the walk after a transition, the nodes where it goes on
  seen, results,   \* keys of the walks queued, and of the walks finished
  finished,        \* allValidContext
  aborted          \* an exception has left the search

arguments == <<problem, order>>
vars == <<arguments, begun, queue, walk, tests, moved, arrivals, seen, results, finished, aborted>>

(* Every way to list the transitions of each state, built state by state.   *)
Listings(machine) ==
  LET extend(s, orders) == {o @@ (s :> out) : o \in orders, out \in SetToSeqs(Outgoing(machine, s))}
  IN  FoldSet(extend, {<<>>}, States(machine))
Orders(machine) ==
  {o \in Listings(machine) : \A s \in States(machine) :
     o[s] \in Seq(Outgoing(machine, s)) /\ ToSet(o[s]) = Outgoing(machine, s)}

Origin(w) == problem.machine.origin[w.state]

-----------------------------------------------------------------------------
Nowhere == Start(0, NoNode)

Init ==
  /\ problem \in Problems
  /\ order \in Orders(problem.machine)
  /\ begun = 0 /\ queue = <<>>
  /\ walk = Nowhere /\ tests = <<>>
  /\ moved = Nowhere /\ arrivals = {}
  /\ seen = {} /\ results = {} /\ finished = <<>>
  /\ aborted = FALSE

(* A walk is queued when its key is new. *)
File(w) ==
  \E key \in {Key(w)} :
    /\ seen' = seen \cup {key}
    /\ queue' = IF key \in seen THEN queue ELSE Append(queue, w)

Begin ==
  /\ begun < Len(problem.tuple)
  /\ begun' = begun + 1
  /\ File(Start(problem.machine.starts[begun + 1], problem.tuple[begun + 1]))
  /\ UNCHANGED <<arguments, walk, tests, moved, arrivals, results, finished, aborted>>

Idle == begun = Len(problem.tuple) /\ tests = <<>> /\ arrivals = {}

IsSolution(w) ==
  w.state \in problem.machine.valid /\ ResultKey(Origin(w), w) \notin results

\* Mutant of Visit: the walks of this round are not cleared.
VisitAgain ==
  /\ Idle /\ queue # <<>> /\ ~ aborted
  /\ walk' = Head(queue)
  /\ tests' = order[walk'.state]
  /\ IF IsSolution(walk')
     THEN /\ results' = results \cup {ResultKey(Origin(walk'), walk')}
          /\ finished' = Append(finished, walk')
     ELSE UNCHANGED <<results, finished>>
  /\ UNCHANGED <<arguments, begun, queue, moved, arrivals, seen, aborted>>

(* The next walk is a solution when it stands on a valid state, and goes on. *)
Visit ==
  /\ Idle /\ queue # <<>> /\ ~ aborted
  /\ queue' = Tail(queue)
  /\ LET w == Head(queue)
     IN  /\ walk' = w
         /\ tests' = order[w.state]
         /\ IF IsSolution(w)
            THEN /\ results' = results \cup {ResultKey(Origin(w), w)}
                 /\ finished' = Append(finished, w)
            ELSE UNCHANGED <<results, finished>>
  /\ UNCHANGED <<arguments, begun, moved, arrivals, seen, aborted>>

(* One transition is tested on a copy of the walk. *)
Cross ==
  /\ tests # <<>> /\ arrivals = {} /\ ~ aborted
  /\ tests' = Tail(tests)
  /\ LET edge   == Head(tests)
         result == Test(problem.graph, walk, edge.label)
     IN  /\ moved' = [result.walk EXCEPT !.state = edge.to]
         /\ arrivals' = CASE ~ result.success -> {}
                          [] result.success /\ result.nodes = {} -> {NoNode}
                          [] OTHER -> result.nodes
         /\ aborted' = result.walk.threw
  /\ UNCHANGED <<arguments, begun, queue, walk, seen, results, finished>>

(* It goes on from each of the nodes it reached, the lowest first. *)
Arrive ==
  /\ arrivals # {} /\ ~ aborted
  /\ LET node == Min(arrivals)
     IN  /\ arrivals' = arrivals \ {node}
         /\ \E w \in {Moved(moved, node)} : File(w)
  /\ UNCHANGED <<arguments, begun, walk, tests, moved, results, finished, aborted>>

Exhausted == Idle /\ queue = <<>>

Next == Begin \/ Visit \/ Cross \/ Arrive

Spec == Init /\ [][Next]_vars /\ WF_vars(Next)

-----------------------------------------------------------------------------
Nodes == problem.graph.nodes
AllWalks == ToSet(queue) \cup ToSet(finished) \cup {walk}

(* Walks are of their type, stay in the graph and have states of the automaton. *)
TypeOK ==
  /\ begun \in 0 .. Len(problem.tuple)
  /\ \A w \in AllWalks \cup {moved} :
       /\ w \in Walks
       /\ w # Nowhere => w.state \in States(problem.machine)
       /\ ValidNodes(w) \cup w.rejected \cup {w.node} \subseteq Nodes \cup {NoNode}
       /\ \A a \in ToSet(w.active) : a.at \in DOMAIN w.quantifiers
  /\ ToSet(tests) \subseteq problem.machine.edges
  /\ arrivals \subseteq Nodes \cup {NoNode}
  /\ aborted \in BOOLEAN

(* Nothing throws: neither the capture of a captured plain node, nor an     *)
(* anchor that is bound twice, nor a quantifier that ends without having    *)
(* begun ("Unbalanced quantifier trace").                                   *)
NeverThrows == ~ aborted

(* Walks capture consistently: a plain node once, one node for each common  *)
(* identity, and they never wait on a node they may not capture.            *)
WalksConsistent == \A w \in AllWalks : PlainOnce(w) /\ AnchorsAgree(w) /\ StandsFree(w)
=============================================================================
