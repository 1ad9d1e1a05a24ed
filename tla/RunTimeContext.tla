---------------------------- MODULE RunTimeContext ----------------------------
(***************************************************************************)
(* A walk of the search (include/TransitionGraph/RunTimeContext.hpp): where *)
(* it stands in the automaton and in the graph, and everything it has       *)
(* captured on its way.  The operations of the class are operators from     *)
(* walks to walks.  What the code throws is remembered in `threw`.          *)
(*                                                                          *)
(* mValidNodes is not a field: setValid() is the only writer of it and of   *)
(* mCaptures, so its (tag, node) pairs are the captures without order.      *)
(* Positions in the vector of invocations count from 1; 0 is "no parent".   *)
(***************************************************************************)
EXTENDS Integers, Sequences, FiniteSets, SequencesExt

NoNode == -1   \* std::nullopt: the walk has left the graph

Start(state, node) ==
  [state |-> state, node |-> node,
   commons |-> {},         \* [node, id]: the identity each common node holds
   rejected |-> {},        \* neighbours that the match must cover
   captures |-> <<>>,      \* [node, predicate], in walk order
   quantifiers |-> <<>>,   \* invocations, in walk order
   active |-> <<>>,        \* the stack of open invocations
   scopes |-> <<>>,        \* the stack of open numbered arrows
   threw |-> FALSE]

Walks ==
  [state : Nat, node : Nat \cup {NoNode},
   commons : SUBSET [node : Nat, id : Nat], rejected : SUBSET Nat,
   captures : Seq([node : Nat, predicate : STRING]),
   quantifiers : Seq([index : Nat, symbol : {"+", "*", "?"}, parent : Nat, pass : Nat,
                      begin : Nat, end : Nat, ends : Seq(Nat)]),
   active : Seq([at : Nat \ {0}, size : Nat]),
   scopes : Seq(Nat), threw : BOOLEAN]

-----------------------------------------------------------------------------
(* Captures and anchors.                                                    *)
ValidNodes(w)   == {c.node : c \in ToSet(w.captures)}
CommonNodes(w)  == {m.node : m \in w.commons}
PlainNodes(w)   == ValidNodes(w) \ CommonNodes(w)

CommonNodeFromIdx(w, id) ==
  LET holders == {m.node : m \in {m \in w.commons : m.id = id}}
  IN  IF holders = {} THEN NoNode ELSE Min(holders)

SetCommon(w, node, id) ==
  IF node \in CommonNodes(w)
  THEN [w EXCEPT !.threw = @ \/ [node |-> node, id |-> id] \notin w.commons]
  ELSE [w EXCEPT !.commons = @ \cup {[node |-> node, id |-> id]}]

CapturedTwice(w, node, predicate) ==
  /\ \E c \in ToSet(w.captures) : c.predicate = predicate
  /\ node \in PlainNodes(w)

SetValid(w, node, predicate) ==
  [w EXCEPT !.captures = Append(@, [node |-> node, predicate |-> predicate]),
            !.threw = @ \/ CapturedTwice(w, node, predicate)]

Reject(w, nodes) == [w EXCEPT !.rejected = @ \cup nodes]

-----------------------------------------------------------------------------
(* Quantifier invocations.  `ends` holds the capture count at the end of    *)
(* each completed pass, `pass` the pass of the parent that invoked it, and  *)
(* `size` in the stack the nodes covered when the last pass was completed.  *)
Count(q) == Len(q.ends)

BeginQuantifier(w, index, symbol) ==
  LET parent == IF w.active = <<>> THEN 0 ELSE Last(w.active).at
      here   == Len(w.captures)
  IN  [w EXCEPT
        !.quantifiers = Append(@, [index |-> index, symbol |-> symbol, parent |-> parent,
                                   pass |-> IF parent = 0 THEN 0 ELSE Count(w.quantifiers[parent]),
                                   begin |-> here, end |-> here, ends |-> <<>>]),
        !.active = Append(@, [at |-> Len(w.quantifiers) + 1, size |-> Cardinality(ValidNodes(w))])]

(* The innermost open invocation is one of quantifier `index`. *)
Balanced(w, index) ==
  w.active # <<>> /\ w.quantifiers[Last(w.active).at].index = index

(* Another pass must cover a node that the previous ones have not. *)
PassIsNew(w) ==
  \/ w.quantifiers[Last(w.active).at].ends = <<>>
  \/ Cardinality(ValidNodes(w)) # Last(w.active).size

CompletePass(w) ==
  LET top == Last(w.active)
  IN  [w EXCEPT !.quantifiers[top.at].ends = Append(@, Len(w.captures)),
                !.active[Len(w.active)].size = Cardinality(ValidNodes(w))]

EndQuantifier(w) ==
  [w EXCEPT !.quantifiers[Last(w.active).at].end = Len(w.captures),
            !.active = Front(@)]

Broken(w) == [w EXCEPT !.threw = TRUE]

-----------------------------------------------------------------------------
(* Numbered arrows: a scope remembers how much had been captured when the   *)
(* arrow was entered, then when its port was checked.                       *)
BeginPortScope(w) == [w EXCEPT !.scopes = Append(@, Len(w.captures))]

CapturedInScope(w) == w.scopes # <<>> /\ Len(w.captures) > Last(w.scopes)

CheckedPort(w) == [w EXCEPT !.scopes[Len(w.scopes)] = Len(w.captures)]

EndPortScope(w) == [w EXCEPT !.scopes = Front(@)]

-----------------------------------------------------------------------------
(***************************************************************************)
(* key(): what identifies a walk.  The code prints it as text; here it is   *)
(* the structure the text spells out.  Two captured nodes are told apart    *)
(* from their predicates, which the text only juxtaposes.                   *)
(***************************************************************************)
Item(c) == <<c.node, c.predicate>>
Items(w, from, to) == [k \in 1 .. to - from |-> Item(w.captures[from + k])]

OpenAt(w, i) == \E k \in DOMAIN w.active : w.active[k].at = i
OpenSize(w, i) == IF OpenAt(w, i) THEN (CHOOSE a \in ToSet(w.active) : a.at = i).size ELSE -1
EndOf(w, i) == IF OpenAt(w, i) THEN Len(w.captures) ELSE w.quantifiers[i].end

(* The captures from `from` to `to` with the invocations of one pass of     *)
(* `parent` in their places; `invocation` gives the text of each of them.   *)
PassTrace(w, texts, parent, pass, from, to) ==
  LET calls == SelectSeq([i \in DOMAIN w.quantifiers |-> i],
                 LAMBDA i : w.quantifiers[i].parent = parent /\ w.quantifiers[i].pass = pass)
      starts(k) == Min({w.quantifiers[calls[k]].begin, to})
      after(k)  == Max({from} \cup {starts(j) : j \in 1 .. k} \cup {EndOf(w, calls[j]) : j \in 1 .. k})
      called(k) == Items(w, after(k - 1), Max({after(k - 1), starts(k)})) \o << texts[calls[k]] >>
  IN  FlattenSeq([k \in DOMAIN calls |-> called(k)])
        \o Items(w, after(Len(calls)), Max({after(Len(calls)), to}))

(* The trace as a tree.  The completed passes of an invocation form a bag:  *)
(* their order is the one thing a key forgets.                              *)
TraceTree(w) ==
  LET Invocation[i \in DOMAIN w.quantifiers] ==
        LET q == w.quantifiers[i]
            from(pass) == IF pass = 0 THEN q.begin ELSE q.ends[pass]
            trace(pass, to) == PassTrace(w, Invocation, i, pass, from(pass), to)
        IN  << q.index, q.symbol, Count(q), OpenSize(w, i),
               ToBag([p \in 1 .. Count(q) |-> trace(p - 1, q.ends[p])]),
               trace(Count(q), EndOf(w, i)) >>
  IN  IF w.quantifiers = <<>> THEN <<>>
      ELSE PassTrace(w, Invocation, 0, 0, 0, Len(w.captures))

Contents(w) ==
  [commons |-> w.commons,
   rejected |-> w.rejected,
   valid |-> ToSet(w.captures),
   scopes |-> w.scopes,
   exact |-> IF w.scopes = <<>> THEN <<>> ELSE Items(w, 0, Len(w.captures)),
   trace |-> TraceTree(w)]

\* Mutant of Key: walks that stand on different nodes are confused.
KeyWithoutNode(w) == <<w.state, Contents(w)>>
Key(w)               == <<w.state, w.node, Contents(w)>>
ResultKey(origin, w) == <<origin, Contents(w)>>

-----------------------------------------------------------------------------
(* Walks agree on anchors: an identity binds one node and a node holds one  *)
(* identity.  A plain capture is its own node: no other walk captures it.   *)
AreCompatible(v, w) ==
  /\ \A m \in v.commons, n \in w.commons : m.id = n.id <=> m.node = n.node
  /\ PlainNodes(v) \cap ValidNodes(w) = {}
  /\ PlainNodes(w) \cap ValidNodes(v) = {}

-----------------------------------------------------------------------------
(* What a walk may never become.                                            *)

(* Only common nodes are captured again. *)
PlainOnce(w) ==
  \A i, j \in DOMAIN w.captures :
    i # j /\ w.captures[i].node = w.captures[j].node => w.captures[i].node \in CommonNodes(w)

(* An identity has one node, a node one identity, and it is captured. *)
AnchorsAgree(w) ==
  /\ \A m, n \in w.commons : m.id = n.id <=> m.node = n.node
  /\ CommonNodes(w) \subseteq ValidNodes(w)

(* The walk does not stand on a node that it may not capture again. *)
StandsFree(w) == w.node \notin PlainNodes(w)
=============================================================================
