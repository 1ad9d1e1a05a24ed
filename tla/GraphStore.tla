------------------------------- MODULE GraphStore -------------------------------
(***************************************************************************)
(* NodeNN and GraphNN (BasicGraphIr): nodes on the heap with their parents,  *)
(* children and the bindings of their connections, and graphs that hold      *)
(* them.  Both directions of an edge are kept by hand, so are the bindings.  *)
(***************************************************************************)
EXTENDS Naturals, FiniteSets

CONSTANTS Nodes,        \* the nodes that can be made, by address
          Graphs,
          Ports, Plain, \* bindings: the ports of a connection, Plain without any
          Infos, NoInfo,\* values of a key of the node dictionaries, NoInfo when it is missing
          MayKeep,      \* whether deepCopy is called with nodes not to copy
          MaxChanges    \* bound: calls of addEdge and setInfo

ASSUME PlainAssumption == Plain \in Ports /\ NoInfo \in Infos
ASSUME BoundAssumption == MaxChanges \in Nat /\ MayKeep \in BOOLEAN

VARIABLES members,      \* [graph -> its nodes] (nodes_ and nodeSet_)
          parents,
          children,
          connections,  \* [node, child -> bindings], empty when there is no entry
          info,
          created,      \* the nodes made so far
          changes       \* such calls so far

vars == <<members, parents, children, connections, info, created, changes>>

Fresh == Nodes \ created
Bindings(from, to) ==   \* getConnectionPorts
  IF to \notin children[from] THEN {}
  ELSE IF connections[<<from, to>>] = {} THEN {Plain} ELSE connections[<<from, to>>]

Init ==
  /\ members = [g \in Graphs |-> {}]
  /\ parents = [n \in Nodes |-> {}] /\ children = [n \in Nodes |-> {}]
  /\ connections = [e \in Nodes \X Nodes |-> {}]
  /\ info = [n \in Nodes |-> NoInfo]
  /\ created = {} /\ changes = 0

(* addNode of a new node. *)
AddNode(g) ==
  /\ \E n \in Fresh : members' = [members EXCEPT ![g] = @ \cup {n}] /\ created' = created \cup {n}
  /\ UNCHANGED <<parents, children, connections, info, changes>>

(* addEdge between nodes of the graph or new ones, which it adds.            *)
AddEdge(g) ==
  /\ changes < MaxChanges /\ changes' = changes + 1
  /\ \E from, to \in members[g] \cup Fresh, ports \in Ports :
       /\ members' = [members EXCEPT ![g] = @ \cup {from, to}]
       /\ created' = created \cup {from, to}
       /\ children' = [children EXCEPT ![from] = @ \cup {to}]
       /\ connections' = [connections EXCEPT ![<<from, to>>] = @ \cup {ports}]
       /\ parents' = [parents EXCEPT ![to] = @ \cup {from}]
  /\ UNCHANGED info

(* setInfo of a node of the graph. *)
SetInfo(g) ==
  /\ changes < MaxChanges /\ changes' = changes + 1
  /\ \E n \in members[g], i \in Infos : info' = [info EXCEPT ![n] = i]
  /\ UNCHANGED <<members, parents, children, connections, created>>

-----------------------------------------------------------------------------
(* mergeNodes.  The bindings of the merged nodes are collected first, then    *)
(* every edge of theirs is removed, and the bindings are added again.         *)
Replace(n, merged, m) == IF n \in merged THEN m ELSE n

Outer(neighbors, merged) == (UNION {neighbors[n] : n \in merged}) \ merged

\* Mutant of Numbered: the bindings among the merged nodes are all dropped.
NumberedMutant(merged, m) ==
  {<<Replace(e[1], merged, m), Replace(e[2], merged, m), e[3]>> :
     e \in {e \in (merged \cup UNION {parents[n] : n \in merged}) \X Nodes \X Ports :
              /\ (e[1] \in merged) # (e[2] \in merged)
              /\ e[3] \in Bindings(e[1], e[2])}}

Numbered(merged, m) ==
  {<<Replace(e[1], merged, m), Replace(e[2], merged, m), e[3]>> :
     e \in {e \in (merged \cup UNION {parents[n] : n \in merged}) \X Nodes \X Ports :
              /\ e[1] \in merged \/ e[2] \in merged
              /\ e[3] \in Bindings(e[1], e[2])
              /\ e[3] = Plain => e[1] \notin merged \/ e[2] \notin merged}}

\* Mutant of Unlinked: an outer neighbour keeps the merged nodes.
UnlinkedMutant(neighbors, n, merged, outer, others) ==
  IF n \in merged THEN neighbors[n] \ (outer \cup merged) ELSE neighbors[n]

(* What is left of the neighbours of a node when the edges are removed;      *)
(* outer are the neighbours of merged nodes in this direction, others those  *)
(* in the other one.                                                         *)
Unlinked(neighbors, n, merged, outer, others) ==
  CASE n \in merged -> neighbors[n] \ (outer \cup merged)
    [] n \in others \ merged -> neighbors[n] \ merged
    [] OTHER -> neighbors[n]

\* Mutant of Erased: bindings inside the merged nodes outlive their edges.
ErasedMutant(merged, allParents, allChildren, from, to) ==
  (from \in allParents /\ to \in merged) \/ (from \in merged /\ to \in allChildren)

(* The connections that removeChild erases. *)
Erased(merged, allParents, allChildren, from, to) ==
  \/ from \in allParents /\ to \in merged
  \/ from \in merged /\ to \in allChildren
  \/ from \in merged /\ to \in merged \cap children[from]

(* mergeInfoFrom in the order of the addresses: the last value stays.        *)
MergedInfos(merged) ==
  IF \A n \in merged : info[n] = NoInfo THEN {NoInfo} ELSE {info[n] : n \in merged} \ {NoInfo}

Merge(g, merged) ==
  /\ \E m \in Fresh :
       LET numbered    == Numbered(merged, m)
           allParents  == Outer(parents, merged)
           allChildren == Outer(children, merged)
       IN  /\ parents' = [n \in Nodes |->
                 (IF n = m THEN allParents ELSE Unlinked(parents, n, merged, allParents, allChildren))
                   \cup (IF n \in allChildren THEN {m} ELSE {}) \cup {a \in Nodes : \E p \in Ports : <<a, n, p>> \in numbered}]
           /\ children' = [n \in Nodes |->
                 (IF n = m THEN allChildren ELSE Unlinked(children, n, merged, allChildren, allParents))
                   \cup (IF n \in allParents THEN {m} ELSE {}) \cup {b \in Nodes : \E p \in Ports : <<n, b, p>> \in numbered}]
           /\ connections' = [e \in Nodes \X Nodes |->
                 (IF Erased(merged, allParents, allChildren, e[1], e[2]) THEN {} ELSE connections[e])
                   \cup {p \in Ports : <<e[1], e[2], p>> \in numbered}]
           /\ members' = [members EXCEPT ![g] =
                 (@ \ merged) \cup {m} \cup UNION {{o[1], o[2]} : o \in numbered}]
           /\ \E i \in MergedInfos(merged) : info' = [info EXCEPT ![m] = i]
           /\ created' = created \cup {m}
  /\ UNCHANGED changes

MergeNodes(g) == \E merged \in (SUBSET members[g]) \ {{}} : Merge(g, merged)

-----------------------------------------------------------------------------
(* deepCopy.  _copyNode goes from a node to its neighbours, whether they are *)
(* in the graph or not, up to the nodes that are kept.                       *)
Reached(g, keep) ==
  LET closed(S) == /\ members[g] \ keep \subseteq S
                   /\ \A n \in S : (parents[n] \cup children[n]) \ keep \subseteq S
  IN  {n \in created : \A S \in SUBSET created : closed(S) => n \in S}

Injections(S, T) == {f \in [S -> T] : \A a, b \in S : f[a] = f[b] => a = b}

(* The neighbours of a copy are the images of those of its original. *)
Copied(neighbors, copy, image, n) ==
  IF \E a \in DOMAIN copy : copy[a] = n
  THEN LET a == CHOOSE a \in DOMAIN copy : copy[a] = n IN {image[b] : b \in neighbors[a]} ELSE neighbors[n]

\* Mutant of CopyInto: the copy holds the nodes of the original.
CopyIntoMutant(g, h, copy) ==
  members' = [members EXCEPT ![h] = members[g]] /\ UNCHANGED <<parents, children, connections, info, created>>

CopyInto(g, h, copy) ==
  LET image      == [n \in created |-> IF n \in DOMAIN copy THEN copy[n] ELSE n]
      origins(n) == {a \in DOMAIN copy : copy[a] = n}
  IN  /\ members' = [members EXCEPT ![h] = {image[n] : n \in members[g]}]
      /\ parents' = [n \in Nodes |-> Copied(parents, copy, image, n)]
      /\ children' = [n \in Nodes |-> Copied(children, copy, image, n)]
      /\ connections' = [e \in Nodes \X Nodes |->
            IF origins(e[1]) = {} THEN connections[e]
            ELSE UNION {Bindings(a, b) : a \in origins(e[1]), b \in {b \in created : image[b] = e[2]}}]
      /\ info' = [n \in Nodes |-> IF origins(n) = {} THEN info[n]
                                  ELSE info[CHOOSE a \in DOMAIN copy : copy[a] = n]]
      /\ created' = created \cup {copy[n] : n \in DOMAIN copy}

DeepCopy(g, h, keep) ==
  /\ members[h] = {}
  /\ \E copy \in Injections(Reached(g, keep), Fresh) : CopyInto(g, h, copy)
  /\ UNCHANGED changes

Next ==
  \E g \in Graphs :
    \/ AddNode(g)
    \/ AddEdge(g)
    \/ SetInfo(g)
    \/ MergeNodes(g)
    \/ \E h \in Graphs, keep \in IF MayKeep THEN SUBSET members[g] ELSE {{}} : DeepCopy(g, h, keep)

Spec == Init /\ [][Next]_vars

-----------------------------------------------------------------------------
TypeOK ==
  /\ members \in [Graphs -> SUBSET created] /\ created \subseteq Nodes
  /\ parents \in [Nodes -> SUBSET created] /\ children \in [Nodes -> SUBSET created]
  /\ connections \in [Nodes \X Nodes -> SUBSET Ports]
  /\ info \in [Nodes -> Infos] /\ changes \in 0 .. MaxChanges

(* "Implementations must return unique, reciprocal neighbors"               *)
(* (GraphView.hpp): BasicGraphAdapter answers from parents and children.      *)
Reciprocal == \A a, b \in Nodes : b \in children[a] <=> a \in parents[b]

(* The bindings of a connection are there as long as the edge is, so that    *)
(* none is left for a later edge of the same two nodes.                      *)
BindingsFollowEdges == \A a, b \in Nodes : b \in children[a] <=> connections[<<a, b>>] # {}

(* A graph has the neighbours of its nodes, and what it does not have is      *)
(* isolated: no edge leads to a node that was merged away.                   *)
MembersAreClosed ==
  \A a \in Nodes :
    /\ \A g \in Graphs : a \in members[g] => parents[a] \cup children[a] \subseteq members[g]
    /\ (\A g \in Graphs : a \notin members[g]) => parents[a] = {} /\ children[a] = {}

(* A copy and its original have no node in common, whatever happens to them   *)
(* later: a change to one graph is none to the other.                        *)
Disjoint == \A g, h \in Graphs : g # h => members[g] \cap members[h] = {}

(* GraphNN implements graphs of operand uses: a merge is a quotient that      *)
(* keeps every binding to the outside and the numbered ones inside, a copy    *)
(* has the bindings of the original and leaves it alone.                      *)
Abstract == INSTANCE OperandGraph WITH
  nodes <- members,
  operands <- {e \in Nodes \X Nodes \X Ports : e[3] \in Bindings(e[1], e[2])}
ImplementsOperandGraph == Abstract!Spec
=============================================================================
