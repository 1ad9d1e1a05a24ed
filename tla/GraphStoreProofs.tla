---------------------------- MODULE GraphStoreProofs ----------------------------
(***************************************************************************)
(* Edges that are kept in both directions, with their bindings, through any  *)
(* sequence of additions, merges and whole copies.                           *)
(***************************************************************************)
EXTENDS GraphStore, TLAPS

(* The inductive invariant: merging nodes that two graphs share would leave  *)
(* one of them with neighbours it does not have.                             *)
Inv == TypeOK /\ Reciprocal /\ BindingsFollowEdges /\ MembersAreClosed /\ Disjoint

-----------------------------------------------------------------------------
LEMMA InitInv == Init => Inv
BY PlainAssumption, BoundAssumption DEF Init, Inv, TypeOK, Reciprocal, BindingsFollowEdges, MembersAreClosed, Disjoint

(* A node that was not made yet has no edges. *)
LEMMA FreshIsIsolated ==
  ASSUME Inv, NEW n \in Fresh
  PROVE  /\ parents[n] = {} /\ children[n] = {}
         /\ \A a \in Nodes : n \notin children[a] /\ n \notin parents[a]
         /\ \A a \in Nodes : connections[<<a, n>>] = {} /\ connections[<<n, a>>] = {}
         /\ \A g \in Graphs : n \notin members[g]
<1>1. n \in Nodes /\ n \notin created
  BY DEF Fresh
<1>2. \A g \in Graphs : n \notin members[g]
  BY <1>1 DEF Inv, TypeOK
<1>3. parents[n] = {} /\ children[n] = {}
  BY <1>1, <1>2 DEF Inv, MembersAreClosed
<1>4. \A a \in Nodes : n \notin children[a] /\ n \notin parents[a]
  BY <1>1 DEF Inv, TypeOK
<1>5. \A a \in Nodes : connections[<<a, n>>] = {} /\ connections[<<n, a>>] = {}
  BY <1>1, <1>3, <1>4 DEF Inv, BindingsFollowEdges
<1> QED
  BY <1>2, <1>3, <1>4, <1>5

LEMMA AddNodeKeeps == ASSUME Inv, NEW g \in Graphs, AddNode(g) PROVE Inv'
<1>1. PICK n \in Fresh : members' = [members EXCEPT ![g] = @ \cup {n}] /\ created' = created \cup {n}
  BY DEF AddNode
<1>2. UNCHANGED <<parents, children, connections, info, changes>>
  BY DEF AddNode
<1>3. TypeOK'
  BY <1>1, <1>2 DEF Inv, TypeOK, Fresh
<1>4. Reciprocal' /\ BindingsFollowEdges'
  BY <1>2 DEF Inv, Reciprocal, BindingsFollowEdges
<1>5. MembersAreClosed'
  BY <1>1, <1>2, FreshIsIsolated DEF Inv, TypeOK, MembersAreClosed, Fresh
<1>6. Disjoint'
  BY <1>1, FreshIsIsolated DEF Inv, TypeOK, Disjoint
<1> QED
  BY <1>3, <1>4, <1>5, <1>6 DEF Inv

LEMMA AddEdgeKeeps == ASSUME Inv, NEW g \in Graphs, AddEdge(g) PROVE Inv'
<1>1. PICK from \in members[g] \cup Fresh, to \in members[g] \cup Fresh, ports \in Ports :
        /\ members' = [members EXCEPT ![g] = @ \cup {from, to}]
        /\ created' = created \cup {from, to}
        /\ children' = [children EXCEPT ![from] = @ \cup {to}]
        /\ connections' = [connections EXCEPT ![<<from, to>>] = @ \cup {ports}]
        /\ parents' = [parents EXCEPT ![to] = @ \cup {from}]
  BY DEF AddEdge
<1>2. info' = info /\ changes < MaxChanges /\ changes' = changes + 1
  BY DEF AddEdge
<1>3. from \in Nodes /\ to \in Nodes /\ \A h \in Graphs \ {g} : from \notin members[h] /\ to \notin members[h]
  BY FreshIsIsolated DEF Inv, TypeOK, Disjoint, Fresh
<1>4. changes' \in 0 .. MaxChanges
  BY <1>2, BoundAssumption DEF Inv, TypeOK
<1>5. TypeOK'
  BY <1>1, <1>2, <1>3, <1>4 DEF Inv, TypeOK
<1>6. Reciprocal'
  BY <1>1, <1>3 DEF Inv, TypeOK, Reciprocal
<1>7. BindingsFollowEdges'
  BY <1>1, <1>3 DEF Inv, TypeOK, BindingsFollowEdges
<1>8. MembersAreClosed'
  <2>1. \A n \in Nodes : n # from => children'[n] = children[n]
    BY <1>1, <1>3 DEF Inv, TypeOK
  <2>2. \A n \in Nodes : n # to => parents'[n] = parents[n]
    BY <1>1, <1>3 DEF Inv, TypeOK
  <2>3. children'[from] = children[from] \cup {to} /\ parents'[to] = parents[to] \cup {from}
    BY <1>1, <1>3 DEF Inv, TypeOK
  <2>4. members'[g] = members[g] \cup {from, to} /\ \A h \in Graphs \ {g} : members'[h] = members[h]
    BY <1>1 DEF Inv, TypeOK
  <2>5. parents[from] \cup children[from] \cup parents[to] \cup children[to] \subseteq members[g]
    BY <1>3, FreshIsIsolated DEF Inv, MembersAreClosed
  <2> QED
    BY <1>3, <2>1, <2>2, <2>3, <2>4, <2>5 DEF Inv, MembersAreClosed
<1>9. Disjoint'
  BY <1>1, <1>3 DEF Inv, TypeOK, Disjoint
<1> QED
  BY <1>5, <1>6, <1>7, <1>8, <1>9 DEF Inv

LEMMA SetInfoKeeps == ASSUME Inv, NEW g \in Graphs, SetInfo(g) PROVE Inv'
<1>1. UNCHANGED <<members, parents, children, connections, created>>
  BY DEF SetInfo
<1>2. TypeOK'
  BY BoundAssumption DEF SetInfo, Inv, TypeOK
<1> QED
  BY <1>1, <1>2 DEF Inv, Reciprocal, BindingsFollowEdges, MembersAreClosed, Disjoint

-----------------------------------------------------------------------------
(* mergeNodes.  The bindings that are added again lead between the new node  *)
(* and the outer neighbours, and every outer neighbour has one.              *)
LEMMA NumberedEnds ==
  ASSUME Inv, NEW g \in Graphs, NEW merged \in SUBSET members[g], NEW m \in Fresh,
         NEW o \in Numbered(merged, m)
  PROVE  /\ o \in Nodes \X Nodes \X Ports
         /\ o[1] \in (members[g] \ merged) \cup {m} /\ o[2] \in (members[g] \ merged) \cup {m}
         /\ o[1] = m \/ o[2] = m
<1>1. PICK e \in (merged \cup UNION {parents[n] : n \in merged}) \X Nodes \X Ports :
        /\ o = <<Replace(e[1], merged, m), Replace(e[2], merged, m), e[3]>>
        /\ e[1] \in merged \/ e[2] \in merged
        /\ e[3] \in Bindings(e[1], e[2])
  BY DEF Numbered
<1>2. merged \subseteq Nodes /\ m \in Nodes /\ m \notin merged
  BY DEF Inv, TypeOK, Fresh
<1>3. e[1] \in members[g]
  BY <1>1, <1>2 DEF Inv, MembersAreClosed
<1>4. e[2] \in children[e[1]]
  BY <1>1 DEF Bindings
<1>5. e[2] \in members[g]
  BY <1>2, <1>3, <1>4 DEF Inv, TypeOK, MembersAreClosed
<1> QED
  BY <1>1, <1>2, <1>3, <1>5 DEF Replace, Inv, TypeOK

LEMMA NumberedCovers ==
  ASSUME Inv, NEW g \in Graphs, NEW merged \in SUBSET members[g], NEW m \in Fresh
  PROVE  /\ \A a \in Outer(parents, merged) : \E p \in Ports : <<a, m, p>> \in Numbered(merged, m)
         /\ \A b \in Outer(children, merged) : \E p \in Ports : <<m, b, p>> \in Numbered(merged, m)
<1>1. merged \subseteq Nodes
  BY DEF Inv, TypeOK
<1>2. ASSUME NEW a \in Nodes, NEW b \in Nodes, b \in children[a]
      PROVE  \E p \in Ports : p \in Bindings(a, b)
  BY <1>2 DEF Inv, TypeOK, BindingsFollowEdges, Bindings
<1>3. ASSUME NEW a \in Nodes, NEW b \in Nodes, b \in children[a], a \in merged \/ b \in merged,
             ~ (a \in merged /\ b \in merged)
      PROVE  \E p \in Ports : <<Replace(a, merged, m), Replace(b, merged, m), p>> \in Numbered(merged, m)
  <2>1. PICK p \in Ports : p \in Bindings(a, b)
    BY <1>2, <1>3
  <2>2. a \in merged \cup UNION {parents[n] : n \in merged}
    BY <1>3 DEF Inv, Reciprocal
  <2>3. <<Replace(a, merged, m), Replace(b, merged, m), p>> \in Numbered(merged, m)
    <3> DEFINE e == <<a, b, p>>
    <3>1. e \in (merged \cup UNION {parents[n] : n \in merged}) \X Nodes \X Ports
      BY <2>2
    <3>2. e[1] = a /\ e[2] = b /\ e[3] = p
      OBVIOUS
    <3> QED
      BY <1>3, <2>1, <3>1, <3>2 DEF Numbered
  <2> QED
    BY <2>3
<1>4. ASSUME NEW a \in Outer(parents, merged) PROVE \E p \in Ports : <<a, m, p>> \in Numbered(merged, m)
  <2>1. PICK n \in merged : a \in parents[n] /\ a \notin merged
    BY DEF Outer
  <2>2. a \in Nodes /\ n \in children[a]
    BY <1>1, <2>1 DEF Inv, TypeOK, Reciprocal
  <2> QED
    BY <1>1, <1>3, <2>1, <2>2 DEF Replace
<1>5. ASSUME NEW b \in Outer(children, merged) PROVE \E p \in Ports : <<m, b, p>> \in Numbered(merged, m)
  <2>1. PICK n \in merged : b \in children[n] /\ b \notin merged
    BY DEF Outer
  <2>2. b \in Nodes
    BY <1>1, <2>1 DEF Inv, TypeOK
  <2> QED
    BY <1>1, <1>3, <2>1, <2>2 DEF Replace
<1> QED
  BY <1>4, <1>5

(* After the removal a merged node has no neighbours, and no other node has   *)
(* a merged one.                                                             *)
LEMMA UnlinkedNeighbors ==
  ASSUME Inv, NEW g \in Graphs, NEW merged \in SUBSET members[g], NEW n \in Nodes
  PROVE  /\ Unlinked(parents, n, merged, Outer(parents, merged), Outer(children, merged))
              = IF n \in merged THEN {} ELSE parents[n] \ merged
         /\ Unlinked(children, n, merged, Outer(children, merged), Outer(parents, merged))
              = IF n \in merged THEN {} ELSE children[n] \ merged
<1>1. merged \subseteq Nodes /\ parents[n] \subseteq Nodes /\ children[n] \subseteq Nodes
  BY DEF Inv, TypeOK
<1>2. CASE n \in merged
  <2>1. parents[n] \subseteq Outer(parents, merged) \cup merged
    BY <1>2 DEF Outer
  <2>2. children[n] \subseteq Outer(children, merged) \cup merged
    BY <1>2 DEF Outer
  <2> QED
    BY <1>2, <2>1, <2>2 DEF Unlinked
<1>3. CASE n \notin merged
  <2>1. n \notin Outer(children, merged) => parents[n] \cap merged = {}
    BY <1>1, <1>3 DEF Outer, Inv, Reciprocal
  <2>2. n \notin Outer(parents, merged) => children[n] \cap merged = {}
    BY <1>1, <1>3 DEF Outer, Inv, Reciprocal
  <2> QED
    BY <1>3, <2>1, <2>2 DEF Unlinked
<1> QED
  BY <1>2, <1>3

(* What a merge leaves: Joins(a, b) when bindings from a to b are added again.*)
LEMMA MergeKeeps ==
  ASSUME Inv, NEW g \in Graphs, NEW merged \in SUBSET members[g], merged # {}, Merge(g, merged)
  PROVE  Inv'
<1> DEFINE A == Outer(parents, merged)
           C == Outer(children, merged)
<1>1. PICK m \in Fresh :
        /\ parents' = [n \in Nodes |->
              (IF n = m THEN A ELSE Unlinked(parents, n, merged, A, C))
                \cup (IF n \in C THEN {m} ELSE {}) \cup {a \in Nodes : \E p \in Ports : <<a, n, p>> \in Numbered(merged, m)}]
        /\ children' = [n \in Nodes |->
              (IF n = m THEN C ELSE Unlinked(children, n, merged, C, A))
                \cup (IF n \in A THEN {m} ELSE {}) \cup {b \in Nodes : \E p \in Ports : <<n, b, p>> \in Numbered(merged, m)}]
        /\ connections' = [e \in Nodes \X Nodes |->
              (IF Erased(merged, A, C, e[1], e[2]) THEN {} ELSE connections[e])
                \cup {p \in Ports : <<e[1], e[2], p>> \in Numbered(merged, m)}]
        /\ members' = [members EXCEPT ![g] =
              (@ \ merged) \cup {m} \cup UNION {{o[1], o[2]} : o \in Numbered(merged, m)}]
        /\ \E i \in MergedInfos(merged) : info' = [info EXCEPT ![m] = i]
        /\ created' = created \cup {m}
  BY DEF Merge
<1> DEFINE Joins(a, b) == \E p \in Ports : <<a, b, p>> \in Numbered(merged, m)
           Rest == members[g] \ merged
<1>2. /\ m \in Nodes /\ m \notin created /\ merged \subseteq Nodes /\ members[g] \subseteq created
      /\ changes' = changes
  BY DEF Inv, TypeOK, Fresh, Merge
<1>3. \A a, b \in Nodes : Joins(a, b) =>
        a \in Rest \cup {m} /\ b \in Rest \cup {m} /\ (a = m \/ b = m)
  <2> SUFFICES ASSUME NEW a \in Nodes, NEW b \in Nodes, NEW p \in Ports, <<a, b, p>> \in Numbered(merged, m)
               PROVE  a \in Rest \cup {m} /\ b \in Rest \cup {m} /\ (a = m \/ b = m)
    OBVIOUS
  <2> DEFINE o == <<a, b, p>>
  <2>1. o \in Numbered(merged, m) /\ o[1] = a /\ o[2] = b
    OBVIOUS
  <2> HIDE DEF o
  <2> QED
    BY <2>1, NumberedEnds
<1>4. A \subseteq Rest /\ C \subseteq Rest
  BY DEF Inv, TypeOK, MembersAreClosed, Outer
<1>5. (\A a \in A : Joins(a, m)) /\ (\A b \in C : Joins(m, b))
  BY NumberedCovers
<1>6. \A n \in Nodes : m \notin parents[n] /\ m \notin children[n]
  BY FreshIsIsolated
<1>7. parents'[m] = A \cup {a \in Nodes : Joins(a, m)} /\ children'[m] = C \cup {b \in Nodes : Joins(m, b)}
  BY <1>1, <1>2, <1>4
<1>8. \A n \in Nodes \ {m} :
        /\ parents'[n] = (IF n \in merged THEN {} ELSE parents[n] \ merged)
                           \cup (IF n \in C THEN {m} ELSE {}) \cup {a \in Nodes : Joins(a, n)}
        /\ children'[n] = (IF n \in merged THEN {} ELSE children[n] \ merged)
                           \cup (IF n \in A THEN {m} ELSE {}) \cup {b \in Nodes : Joins(n, b)}
  BY <1>1, UnlinkedNeighbors
<1>9. \A a, b \in Nodes :
        connections'[<<a, b>>] = (IF Erased(merged, A, C, a, b) THEN {} ELSE connections[<<a, b>>])
                                   \cup {p \in Ports : <<a, b, p>> \in Numbered(merged, m)}
  BY <1>1
<1>10. members'[g] = Rest \cup {m} /\ \A h \in Graphs \ {g} : members'[h] = members[h]
  <2>1. \A o \in Numbered(merged, m) : o[1] \in Rest \cup {m} /\ o[2] \in Rest \cup {m}
    BY NumberedEnds
  <2>2. UNION {{o[1], o[2]} : o \in Numbered(merged, m)} \subseteq Rest \cup {m}
    BY <2>1
  <2> QED
    BY <1>1, <2>2 DEF Inv, TypeOK
<1> HIDE DEF A, C, Joins
<1>11. TypeOK'
  <2>1. members' \in [Graphs -> SUBSET created'] /\ created' \subseteq Nodes
    <3>1. DOMAIN members' = Graphs /\ members' = [h \in Graphs |-> members'[h]]
      BY <1>1 DEF Inv, TypeOK
    <3>2. \A h \in Graphs : members'[h] \subseteq created'
      BY <1>1, <1>2, <1>10 DEF Inv, TypeOK
    <3> QED
      BY <1>1, <1>2, <3>1, <3>2 DEF Inv, TypeOK
  <2>2. \A n \in Nodes : parents'[n] \subseteq created' /\ children'[n] \subseteq created'
    <3>1. Rest \cup {m} \subseteq created' /\ created \subseteq created'
      BY <1>1, <1>2
    <3>2. parents'[m] \cup children'[m] \subseteq Rest \cup {m}
      BY <1>2, <1>3, <1>4, <1>7
    <3>3. ASSUME NEW n \in Nodes \ {m}
          PROVE  parents'[n] \cup children'[n] \subseteq created \cup {m}
      <4>1. parents[n] \subseteq created /\ children[n] \subseteq created
        BY DEF Inv, TypeOK
      <4>2. \A a \in Nodes : Joins(a, n) \/ Joins(n, a) => a \in Rest \cup {m}
        BY <1>3
      <4> QED
        BY <1>2, <1>8, <4>1, <4>2
    <3> QED
      BY <1>1, <3>1, <3>2, <3>3
  <2>3. parents' \in [Nodes -> SUBSET created']
    <3>1. parents' = [n \in Nodes |-> parents'[n]]
      BY <1>1
    <3> QED
      BY <2>2, <3>1
  <2>4. children' \in [Nodes -> SUBSET created']
    <3>1. children' = [n \in Nodes |-> children'[n]]
      BY <1>1
    <3> QED
      BY <2>2, <3>1
  <2>5. connections' \in [Nodes \X Nodes -> SUBSET Ports]
    BY <1>1 DEF Inv, TypeOK
  <2>6. info' \in [Nodes -> Infos]
    <3>1. MergedInfos(merged) \subseteq Infos
      BY <1>2, PlainAssumption DEF MergedInfos, Inv, TypeOK
    <3> QED
      BY <1>1, <3>1 DEF Inv, TypeOK
  <2> QED
    BY <1>2, <2>1, <2>3, <2>4, <2>5, <2>6 DEF TypeOK, Inv
<1>12. Reciprocal'
  <2> SUFFICES ASSUME NEW a \in Nodes, NEW b \in Nodes PROVE b \in children'[a] <=> a \in parents'[b]
    BY DEF Reciprocal
  <2>1. b \in children[a] <=> a \in parents[b]
    BY DEF Inv, Reciprocal
  <2>2. CASE a = m
    BY <1>2, <1>4, <1>6, <1>7, <1>8, <2>2 DEF Inv, TypeOK
  <2>3. CASE b = m /\ a # m
    BY <1>2, <1>4, <1>6, <1>7, <1>8, <2>3 DEF Inv, TypeOK
  <2>4. CASE a # m /\ b # m
    BY <1>3, <1>8, <2>1, <2>4
  <2> QED
    BY <2>2, <2>3, <2>4
<1>13. BindingsFollowEdges'
  <2> SUFFICES ASSUME NEW a \in Nodes, NEW b \in Nodes
               PROVE  b \in children'[a] <=> connections'[<<a, b>>] # {}
    BY DEF BindingsFollowEdges
  <2>1. connections'[<<a, b>>] # {} <=> (~ Erased(merged, A, C, a, b) /\ connections[<<a, b>>] # {}) \/ Joins(a, b)
    BY <1>9 DEF Joins
  <2>2. b \in children[a] <=> connections[<<a, b>>] # {}
    BY DEF Inv, BindingsFollowEdges
  <2>3. CASE a = m \/ b = m
    <3>1. b \notin children[a]
      BY <1>6, <2>3, FreshIsIsolated
    <3>2. b \in children'[a] <=> Joins(a, b)
      BY <1>2, <1>4, <1>5, <1>6, <1>7, <1>8, <2>3
    <3> QED
      BY <2>1, <2>2, <3>1, <3>2
  <2>4. CASE a # m /\ b # m
    <3>1. ~ Joins(a, b) /\ (b \in children'[a] <=> b \in children[a] /\ a \notin merged /\ b \notin merged)
      BY <1>3, <1>8, <2>4
    <3>2. b \in children[a] => (Erased(merged, A, C, a, b) <=> a \in merged \/ b \in merged)
      BY DEF Erased, A, C, Outer, Inv, Reciprocal
    <3> QED
      BY <2>1, <2>2, <3>1, <3>2
  <2> QED
    BY <2>3, <2>4
<1>14. MembersAreClosed'
  <2> SUFFICES ASSUME NEW n \in Nodes
               PROVE  /\ \A h \in Graphs : n \in members'[h] => parents'[n] \cup children'[n] \subseteq members'[h]
                      /\ (\A h \in Graphs : n \notin members'[h]) => parents'[n] = {} /\ children'[n] = {}
    BY DEF MembersAreClosed
  <2>1. /\ \A h \in Graphs : n \in members[h] => parents[n] \cup children[n] \subseteq members[h]
        /\ (\A h \in Graphs : n \notin members[h]) => parents[n] = {} /\ children[n] = {}
    BY DEF Inv, MembersAreClosed
  <2>2. CASE n = m
    <3>1. \A h \in Graphs \ {g} : m \notin members'[h]
      BY <1>2, <1>10 DEF Inv, TypeOK
    <3>2. parents'[m] \cup children'[m] \subseteq members'[g]
      BY <1>2, <1>3, <1>4, <1>7, <1>10
    <3> QED
      BY <1>10, <2>2, <3>1, <3>2
  <2>3. CASE n \in Rest
    <3>1. \A h \in Graphs \ {g} : n \notin members'[h]
      BY <1>10, <2>3 DEF Inv, Disjoint
    <3>2. parents'[n] \cup children'[n] \subseteq members'[g]
      BY <1>2, <1>3, <1>8, <1>10, <2>1, <2>3
    <3> QED
      BY <1>10, <2>3, <3>1, <3>2
  <2>4. CASE n # m /\ n \notin Rest
    <3>1. \A a \in Nodes : ~ Joins(a, n) /\ ~ Joins(n, a)
      BY <1>3, <2>4
    <3>2. /\ parents'[n] = (IF n \in merged THEN {} ELSE parents[n] \ merged)
          /\ children'[n] = (IF n \in merged THEN {} ELSE children[n] \ merged)
      BY <1>4, <1>8, <2>4, <3>1
    <3>3. CASE n \in merged
      <4>1. \A h \in Graphs : n \notin members'[h]
        BY <1>2, <1>10, <2>4, <3>3 DEF Inv, Disjoint
      <4> QED
        BY <3>2, <3>3, <4>1
    <3>4. CASE n \notin merged
      BY <1>10, <2>1, <2>4, <3>2, <3>4
    <3> QED
      BY <3>3, <3>4
  <2> QED
    BY <2>2, <2>3, <2>4
<1>15. Disjoint'
  BY <1>2, <1>10 DEF Inv, TypeOK, Disjoint
<1> QED
  BY <1>11, <1>12, <1>13, <1>14, <1>15 DEF Inv

-----------------------------------------------------------------------------
(* deepCopy of a whole graph goes to its nodes and no further. *)
LEMMA WholeGraphReached == ASSUME Inv, NEW g \in Graphs PROVE Reached(g, {}) = members[g]
<1>1. members[g] \in SUBSET created
  BY DEF Inv, TypeOK
<1>2. \A n \in members[g] : (parents[n] \cup children[n]) \ {} \subseteq members[g]
  BY DEF Inv, TypeOK, MembersAreClosed
<1> QED
  BY <1>1, <1>2 DEF Reached

(* The bindings of a copy are those of its original; copies and other nodes  *)
(* have none between them.                                                   *)
LEMMA CopyConnects ==
  ASSUME Inv, NEW g \in Graphs, NEW h \in Graphs, NEW copy \in Injections(members[g], Fresh), CopyInto(g, h, copy)
  PROVE  LET Copies == {copy[n] : n \in members[g]} IN
         /\ \A a, b \in members[g] : connections'[<<copy[a], copy[b]>>] = Bindings(a, b)
         /\ \A a \in members[g] : \A n \in Nodes \ Copies : connections'[<<copy[a], n>>] = {}
         /\ \A n \in Nodes \ Copies : \A b \in Nodes : connections'[<<n, b>>] = connections[<<n, b>>]
<1> DEFINE M == members[g]
           image == [n \in created |-> IF n \in DOMAIN copy THEN copy[n] ELSE n]
           Copies == {copy[a] : a \in M}
           Origins(n) == {a \in DOMAIN copy : copy[a] = n}
<1>1. connections' = [e \in Nodes \X Nodes |->
        IF Origins(e[1]) = {} THEN connections[e]
        ELSE UNION {Bindings(a, b) : a \in Origins(e[1]), b \in {b \in created : image[b] = e[2]}}]
  BY DEF CopyInto
<1>2. /\ copy \in [M -> Fresh] /\ DOMAIN copy = M
      /\ \A a, b \in M : copy[a] = copy[b] => a = b
      /\ M \subseteq created /\ created \subseteq Nodes /\ Copies \subseteq Fresh
  BY DEF Injections, Inv, TypeOK
<1>3. \A a \in M : parents[a] \subseteq M /\ children[a] \subseteq M
  BY <1>2 DEF Inv, MembersAreClosed
<1>4. (\A b \in M : image[b] = copy[b]) /\ (\A b \in created \ M : image[b] = b)
  BY <1>2
<1> HIDE DEF image
<1>5. ASSUME NEW a \in M, NEW b \in M PROVE connections'[<<copy[a], copy[b]>>] = Bindings(a, b)
  <2>1. {c \in DOMAIN copy : copy[c] = copy[a]} = {a}
    BY <1>2
  <2>2. {c \in created : image[c] = copy[b]} = {b}
    BY <1>2, <1>4 DEF Fresh
  <2>3. copy[a] \in Nodes /\ copy[b] \in Nodes
    BY <1>2 DEF Fresh
  <2>4. connections'[<<copy[a], copy[b]>>]
          = UNION {Bindings(c, d) : c \in Origins(copy[a]), d \in {d \in created : image[d] = copy[b]}}
    BY <1>1, <2>1, <2>3
  <2>5. connections'[<<copy[a], copy[b]>>] = UNION {Bindings(c, d) : c \in {a}, d \in {b}}
    BY <2>1, <2>2, <2>4
  <2>6. {Bindings(c, d) : c \in {a}, d \in {b}} = {Bindings(a, b)}
    OBVIOUS
  <2> QED
    BY <2>5, <2>6
<1>6. ASSUME NEW a \in M, NEW n \in Nodes \ Copies PROVE connections'[<<copy[a], n>>] = {}
  <2>1. {c \in DOMAIN copy : copy[c] = copy[a]} = {a}
    BY <1>2
  <2>2. \A c \in created : image[c] = n => Bindings(a, c) = {}
    <3>1. \A c \in created : image[c] = n => c \notin M
      BY <1>4
    <3> QED
      BY <1>3, <3>1 DEF Bindings
  <2>3. copy[a] \in Nodes
    BY <1>2 DEF Fresh
  <2>4. connections'[<<copy[a], n>>]
          = UNION {Bindings(c, d) : c \in Origins(copy[a]), d \in {d \in created : image[d] = n}}
    BY <1>1, <2>1, <2>3
  <2>5. \A c \in Origins(copy[a]) : c = a
    BY <1>2
  <2>6. \A x : x \notin connections'[<<copy[a], n>>]
    BY <2>2, <2>4, <2>5
  <2> QED
    BY <2>6
<1>7. ASSUME NEW n \in Nodes \ Copies, NEW b \in Nodes PROVE connections'[<<n, b>>] = connections[<<n, b>>]
  BY <1>1, <1>2
<1> QED
  BY <1>5, <1>6, <1>7

LEMMA DeepCopyKeeps == ASSUME Inv, NEW g \in Graphs, NEW h \in Graphs, DeepCopy(g, h, {}) PROVE Inv'
<1> DEFINE M == members[g]
<1>0. PICK copy \in Injections(M, Fresh) : CopyInto(g, h, copy)
  BY WholeGraphReached DEF DeepCopy
<1> DEFINE image == [n \in created |-> IF n \in DOMAIN copy THEN copy[n] ELSE n]
           Copies == {copy[a] : a \in M}
           Origins(n) == {a \in DOMAIN copy : copy[a] = n}
<1>1. /\ members' = [members EXCEPT ![h] = {image[n] : n \in M}]
      /\ parents' = [n \in Nodes |-> Copied(parents, copy, image, n)]
      /\ children' = [n \in Nodes |-> Copied(children, copy, image, n)]
      /\ connections' = [e \in Nodes \X Nodes |->
            IF Origins(e[1]) = {} THEN connections[e]
            ELSE UNION {Bindings(a, b) : a \in Origins(e[1]), b \in {b \in created : image[b] = e[2]}}]
      /\ info' = [n \in Nodes |-> IF Origins(n) = {} THEN info[n]
                                  ELSE info[CHOOSE a \in DOMAIN copy : copy[a] = n]]
      /\ created' = created \cup {copy[n] : n \in DOMAIN copy}
  BY <1>0 DEF CopyInto
<1>2. members[h] = {} /\ changes' = changes
  BY DEF DeepCopy
<1>3. /\ copy \in [M -> Fresh] /\ DOMAIN copy = M
      /\ \A a, b \in M : copy[a] = copy[b] => a = b
      /\ M \subseteq created /\ created \subseteq Nodes /\ Copies \subseteq Fresh
  BY DEF Injections, Inv, TypeOK
<1>4. \A a \in M : parents[a] \subseteq M /\ children[a] \subseteq M
  BY <1>3 DEF Inv, MembersAreClosed
<1>5. (\A b \in M : image[b] = copy[b]) /\ (\A b \in created \ M : image[b] = b)
  BY <1>3
<1> HIDE DEF image
<1>6. members'[h] = Copies /\ (\A k \in Graphs \ {h} : members'[k] = members[k]) /\ created' = created \cup Copies
  <2>1. {image[n] : n \in M} = Copies /\ {copy[n] : n \in DOMAIN copy} = Copies
    BY <1>3, <1>5
  <2> QED
    BY <1>1, <2>1 DEF Inv, TypeOK
<1>7. ASSUME NEW a \in M
      PROVE  parents'[copy[a]] = {copy[b] : b \in parents[a]} /\ children'[copy[a]] = {copy[b] : b \in children[a]}
  <2>1. a = CHOOSE c \in DOMAIN copy : copy[c] = copy[a]
    BY <1>3
  <2>2. copy[a] \in Nodes
    BY <1>3 DEF Fresh
  <2>3. parents'[copy[a]] = {image[b] : b \in parents[a]} /\ children'[copy[a]] = {image[b] : b \in children[a]}
    BY <1>1, <1>3, <2>1, <2>2 DEF Copied
  <2>4. {image[b] : b \in parents[a]} = {copy[b] : b \in parents[a]}
    BY <1>4, <1>5
  <2>5. {image[b] : b \in children[a]} = {copy[b] : b \in children[a]}
    BY <1>4, <1>5
  <2> QED
    BY <2>3, <2>4, <2>5
<1>8. ASSUME NEW n \in Nodes \ Copies
      PROVE  /\ parents'[n] = parents[n] /\ children'[n] = children[n]
             /\ \A b \in Nodes : connections'[<<n, b>>] = connections[<<n, b>>]
  BY <1>1, <1>3 DEF Copied
<1>9. ASSUME NEW a \in M, NEW b \in M PROVE connections'[<<copy[a], copy[b]>>] = Bindings(a, b)
  BY <1>0, CopyConnects
<1>10. ASSUME NEW a \in M, NEW n \in Nodes \ Copies PROVE connections'[<<copy[a], n>>] = {}
  BY <1>0, CopyConnects
<1>11. \A n \in Copies : n \in Nodes /\ (\A a \in Nodes : n \notin parents[a] /\ n \notin children[a])
                         /\ (\A k \in Graphs : n \notin members[k])
  BY <1>3, FreshIsIsolated DEF Fresh
<1>12. TypeOK'
  <2>1. members' \in [Graphs -> SUBSET created'] /\ created' \subseteq Nodes
    <3>1. members' = [k \in Graphs |-> members'[k]]
      BY <1>1 DEF Inv, TypeOK
    <3>2. \A k \in Graphs : members'[k] \subseteq created'
      BY <1>6 DEF Inv, TypeOK
    <3> QED
      BY <1>3, <1>6, <1>11, <3>1, <3>2
  <2>2. \A n \in Nodes : parents'[n] \subseteq created' /\ children'[n] \subseteq created'
    <3>1. \A n \in Nodes \ Copies : parents'[n] \subseteq created' /\ children'[n] \subseteq created'
      BY <1>6, <1>8 DEF Inv, TypeOK
    <3>2. \A a \in M : parents'[copy[a]] \subseteq Copies /\ children'[copy[a]] \subseteq Copies
      BY <1>4, <1>7
    <3> QED
      BY <1>6, <3>1, <3>2
  <2>3. parents' = [n \in Nodes |-> parents'[n]] /\ children' = [n \in Nodes |-> children'[n]]
    BY <1>1
  <2>4. parents' \in [Nodes -> SUBSET created'] /\ children' \in [Nodes -> SUBSET created']
    BY <2>2, <2>3
  <2>5. connections' \in [Nodes \X Nodes -> SUBSET Ports]
    <3>1. \A a, b \in Nodes : connections'[<<a, b>>] \subseteq Ports
      <4>1. \A a, b \in Nodes : connections[<<a, b>>] \subseteq Ports
        BY DEF Inv, TypeOK
      <4>2. \A a, b \in M : Bindings(a, b) \subseteq Ports
        BY <1>3, <4>1, PlainAssumption DEF Bindings
      <4>3. ASSUME NEW a \in M, NEW b \in Nodes PROVE connections'[<<copy[a], b>>] \subseteq Ports
        <5>1. CASE b \in Copies
          BY <1>9, <4>2, <5>1
        <5>2. CASE b \notin Copies
          BY <1>10, <5>2
        <5> QED
          BY <5>1, <5>2
      <4>4. ASSUME NEW a \in Nodes \ Copies, NEW b \in Nodes PROVE connections'[<<a, b>>] \subseteq Ports
        BY <1>8, <4>1
      <4> QED
        BY <4>3, <4>4
    <3>2. connections' = [e \in Nodes \X Nodes |-> connections'[e]]
      BY <1>1
    <3>3. \A e \in Nodes \X Nodes : connections'[e] \in SUBSET Ports
      BY <3>1
    <3> QED
      BY <3>2, <3>3
  <2>6. info' \in [Nodes -> Infos]
    <3>1. \A n \in Nodes : n \in Copies => info[CHOOSE a \in DOMAIN copy : copy[a] = n] \in Infos
      BY <1>3 DEF Inv, TypeOK
    <3>2. \A n \in Nodes : {a \in DOMAIN copy : copy[a] = n} # {} => n \in Copies
      BY <1>3
    <3> QED
      BY <1>1, <3>1, <3>2 DEF Inv, TypeOK
  <2> QED
    BY <1>2, <2>1, <2>4, <2>5, <2>6 DEF TypeOK, Inv
<1>13. Reciprocal'
  <2> SUFFICES ASSUME NEW a \in Nodes, NEW b \in Nodes PROVE b \in children'[a] <=> a \in parents'[b]
    BY DEF Reciprocal
  <2>1. CASE a \in Copies /\ b \in Copies
    BY <1>3, <1>4, <1>7, <2>1 DEF Inv, Reciprocal
  <2>2. CASE a \in Copies /\ b \notin Copies
    BY <1>4, <1>7, <1>8, <1>11, <2>2
  <2>3. CASE a \notin Copies /\ b \in Copies
    BY <1>4, <1>7, <1>8, <1>11, <2>3
  <2>4. CASE a \notin Copies /\ b \notin Copies
    BY <1>8, <2>4 DEF Inv, Reciprocal
  <2> QED
    BY <2>1, <2>2, <2>3, <2>4
<1>14. BindingsFollowEdges'
  <2> SUFFICES ASSUME NEW a \in Nodes, NEW b \in Nodes
               PROVE  b \in children'[a] <=> connections'[<<a, b>>] # {}
    BY DEF BindingsFollowEdges
  <2>1. CASE a \in Copies /\ b \in Copies
    <3>1. PICK c \in M, d \in M : a = copy[c] /\ b = copy[d]
      BY <2>1
    <3>2. b \in children'[a] <=> d \in children[c]
      BY <1>3, <1>4, <1>7, <3>1
    <3>3. Bindings(c, d) # {} <=> d \in children[c]
      BY <1>3 DEF Bindings, Inv, BindingsFollowEdges
    <3> QED
      BY <1>9, <3>1, <3>2, <3>3
  <2>2. CASE a \in Copies /\ b \notin Copies
    BY <1>4, <1>7, <1>10, <2>2
  <2>3. CASE a \notin Copies
    BY <1>8, <2>3 DEF Inv, BindingsFollowEdges
  <2> QED
    BY <2>1, <2>2, <2>3
<1>15. MembersAreClosed'
  <2> SUFFICES ASSUME NEW n \in Nodes
               PROVE  /\ \A k \in Graphs : n \in members'[k] => parents'[n] \cup children'[n] \subseteq members'[k]
                      /\ (\A k \in Graphs : n \notin members'[k]) => parents'[n] = {} /\ children'[n] = {}
    BY DEF MembersAreClosed
  <2>1. CASE n \in Copies
    BY <1>4, <1>6, <1>7, <1>11, <2>1
  <2>2. CASE n \notin Copies
    <3>1. parents'[n] = parents[n] /\ children'[n] = children[n]
      BY <1>8, <2>2
    <3>2. \A k \in Graphs : n \in members'[k] <=> n \in members[k]
      BY <1>2, <1>6, <2>2
    <3>3. \A k \in Graphs : n \in members'[k] => members'[k] = members[k]
      BY <1>6, <2>2
    <3> QED
      BY <3>1, <3>2, <3>3 DEF Inv, MembersAreClosed
  <2> QED
    BY <2>1, <2>2
<1>16. Disjoint'
  BY <1>6, <1>11 DEF Inv, TypeOK, Disjoint
<1> QED
  BY <1>12, <1>13, <1>14, <1>15, <1>16 DEF Inv

-----------------------------------------------------------------------------
LEMMA NextKeeps == ASSUME MayKeep = FALSE, Inv, [Next]_vars PROVE Inv'
<1>1. ASSUME NEW g \in Graphs, MergeNodes(g) PROVE Inv'
  <2>1. PICK merged \in (SUBSET members[g]) \ {{}} : Merge(g, merged)
    BY <1>1 DEF MergeNodes
  <2> QED
    BY <2>1, MergeKeeps
<1>2. CASE UNCHANGED vars
  BY <1>2 DEF vars, Inv, TypeOK, Reciprocal, BindingsFollowEdges, MembersAreClosed, Disjoint
<1> QED
  BY <1>1, <1>2, AddNodeKeeps, AddEdgeKeeps, SetInfoKeeps, DeepCopyKeeps DEF Next

THEOREM StoreInvariant == ASSUME MayKeep = FALSE PROVE Spec => []Inv
<1>1. Inv /\ [Next]_vars => Inv'
  BY NextKeeps
<1> QED
  BY InitInv, <1>1, PTL DEF Spec

(* GraphNN: the sets and the adjacency only ever hold nodes that were made.  *)
THEOREM TypeCorrect == ASSUME MayKeep = FALSE PROVE Spec => []TypeOK
<1>1. Inv => TypeOK
  BY DEF Inv
<1> QED
  BY StoreInvariant, <1>1, PTL

(* GraphView.hpp asks for reciprocal neighbours: whole copies and merges of   *)
(* any nodes keep both directions of every edge.                             *)
THEOREM NeighborsAreReciprocal == ASSUME MayKeep = FALSE PROVE Spec => []Reciprocal
<1>1. Inv => Reciprocal
  BY DEF Inv
<1> QED
  BY StoreInvariant, <1>1, PTL

(* No binding outlives its edge in mergeNodes, and every edge has one.       *)
THEOREM BindingsStay == ASSUME MayKeep = FALSE PROVE Spec => []BindingsFollowEdges
<1>1. Inv => BindingsFollowEdges
  BY DEF Inv
<1> QED
  BY StoreInvariant, <1>1, PTL

(* A graph never has an edge to a node it does not have, and a node that was  *)
(* merged away has none.                                                     *)
THEOREM GraphsAreClosed == ASSUME MayKeep = FALSE PROVE Spec => []MembersAreClosed
<1>1. Inv => MembersAreClosed
  BY DEF Inv
<1> QED
  BY StoreInvariant, <1>1, PTL

(* Whole copies do not share nodes: a merge or an info of one graph never     *)
(* shows in another.                                                         *)
THEOREM GraphsAreApart == ASSUME MayKeep = FALSE PROVE Spec => []Disjoint
<1>1. Inv => Disjoint
  BY DEF Inv
<1> QED
  BY StoreInvariant, <1>1, PTL
-----------------------------------------------------------------------------
(* The refinement of OperandGraph: the operands are the bindings that are    *)
(* stored, since every edge has one.                                         *)
Operands == {e \in Nodes \X Nodes \X Ports : e[3] \in Bindings(e[1], e[2])}

LEMMA BindingsAreStored ==
  ASSUME Inv, NEW a \in Nodes, NEW b \in Nodes PROVE Bindings(a, b) = connections[<<a, b>>]
BY DEF Bindings, Inv, BindingsFollowEdges

LEMMA FreshIsUnused == ASSUME Inv PROVE Fresh \subseteq Abstract!Unused
BY FreshIsIsolated DEF Fresh, Abstract!Unused

LEMMA InitRefines == Init => Abstract!Init
<1> SUFFICES ASSUME Init PROVE Abstract!Init
  OBVIOUS
<1>1. \A a, b \in Nodes : Bindings(a, b) = {}
  BY DEF Init, Bindings
<1> QED
  BY <1>1 DEF Init, Abstract!Init

LEMMA AddNodeRefines ==
  ASSUME Inv, NEW g \in Graphs, AddNode(g)
  PROVE  \E n \in Abstract!Unused : Abstract!Add(g, n)
<1>1. PICK n \in Fresh : members' = [members EXCEPT ![g] = @ \cup {n}]
  BY DEF AddNode
<1>2. UNCHANGED <<children, connections, info>>
  BY DEF AddNode
<1>3. Operands' = Operands
  BY <1>2 DEF Operands, Bindings
<1> QED
  BY <1>1, <1>2, <1>3, FreshIsUnused DEF Abstract!Add, Operands

LEMMA SetInfoRefines ==
  ASSUME Inv, NEW g \in Graphs, SetInfo(g)
  PROVE  \E n \in members[g], i \in Infos : Abstract!Set(n, i)
<1>1. UNCHANGED <<members, children, connections>>
  BY DEF SetInfo
<1>2. Operands' = Operands
  BY <1>1 DEF Operands, Bindings
<1> QED
  BY <1>1, <1>2 DEF SetInfo, Abstract!Set, Operands

LEMMA AddEdgeRefines ==
  ASSUME Inv, NEW g \in Graphs, AddEdge(g)
  PROVE  \E from, to \in members[g] \cup Abstract!Unused, ports \in Ports : Abstract!Connect(g, from, to, ports)
<1>1. PICK from \in members[g] \cup Fresh, to \in members[g] \cup Fresh, ports \in Ports :
        /\ members' = [members EXCEPT ![g] = @ \cup {from, to}]
        /\ children' = [children EXCEPT ![from] = @ \cup {to}]
        /\ connections' = [connections EXCEPT ![<<from, to>>] = @ \cup {ports}]
  BY DEF AddEdge
<1>2. info' = info
  BY DEF AddEdge
<1>3. from \in Nodes /\ to \in Nodes
  BY DEF Inv, TypeOK, Fresh
<1>4. Inv'
  BY AddEdgeKeeps
<1>5. \A a, b \in Nodes : Bindings(a, b)' = connections'[<<a, b>>]
  BY <1>4 DEF Bindings, Inv, BindingsFollowEdges
<1>6. ASSUME NEW a \in Nodes, NEW b \in Nodes
      PROVE  Bindings(a, b)' = Bindings(a, b) \cup (IF a = from /\ b = to THEN {ports} ELSE {})
  <2>1. connections'[<<a, b>>] = connections[<<a, b>>] \cup (IF a = from /\ b = to THEN {ports} ELSE {})
    BY <1>1, <1>3 DEF Inv, TypeOK
  <2> QED
    BY <1>5, <2>1, BindingsAreStored
<1>7. Operands' = Operands \cup {<<from, to, ports>>}
  BY <1>3, <1>6 DEF Operands
<1> QED
  BY <1>1, <1>2, <1>7, FreshIsUnused DEF Abstract!Connect, Operands

(* mergeNodes is a quotient: collecting the bindings of the merged nodes,    *)
(* removing every edge of theirs and adding the bindings again loses none to *)
(* an outer neighbour and no numbered one inside, and invents none.          *)
LEMMA MergeRefines ==
  ASSUME Inv, NEW g \in Graphs, NEW merged \in SUBSET members[g], merged # {}, Merge(g, merged)
  PROVE  \E m \in Abstract!Unused : Abstract!Merge(g, merged, m)
<1> DEFINE A == Outer(parents, merged)
           C == Outer(children, merged)
<1>1. PICK m \in Fresh :
        /\ connections' = [e \in Nodes \X Nodes |->
              (IF Erased(merged, A, C, e[1], e[2]) THEN {} ELSE connections[e])
                \cup {p \in Ports : <<e[1], e[2], p>> \in Numbered(merged, m)}]
        /\ members' = [members EXCEPT ![g] =
              (@ \ merged) \cup {m} \cup UNION {{o[1], o[2]} : o \in Numbered(merged, m)}]
        /\ \E i \in MergedInfos(merged) : info' = [info EXCEPT ![m] = i]
  BY DEF Merge
<1>2. merged \subseteq Nodes /\ m \in Nodes /\ m \notin merged
  BY DEF Inv, TypeOK, Fresh
<1>3. Inv'
  BY MergeKeeps
<1>4. ASSUME NEW a \in Nodes, NEW b \in Nodes
      PROVE  Bindings(a, b)' = (IF a \in merged \/ b \in merged THEN {} ELSE Bindings(a, b))
                                 \cup {p \in Ports : <<a, b, p>> \in Numbered(merged, m)}
  <2>1. Bindings(a, b)' = connections'[<<a, b>>]
    BY <1>3 DEF Bindings, Inv, BindingsFollowEdges
  <2>2. (IF Erased(merged, A, C, a, b) THEN {} ELSE connections[<<a, b>>])
          = (IF a \in merged \/ b \in merged THEN {} ELSE connections[<<a, b>>])
    <3>1. connections[<<a, b>>] # {} <=> b \in children[a]
      BY DEF Inv, BindingsFollowEdges
    <3>2. b \in children[a] => (Erased(merged, A, C, a, b) <=> a \in merged \/ b \in merged)
      BY DEF Erased, A, C, Outer, Inv, Reciprocal
    <3> QED
      BY <3>1, <3>2
  <2> QED
    BY <1>1, <2>1, <2>2, BindingsAreStored
<1>5. Operands' = Abstract!Quotient(merged, m)
  <2> DEFINE Kept == {o \in Operands : o[3] = Plain => o[1] \notin merged \/ o[2] \notin merged}
             Image(o) == <<Replace(o[1], merged, m), Replace(o[2], merged, m), o[3]>>
  <2>1. Abstract!Quotient(merged, m) = {Image(o) : o \in Kept}
    BY DEF Abstract!Quotient, Abstract!Replace, Replace, Operands
  <2>2. ASSUME NEW o \in Kept PROVE Image(o) \in Operands'
    <3>1. o \in Nodes \X Nodes \X Ports /\ o[3] \in Bindings(o[1], o[2])
      BY DEF Operands
    <3>2. Image(o) \in Nodes \X Nodes \X Ports
      BY <1>2, <3>1 DEF Replace
    <3>3. CASE o[1] \notin merged /\ o[2] \notin merged
      BY <1>4, <3>1, <3>3 DEF Operands, Replace
    <3>4. CASE o[1] \in merged \/ o[2] \in merged
      <4>1. o[2] \in children[o[1]]
        BY <3>1 DEF Bindings
      <4>2. o[1] \in merged \cup UNION {parents[n] : n \in merged}
        BY <3>1, <3>4, <4>1 DEF Inv, Reciprocal
      <4>3. Image(o) \in Numbered(merged, m)
        BY <3>1, <3>4, <4>2 DEF Numbered
      <4> QED
        BY <1>4, <3>2, <4>3 DEF Operands
    <3> QED
      BY <3>3, <3>4
  <2>3. ASSUME NEW o \in Operands' PROVE \E k \in Kept : o = Image(k)
    <3>1. o \in Nodes \X Nodes \X Ports /\ o[3] \in Bindings(o[1], o[2])'
      BY DEF Operands
    <3>2. CASE o \in Numbered(merged, m)
      <4>1. PICK e \in (merged \cup UNION {parents[n] : n \in merged}) \X Nodes \X Ports :
              /\ o = Image(e)
              /\ e[3] \in Bindings(e[1], e[2])
              /\ e[3] = Plain => e[1] \notin merged \/ e[2] \notin merged
        BY <3>2 DEF Numbered
      <4>2. e[1] \in Nodes
        BY <1>2 DEF Inv, TypeOK
      <4> QED
        BY <4>1, <4>2 DEF Operands
    <3>3. CASE o \notin Numbered(merged, m)
      <4>1. o[1] \notin merged /\ o[2] \notin merged /\ o[3] \in Bindings(o[1], o[2])
        BY <1>4, <3>1, <3>3
      <4> QED
        BY <3>1, <4>1 DEF Operands, Replace
    <3> QED
      BY <3>2, <3>3
  <2> QED
    BY <2>1, <2>2, <2>3
<1>6. members' = [members EXCEPT ![g] = (@ \ merged) \cup {m}]
  <2>1. UNION {{o[1], o[2]} : o \in Numbered(merged, m)} \subseteq (members[g] \ merged) \cup {m}
    BY NumberedEnds
  <2> QED
    BY <1>1, <2>1
<1>7. \E n \in merged : info' = [info EXCEPT ![m] = info[n]] /\ (info[n] = NoInfo => \A k \in merged : info[k] = NoInfo)
  <2>1. CASE \A n \in merged : info[n] = NoInfo
    BY <1>1, <2>1 DEF MergedInfos
  <2>2. CASE ~ \A n \in merged : info[n] = NoInfo
    <3>1. PICK i \in MergedInfos(merged) : info' = [info EXCEPT ![m] = i]
      BY <1>1
    <3>2. PICK n \in merged : i = info[n] /\ i # NoInfo
      BY <2>2, <3>1 DEF MergedInfos
    <3> QED
      BY <3>1, <3>2
  <2> QED
    BY <2>1, <2>2
<1> QED
  BY <1>5, <1>6, <1>7, FreshIsUnused DEF Abstract!Merge, Operands

(* A whole copy is isomorphic to its original, and changes nothing else.     *)
LEMMA DeepCopyRefines ==
  ASSUME Inv, NEW g \in Graphs, NEW h \in Graphs, DeepCopy(g, h, {})
  PROVE  \E f \in Abstract!Injections(members[g], Abstract!Unused) : Abstract!Copy(g, h, f)
<1> DEFINE M == members[g]
<1>1. PICK copy \in Injections(M, Fresh) : CopyInto(g, h, copy)
  BY WholeGraphReached DEF DeepCopy
<1> DEFINE Copies == {copy[n] : n \in M}
<1>2. /\ copy \in [M -> Fresh] /\ DOMAIN copy = M
      /\ \A a, b \in M : copy[a] = copy[b] => a = b
      /\ M \subseteq created /\ created \subseteq Nodes /\ Copies \subseteq Fresh
  BY DEF Injections, Inv, TypeOK
<1>3. copy \in Abstract!Injections(M, Abstract!Unused)
  BY <1>2, FreshIsUnused DEF Abstract!Injections
<1>4. members' = [members EXCEPT ![h] = Copies]
  <2> DEFINE image == [n \in created |-> IF n \in DOMAIN copy THEN copy[n] ELSE n]
  <2>1. members' = [members EXCEPT ![h] = {image[n] : n \in M}]
    BY <1>1 DEF CopyInto
  <2>2. {image[n] : n \in M} = Copies
    BY <1>2
  <2> QED
    BY <2>1, <2>2
<1>5. info' = [n \in Nodes |-> IF {a \in DOMAIN copy : copy[a] = n} = {} THEN info[n]
                               ELSE info[CHOOSE a \in DOMAIN copy : copy[a] = n]]
  BY <1>1 DEF CopyInto
<1>6. ASSUME NEW a \in M PROVE info'[copy[a]] = info[a]
  <2>1. a = CHOOSE c \in DOMAIN copy : copy[c] = copy[a]
    BY <1>2
  <2> QED
    BY <1>2, <1>5, <2>1 DEF Fresh
<1>7. ASSUME NEW n \in UNION {members[k] : k \in Graphs} PROVE info'[n] = info[n]
  <2>1. n \in Nodes /\ n \notin Copies
    BY <1>2, FreshIsIsolated DEF Inv, TypeOK
  <2> QED
    BY <1>2, <1>5, <2>1
<1>8. Inv'
  BY DeepCopyKeeps
<1>9. Operands' = {e \in Nodes \X Nodes \X Ports : e[3] \in connections'[<<e[1], e[2]>>]}
  BY <1>8 DEF Operands, Bindings, Inv, BindingsFollowEdges
<1>10. Operands' = Operands \cup {<<copy[o[1]], copy[o[2]], o[3]>> : o \in {o \in Operands : o[1] \in M}}
  <2> DEFINE Image(o) == <<copy[o[1]], copy[o[2]], o[3]>>
             Originals == {o \in Operands : o[1] \in M}
  <2>1. Copies \subseteq Nodes
    BY <1>2 DEF Fresh
  <2>2. \A a \in M : children[a] \subseteq M
    BY <1>2 DEF Inv, MembersAreClosed
  <2>3. ASSUME NEW o \in Operands PROVE o \in Operands'
    <3>1. o \in Nodes \X Nodes \X Ports /\ o[3] \in Bindings(o[1], o[2])
      BY DEF Operands
    <3>2. o[1] \notin Copies
      BY <1>2, <3>1, FreshIsIsolated DEF Bindings
    <3>3. connections'[<<o[1], o[2]>>] = Bindings(o[1], o[2])
      BY <1>1, <3>1, <3>2, CopyConnects, BindingsAreStored
    <3> QED
      BY <1>9, <3>1, <3>3
  <2>4. ASSUME NEW o \in Originals PROVE Image(o) \in Operands'
    <3>1. o \in Nodes \X Nodes \X Ports /\ o[3] \in Bindings(o[1], o[2]) /\ o[1] \in M
      BY DEF Operands
    <3>2. o[2] \in M
      BY <2>2, <3>1 DEF Bindings
    <3>3. connections'[<<copy[o[1]], copy[o[2]]>>] = Bindings(o[1], o[2])
      BY <1>1, <3>1, <3>2, CopyConnects
    <3> QED
      BY <1>9, <2>1, <3>1, <3>2, <3>3
  <2>5. ASSUME NEW o \in Operands' PROVE o \in Operands \/ \E k \in Originals : o = Image(k)
    <3>1. o \in Nodes \X Nodes \X Ports /\ o[3] \in connections'[<<o[1], o[2]>>]
      BY <1>9
    <3>2. CASE o[1] \notin Copies
      BY <1>1, <3>1, <3>2, CopyConnects, BindingsAreStored DEF Operands
    <3>3. CASE o[1] \in Copies /\ o[2] \notin Copies
      BY <1>1, <3>1, <3>3, CopyConnects
    <3>4. CASE o[1] \in Copies /\ o[2] \in Copies
      <4>1. PICK a \in M, b \in M : o[1] = copy[a] /\ o[2] = copy[b]
        BY <3>4
      <4>2. o[3] \in Bindings(a, b)
        BY <1>1, <3>1, <4>1, CopyConnects
      <4>3. <<a, b, o[3]>> \in Originals
        BY <1>2, <3>1, <4>2 DEF Operands
      <4>4. o = Image(<<a, b, o[3]>>)
        BY <3>1, <4>1
      <4> QED
        BY <4>3, <4>4
    <3> QED
      BY <3>2, <3>3, <3>4
  <2> QED
    BY <2>3, <2>4, <2>5
<1> QED
  BY <1>3, <1>4, <1>6, <1>7, <1>10 DEF Abstract!Copy, Operands

LEMMA NextRefines ==
  ASSUME MayKeep = FALSE, Inv, [Next]_vars PROVE [Abstract!Next]_(Abstract!vars)
<1>1. ASSUME NEW g \in Graphs, MergeNodes(g) PROVE Abstract!Next
  <2>1. PICK merged \in (SUBSET members[g]) \ {{}} : Merge(g, merged)
    BY <1>1 DEF MergeNodes
  <2> QED
    BY <2>1, MergeRefines DEF Abstract!Next
<1>2. ASSUME NEW g \in Graphs, NEW h \in Graphs, DeepCopy(g, h, {}) PROVE Abstract!Next
  BY <1>2, DeepCopyRefines DEF Abstract!Next, DeepCopy
<1>3. ASSUME NEW g \in Graphs, AddNode(g) PROVE Abstract!Next
  BY <1>3, AddNodeRefines DEF Abstract!Next
<1>4. ASSUME NEW g \in Graphs, AddEdge(g) PROVE Abstract!Next
  BY <1>4, AddEdgeRefines DEF Abstract!Next
<1>5. ASSUME NEW g \in Graphs, SetInfo(g) PROVE Abstract!Next
  BY <1>5, SetInfoRefines DEF Abstract!Next
<1>6. CASE UNCHANGED vars
  <2>1. Operands' = Operands /\ UNCHANGED <<members, info>>
    BY <1>6 DEF vars, Operands, Bindings
  <2> QED
    BY <2>1 DEF Abstract!vars, Operands
<1> QED
  BY <1>1, <1>2, <1>3, <1>4, <1>5, <1>6 DEF Next

(* Sets of nodes with operand uses are what callers of GraphNN may think of: *)
(* additions, infos, merges of any nodes and whole copies are the operations *)
(* of OperandGraph, whatever order they come in.                             *)
THEOREM StoreImplementsOperandGraph == ASSUME MayKeep = FALSE PROVE Spec => ImplementsOperandGraph
<1>1. Inv /\ [Next]_vars => [Abstract!Next]_(Abstract!vars)
  BY NextRefines
<1> QED
  BY InitRefines, <1>1, StoreInvariant, PTL DEF Spec, ImplementsOperandGraph, Abstract!Spec

=============================================================================
