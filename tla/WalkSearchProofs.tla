--------------------------- MODULE WalkSearchProofs ---------------------------
(***************************************************************************)
(* Theorems about WalkSearch for every graph and every automaton, whatever  *)
(* pattern it came from: types, the consistency of captures and anchors     *)
(* within a walk, and what dropping walks by their keys loses.              *)
(***************************************************************************)
EXTENDS WalkSearch, FiniteSetTheorems, SequenceTheorems, WellFoundedInduction, TLAPS

-----------------------------------------------------------------------------
(* Library facts in the form the proofs need.                               *)

(* A nonempty set of naturals and the mark of no node has a least element. *)
LEMMA MinMember ==
  ASSUME NEW S, S \subseteq Nat \cup {-1}, S # {}
  PROVE  Min(S) \in S
<1> DEFINE T == {n \in Nat : n - 1 \in S}
           R == {ss \in Nat \X Nat : ss[1] < ss[2]}
<1>1. T \subseteq Nat /\ T # {}
  <2>1. PICK n \in S : n \in Nat \cup {-1}
    OBVIOUS
  <2>2. n + 1 \in T
    BY <2>1
  <2>3. QED
    BY <2>2
<1>2. IsWellFoundedOn(R, Nat)
  BY NatLessThanWellFounded DEF OpToRel
<1>3. PICK x \in T : \A y \in T : ~ (<<y, x>> \in R)
  <2> HIDE DEF R, T
  <2>1. QED
    BY <1>1, <1>2, WFMin
<1>4. ASSUME NEW y \in T PROVE x <= y
  <2>1. ~ (<<y, x>> \in R)
    BY <1>3
  <2>2. ~ (y < x)
    BY <2>1
  <2>3. QED
    BY <2>2
<1>5. x - 1 \in S
  BY <1>3
<1>6. ASSUME NEW n \in S PROVE x - 1 <= n
  <2>1. n + 1 \in T
    OBVIOUS
  <2>2. QED
    BY <1>4, <2>1
<1>7. QED
  BY <1>5, <1>6 DEF Min

(* A nonempty set of naturals has a least element. *)
LEMMA LeastElement ==
  ASSUME NEW S, S \subseteq Nat, S # {}
  PROVE  \E x \in S : \A y \in S : x <= y
<1> DEFINE R == {ss \in Nat \X Nat : ss[1] < ss[2]}
<1>1. IsWellFoundedOn(R, Nat)
  BY NatLessThanWellFounded DEF OpToRel
<1>2. PICK x \in S : \A y \in S : ~ (<<y, x>> \in R)
  <2> HIDE DEF R
  <2>1. QED
    BY <1>1, WFMin
<1>3. ASSUME NEW y \in S PROVE x <= y
  <2>1. ~ (<<y, x>> \in R) /\ x \in Nat /\ y \in Nat
    BY <1>2
  <2>2. ~ (y < x)
    BY <2>1
  <2>3. QED
    BY <2>1, <2>2
<1>4. QED
  BY <1>3

(* What holds at 0 and passes from a number to the next holds up to K. *)
LEMMA UpTo ==
  ASSUME NEW K \in Nat, NEW T, 0 \in T, \A k \in 0 .. K - 1 : k \in T => k + 1 \in T
  PROVE  0 .. K \subseteq T
<1> SUFFICES ASSUME (0 .. K) \ T # {} PROVE FALSE
  OBVIOUS
<1> DEFINE U == (0 .. K) \ T
<1>1. PICK x \in U : \A y \in U : x <= y
  <2>1. U \subseteq Nat /\ U # {}
    OBVIOUS
  <2> HIDE DEF U
  <2> QED
    BY <2>1, LeastElement
<1>2. x \in 0 .. K /\ x \notin T /\ x # 0
  BY <1>1
<1>3. x - 1 \in 0 .. K - 1 /\ x - 1 \in 0 .. K /\ ~ (x <= x - 1) /\ (x - 1) + 1 = x
  BY <1>2
<1>4. x - 1 \in T
  BY <1>1, <1>3
<1> QED
  BY <1>2, <1>3, <1>4

(* What appending does to a sequence and to the set of its elements. *)
LEMMA Appended ==
  ASSUME NEW S, NEW s \in Seq(S), NEW e \in S
  PROVE  /\ Append(s, e) \in Seq(S)
         /\ Len(s) \in Nat /\ DOMAIN s = 1 .. Len(s)
         /\ Len(Append(s, e)) = Len(s) + 1
         /\ DOMAIN Append(s, e) = 1 .. Len(s) + 1
         /\ \A i \in 1 .. Len(s) : Append(s, e)[i] = s[i]
         /\ Append(s, e)[Len(s) + 1] = e
         /\ ToSet(Append(s, e)) = ToSet(s) \cup {e}
<1>1. /\ Append(s, e) \in Seq(S)
      /\ Len(s) \in Nat /\ DOMAIN s = 1 .. Len(s)
      /\ Len(Append(s, e)) = Len(s) + 1
      /\ DOMAIN Append(s, e) = 1 .. Len(s) + 1
      /\ \A i \in 1 .. Len(s) : Append(s, e)[i] = s[i]
      /\ Append(s, e)[Len(s) + 1] = e
  OBVIOUS
<1>2. ToSet(Append(s, e)) = ToSet(s) \cup {e}
  <2> DEFINE t == Append(s, e)
  <2> HIDE DEF t
  <2>1. ASSUME NEW x \in ToSet(t) PROVE x \in ToSet(s) \cup {e}
    <3>1. PICK i \in 1 .. Len(s) + 1 : x = t[i]
      BY <1>1 DEF ToSet, t
    <3>2. CASE i = Len(s) + 1
      BY <1>1, <3>1, <3>2 DEF t
    <3>3. CASE i \in 1 .. Len(s)
      BY <1>1, <3>1, <3>3 DEF ToSet, t
    <3>4. QED
      BY <1>1, <3>2, <3>3
  <2>2. ASSUME NEW x \in ToSet(s) \cup {e} PROVE x \in ToSet(t)
    <3>1. CASE x = e
      BY <1>1, <3>1 DEF ToSet, t
    <3>2. CASE x \in ToSet(s)
      <4>1. PICK i \in 1 .. Len(s) : x = s[i]
        BY <1>1, <3>2 DEF ToSet
      <4>2. i \in 1 .. Len(s) + 1 /\ t[i] = x
        BY <1>1, <4>1 DEF t
      <4>3. QED
        BY <1>1, <4>2 DEF ToSet, t
    <3>3. QED
      BY <3>1, <3>2
  <2>3. QED
    BY <2>1, <2>2 DEF t
<1>3. QED
  BY <1>1, <1>2

(* What taking the last element away does. *)
LEMMA Shortened ==
  ASSUME NEW S, NEW s \in Seq(S), s # <<>>
  PROVE  /\ Front(s) \in Seq(S)
         /\ Len(s) \in Nat /\ Len(s) > 0 /\ DOMAIN s = 1 .. Len(s)
         /\ Len(Front(s)) = Len(s) - 1
         /\ DOMAIN Front(s) = 1 .. Len(s) - 1
         /\ \A i \in 1 .. Len(s) - 1 : Front(s)[i] = s[i]
         /\ Last(s) \in S /\ Last(s) = s[Len(s)]
<1>1. Len(s) \in Nat /\ Len(s) > 0 /\ DOMAIN s = 1 .. Len(s)
  <2>1. Len(s) # 0
    BY EmptySeq
  <2>2. QED
    BY <2>1
<1>2. Len(s) - 1 \in 0 .. Len(s)
  BY <1>1
<1>3. /\ Front(s) \in Seq(S) /\ Len(Front(s)) = Len(s) - 1
      /\ \A i \in 1 .. Len(s) - 1 : Front(s)[i] = s[i]
  BY <1>1, <1>2 DEF Front
<1>4. QED
  BY <1>1, <1>3 DEF Last

(* A sequence has finitely many elements. *)
LEMMA ElementsFinite ==
  ASSUME NEW S, NEW s \in Seq(S)
  PROVE  IsFiniteSet(ToSet(s))
<1>1. s \in Surjection(1 .. Len(s), ToSet(s))
  BY DEF Surjection, ToSet
<1>2. IsFiniteSet(1 .. Len(s))
  BY FS_Interval
<1>3. QED
  BY <1>1, <1>2, FS_Surjection

-----------------------------------------------------------------------------
(***************************************************************************)
(* What every walk keeps: its type, its place in the graph, invocations     *)
(* that exist, and consistent captures.                                     *)
(***************************************************************************)
Typed(nodes, w) ==
  /\ w \in Walks
  /\ ValidNodes(w) \cup w.rejected \cup {w.node} \subseteq nodes \cup {NoNode}
  /\ \A k \in DOMAIN w.active : w.active[k].at \in DOMAIN w.quantifiers

Sound(nodes, w) == Typed(nodes, w) /\ PlainOnce(w) /\ AnchorsAgree(w)

(* A step that leaves captures and anchors alone keeps them consistent. *)
LEMMA SameCaptures ==
  ASSUME NEW nodes, NEW v, Sound(nodes, v), NEW w, Typed(nodes, w),
         w.captures = v.captures, w.commons = v.commons
  PROVE  Sound(nodes, w)
  BY DEF Sound, PlainOnce, AnchorsAgree, CommonNodes, ValidNodes

(* Capturing the node where the walk stands, when it is new or common: no  *)
(* node is captured twice without an anchor, and nothing throws.           *)
LEMMA SetValidKeeps ==
  ASSUME NEW nodes, nodes \subseteq Nat, NEW w, Typed(nodes, w), PlainOnce(w),
         \A m, n \in w.commons : m.id = n.id <=> m.node = n.node,
         CommonNodes(w) \subseteq ValidNodes(w) \cup {w.node},
         w.node \in nodes, w.node \in ValidNodes(w) => w.node \in CommonNodes(w),
         NEW predicate \in STRING
  PROVE  /\ Sound(nodes, SetValid(w, w.node, predicate))
         /\ SetValid(w, w.node, predicate).threw = w.threw
<1> DEFINE c == [node |-> w.node, predicate |-> predicate]
           v == SetValid(w, w.node, predicate)
           C == [node : Nat, predicate : STRING]
<1>1. w \in Walks /\ w.captures \in Seq(C) /\ c \in C
  BY DEF Typed, Walks
<1>2. v = [w EXCEPT !.captures = Append(w.captures, c), !.threw = w.threw]
  BY <1>1 DEF SetValid, CapturedTwice, PlainNodes, Walks
<1> DEFINE t == Append(w.captures, c)
<1>3. /\ t \in Seq(C) /\ Len(w.captures) \in Nat
      /\ DOMAIN w.captures = 1 .. Len(w.captures)
      /\ DOMAIN t = 1 .. Len(w.captures) + 1
      /\ \A i \in 1 .. Len(w.captures) : t[i] = w.captures[i]
      /\ t[Len(w.captures) + 1] = c
      /\ ToSet(t) = ToSet(w.captures) \cup {c}
  <2> HIDE DEF c, C
  <2>1. QED
    BY <1>1, Appended
<1> HIDE DEF t, v
<1>4. v \in Walks /\ v.captures = t /\ v.commons = w.commons /\ v.node = w.node
      /\ v.rejected = w.rejected /\ v.active = w.active /\ v.quantifiers = w.quantifiers
      /\ v.threw = w.threw
  BY <1>1, <1>2, <1>3 DEF Walks, t
<1>5. ValidNodes(v) = ValidNodes(w) \cup {w.node} /\ CommonNodes(v) = CommonNodes(w)
  BY <1>3, <1>4 DEF ValidNodes, CommonNodes
<1>6. Typed(nodes, v)
  BY <1>4, <1>5 DEF Typed
<1>7. PlainOnce(v)
  <2> SUFFICES ASSUME NEW i \in DOMAIN t, NEW j \in DOMAIN t, i # j, t[i].node = t[j].node
               PROVE  t[i].node \in CommonNodes(w)
    BY <1>4, <1>5 DEF PlainOnce
  <2>1. ASSUME NEW k \in 1 .. Len(w.captures) PROVE w.captures[k].node \in ValidNodes(w)
    BY <1>3 DEF ValidNodes, ToSet
  <2>2. CASE i \in 1 .. Len(w.captures) /\ j \in 1 .. Len(w.captures)
    BY <1>3, <2>2 DEF PlainOnce
  <2>3. CASE i = Len(w.captures) + 1 \/ j = Len(w.captures) + 1
    <3>1. t[i].node = w.node
      BY <1>3, <2>3
    <3>2. w.node \in ValidNodes(w)
      BY <1>3, <2>1, <2>3
    <3>3. QED
      BY <3>1, <3>2
  <2>4. \A n \in Nat : \A k \in 1 .. n + 1 : k \in 1 .. n \/ k = n + 1
    OBVIOUS
  <2>5. QED
    BY <1>3, <2>2, <2>3, <2>4
<1>8. AnchorsAgree(v)
  BY <1>4, <1>5 DEF AnchorsAgree
<1>9. QED
  BY <1>4, <1>6, <1>7, <1>8 DEF Sound, v
(* Binding an identity when MayBind allows it: identities and nodes stay    *)
(* one to one, and nothing throws.                                          *)
LEMMA SetCommonKeeps ==
  ASSUME NEW nodes, nodes \subseteq Nat, NEW w, Sound(nodes, w),
         w.node \in nodes, NEW id \in Nat, MayBind(w, id)
  PROVE  LET v == SetCommon(w, w.node, id)
         IN  /\ v \in Walks
             /\ v = [w EXCEPT !.commons = w.commons \cup {[node |-> w.node, id |-> id]}]
             /\ \A m, n \in v.commons : m.id = n.id <=> m.node = n.node
<1> DEFINE a == [node |-> w.node, id |-> id]
           holders == {m.node : m \in {m \in w.commons : m.id = id}}
           v == SetCommon(w, w.node, id)
<1>1. w \in Walks /\ w.commons \subseteq [node : Nat, id : Nat] /\ a \in [node : Nat, id : Nat]
  BY DEF Sound, Typed, Walks
<1>2. CASE holders = {}
  <2>1. w.node \notin CommonNodes(w)
    BY <1>2 DEF MayBind, CommonNodeFromIdx
  <2>2. v = [w EXCEPT !.commons = w.commons \cup {a}]
    BY <1>1, <2>1 DEF SetCommon, Walks
  <2>3. \A m \in w.commons : m.id # id /\ m.node # w.node
    BY <1>2, <2>1 DEF CommonNodes
  <2>4. \A m, n \in w.commons \cup {a} : m.id = n.id <=> m.node = n.node
    BY <2>3 DEF Sound, AnchorsAgree
  <2>5. w.commons \cup {a} \subseteq [node : Nat, id : Nat]
    BY <1>1
  <2>6. [w EXCEPT !.commons = w.commons \cup {a}] \in Walks
    <3> HIDE DEF a
    <3>1. QED
      BY <1>1, <2>5 DEF Walks
  <2>7. v.commons = w.commons \cup {a}
    <3> HIDE DEF a, v
    <3>1. QED
      BY <1>1, <2>2 DEF Walks
  <2>8. QED
    BY <2>2, <2>4, <2>6, <2>7
<1>3. CASE holders # {}
  <2>1. holders \subseteq Nat
    BY <1>1
  <2>2. Min(holders) \in holders
    BY <1>3, <2>1, MinMember
  <2>3. Min(holders) = w.node
    BY <1>3, <2>1, <2>2 DEF MayBind, CommonNodeFromIdx, NoNode
  <2>4. a \in w.commons
    BY <1>1, <2>2, <2>3
  <2>5. v = [w EXCEPT !.commons = w.commons \cup {a}]
    BY <1>1, <2>4 DEF SetCommon, CommonNodes, Walks
  <2>6. w.commons \cup {a} = w.commons
    BY <2>4
  <2>7. QED
    BY <1>1, <2>5, <2>6 DEF Sound, AnchorsAgree, Walks
<1>4. QED
  BY <1>2, <1>3

-----------------------------------------------------------------------------
(***************************************************************************)
(* What a transition does to a sound walk.                                  *)
(***************************************************************************)
IsGraph(g) == g.nodes \subseteq Nat

Answers(g, result) ==
  /\ Sound(g.nodes, result.walk)
  /\ result.nodes \subseteq g.nodes
  /\ result.success \in BOOLEAN

(* Refusing a walk, or letting it go on from nodes of the graph. *)
LEMMA Outcomes ==
  ASSUME NEW g, NEW w, Sound(g.nodes, w)
  PROVE  /\ Answers(g, Refuse(w))
         /\ \A nodes \in SUBSET g.nodes : Answers(g, GoTo(w, nodes))
         /\ Answers(g, StayPut(w))
<1>1. w.node \in g.nodes \cup {NoNode}
  BY DEF Sound, Typed
<1>2. QED
  BY <1>1 DEF Answers, Refuse, GoTo, StayPut

(* The next nodes are nodes of the graph. *)
LEMMA NextNodesInGraph ==
  ASSUME NEW g, NEW w, NEW label
  PROVE  NextNodes(g, w, label) \in SUBSET g.nodes
  BY DEF NextNodes, Children, Parents

(* A plain occurrence. *)
LEMMA UniqueKeeps ==
  ASSUME NEW g, IsGraph(g), NEW w, Sound(g.nodes, w), NEW label \in Labels, label.type = "UNIQUE"
  PROVE  Answers(g, TestUnique(g, w, label))
<1>1. CASE /\ w.node # NoNode
           /\ w.node \notin ValidNodes(w)
           /\ label.predicate \in g.satisfies[w.node]
           /\ Cardinality(Children(g, w.node)) <= 1
           /\ Cardinality(Parents(g, w.node)) <= 1
  <2>1. w.node \in g.nodes /\ label.predicate \in STRING
    BY <1>1 DEF Sound, Typed, Labels, Empty, Null, Alternative
  <2>2. Sound(g.nodes, SetValid(w, w.node, label.predicate))
    <3>1. /\ Typed(g.nodes, w) /\ PlainOnce(w) /\ g.nodes \subseteq Nat
          /\ \A m, n \in w.commons : m.id = n.id <=> m.node = n.node
          /\ CommonNodes(w) \subseteq ValidNodes(w) \cup {w.node}
      BY DEF Sound, AnchorsAgree, IsGraph
    <3>2. QED
      BY <1>1, <2>1, <3>1, SetValidKeeps
  <2>3. Answers(g, GoTo(SetValid(w, w.node, label.predicate), NextNodes(g, w, label)))
    BY <2>2, Outcomes, NextNodesInGraph
  <2>4. QED
    BY <1>1, <2>3 DEF TestUnique
<1>2. QED
  BY <1>1, Outcomes DEF TestUnique

(* A common occurrence, strict or not. *)
LEMMA CommonKeeps ==
  ASSUME NEW g, IsGraph(g), NEW w, Sound(g.nodes, w), NEW label \in Labels, label.type = "COMMON"
  PROVE  Answers(g, TestCommon(g, w, label))
<1> DEFINE bound == SetCommon(w, w.node, label.id)
           captured == SetValid(bound, w.node, label.predicate)
           covered == (IF label.inputs THEN Parents(g, w.node) ELSE {})
                        \cup (IF label.outputs THEN Children(g, w.node) ELSE {})
<1>1. CASE w.node # NoNode /\ label.predicate \in g.satisfies[w.node] /\ MayBind(w, label.id)
  <2>1. w.node \in g.nodes /\ label.predicate \in STRING /\ label.id \in Nat
    BY <1>1 DEF Sound, Typed, Labels, Empty, Null, Alternative
  <2>2. /\ bound \in Walks
        /\ bound = [w EXCEPT !.commons = w.commons \cup {[node |-> w.node, id |-> label.id]}]
        /\ \A m, n \in bound.commons : m.id = n.id <=> m.node = n.node
    BY <1>1, <2>1, SetCommonKeeps DEF IsGraph
  <2>3. /\ bound.captures = w.captures /\ bound.node = w.node /\ bound.rejected = w.rejected
        /\ bound.active = w.active /\ bound.quantifiers = w.quantifiers
        /\ bound.commons = w.commons \cup {[node |-> w.node, id |-> label.id]}
    BY <2>2 DEF Sound, Typed, Walks
  <2>4. ValidNodes(bound) = ValidNodes(w) /\ CommonNodes(bound) = CommonNodes(w) \cup {w.node}
    <3> HIDE DEF bound
    <3>1. ValidNodes(bound) = ValidNodes(w)
      BY <2>3 DEF ValidNodes
    <3> DEFINE a == [node |-> w.node, id |-> label.id]
    <3>2. bound.commons = w.commons \cup {a} /\ a.node = w.node
      BY <2>3
    <3>3. {m.node : m \in w.commons \cup {a}} = {m.node : m \in w.commons} \cup {a.node}
      <4> HIDE DEF a
      <4>1. QED
        OBVIOUS
    <3>4. QED
      BY <3>1, <3>2, <3>3 DEF CommonNodes
  <2>5. Typed(g.nodes, bound)
    BY <2>2, <2>3, <2>4 DEF Sound, Typed
  <2>6. PlainOnce(bound)
    BY <2>3, <2>4 DEF Sound, PlainOnce
  <2>7. Sound(g.nodes, captured)
    <3>1. CommonNodes(bound) \subseteq ValidNodes(bound) \cup {bound.node}
      BY <2>3, <2>4 DEF Sound, AnchorsAgree
    <3>2. QED
      BY <2>1, <2>2, <2>3, <2>4, <2>5, <2>6, <3>1, SetValidKeeps DEF IsGraph
  <2>8. Sound(g.nodes, Reject(captured, covered))
    <3> HIDE DEF captured
    <3>1. covered \subseteq g.nodes
      BY DEF Children, Parents
    <3> DEFINE r == Reject(captured, covered)
    <3>2. /\ r \in Walks /\ r.captures = captured.captures /\ r.commons = captured.commons
          /\ r.node = captured.node /\ r.rejected = captured.rejected \cup covered
          /\ r.active = captured.active /\ r.quantifiers = captured.quantifiers
      BY <2>7, <3>1 DEF Sound, Typed, Walks, Reject, IsGraph
    <3>3. Typed(g.nodes, r)
      <4> HIDE DEF r
      <4>1. ValidNodes(r) = ValidNodes(captured)
        BY <3>2 DEF ValidNodes
      <4>2. QED
        BY <2>7, <3>1, <3>2, <4>1 DEF Sound, Typed
    <3>4. QED
      BY <2>7, <3>2, <3>3, SameCaptures
  <2>9. Answers(g, GoTo(Reject(captured, covered), NextNodes(g, w, label)))
    BY <2>8, Outcomes, NextNodesInGraph
  <2>10. QED
    BY <1>1, <2>9 DEF TestCommon
<1>2. QED
  BY <1>1, Outcomes DEF TestCommon

(* The way back to a repeated body. *)
LEMMA RefKeeps ==
  ASSUME NEW g, IsGraph(g), NEW w, Sound(g.nodes, w), NEW label \in Labels, label.type = "REF"
  PROVE  Answers(g, TestRef(g, w, label))
<1> DEFINE id == label.anchor.id
           holders == {m.node : m \in {m \in w.commons : m.id = id}}
           from == CommonNodeFromIdx(w, id)
           nodes == (IF 0 \in label.anchor.deltas THEN {from} ELSE {})
                      \cup SideOf(g, from, label.anchor, TRUE)
                      \cup SideOf(g, from, label.anchor, FALSE)
<1>1. CASE from # NoNode
  <2>1. holders # {} /\ from = Min(holders)
    BY <1>1 DEF CommonNodeFromIdx
  <2>2. holders \subseteq CommonNodes(w) /\ CommonNodes(w) \subseteq Nat
    BY DEF CommonNodes, Sound, Typed, Walks
  <2>3. from \in CommonNodes(w)
    <3> HIDE DEF holders, from
    <3>1. QED
      BY <2>1, <2>2, MinMember
  <2>4. from \in g.nodes
    BY <1>1, <2>3 DEF Sound, AnchorsAgree, Typed
  <2>5. nodes \in SUBSET g.nodes
    BY <2>4 DEF SideOf
  <2>6. Answers(g, GoTo(w, nodes))
    BY <2>5, Outcomes
  <2>7. QED
    BY <1>1, <2>6 DEF TestRef
<1>2. CASE from = NoNode
  BY <1>2, Outcomes DEF TestRef
<1>3. QED
  BY <1>1, <1>2

-----------------------------------------------------------------------------
(* The bookkeeping of quantifiers and of numbered arrows.                   *)
Invocations == [index : Nat, symbol : {"+", "*", "?"}, parent : Nat, pass : Nat,
                begin : Nat, end : Nat, ends : Seq(Nat)]
Opened == [at : Nat \ {0}, size : Nat]

(* What the operations below read of a sound walk. *)
LEMMA Parts ==
  ASSUME NEW nodes, NEW w, Sound(nodes, w)
  PROVE  /\ w \in Walks
         /\ w.quantifiers \in Seq(Invocations) /\ w.active \in Seq(Opened) /\ w.scopes \in Seq(Nat)
         /\ Len(w.captures) \in Nat
         /\ Cardinality(ValidNodes(w)) \in Nat
         /\ \A k \in DOMAIN w.active : w.active[k].at \in DOMAIN w.quantifiers
         /\ w.active # <<>> => /\ Last(w.active) \in Opened
                              /\ Last(w.active).at \in DOMAIN w.quantifiers
                              /\ Len(w.active) \in DOMAIN w.active
<1>1. w \in Walks /\ \A k \in DOMAIN w.active : w.active[k].at \in DOMAIN w.quantifiers
  BY DEF Sound, Typed
<1>2. /\ w.quantifiers \in Seq(Invocations) /\ w.active \in Seq(Opened) /\ w.scopes \in Seq(Nat)
      /\ w.captures \in Seq([node : Nat, predicate : STRING])
  BY <1>1 DEF Walks, Invocations, Opened
<1>3. Len(w.captures) \in Nat
  BY <1>2
<1>4. Cardinality(ValidNodes(w)) \in Nat
  <2> DEFINE N == [i \in 1 .. Len(w.captures) |-> w.captures[i].node]
  <2>1. DOMAIN w.captures = 1 .. Len(w.captures)
    BY <1>2
  <2>2. ASSUME NEW n \in ValidNodes(w) PROVE \E i \in 1 .. Len(w.captures) : N[i] = n
    <3>1. PICK c \in ToSet(w.captures) : n = c.node
      BY DEF ValidNodes
    <3>2. PICK i \in 1 .. Len(w.captures) : c = w.captures[i]
      BY <2>1 DEF ToSet
    <3>3. QED
      BY <3>1, <3>2
  <2>3. ASSUME NEW i \in 1 .. Len(w.captures) PROVE N[i] \in ValidNodes(w)
    BY <2>1 DEF ValidNodes, ToSet
  <2>4. N \in Surjection(1 .. Len(w.captures), ValidNodes(w))
    BY <2>2, <2>3 DEF Surjection
  <2>5. IsFiniteSet(1 .. Len(w.captures))
    BY <1>3, FS_Interval
  <2>6. QED
    BY <2>4, <2>5, FS_Surjection, FS_CardinalityType
<1>5. ASSUME w.active # <<>>
      PROVE  Last(w.active) \in Opened /\ Last(w.active).at \in DOMAIN w.quantifiers
             /\ Len(w.active) \in DOMAIN w.active
  <2>1. /\ Len(w.active) > 0 /\ DOMAIN w.active = 1 .. Len(w.active) /\ Len(w.active) \in Nat
        /\ Last(w.active) \in Opened /\ Last(w.active) = w.active[Len(w.active)]
    BY <1>2, <1>5, Shortened
  <2>2. QED
    BY <1>1, <2>1
<1>6. QED
  BY <1>1, <1>2, <1>3, <1>4, <1>5

(* Changing only the bookkeeping, within its types, keeps a walk sound. *)
LEMMA Rewritten ==
  ASSUME NEW nodes, NEW v, Sound(nodes, v), NEW w,
         NEW q \in Seq(Invocations), NEW a \in Seq(Opened), NEW s \in Seq(Nat), NEW b \in BOOLEAN,
         \A k \in DOMAIN a : a[k].at \in DOMAIN q,
         w = [v EXCEPT !.quantifiers = q, !.active = a, !.scopes = s, !.threw = b]
  PROVE  Sound(nodes, w)
<1>1. /\ w \in Walks /\ w.quantifiers = q /\ w.active = a /\ w.captures = v.captures
      /\ w.commons = v.commons /\ w.node = v.node /\ w.rejected = v.rejected
  BY DEF Sound, Typed, Walks, Invocations, Opened
<1>2. Typed(nodes, w)
  BY <1>1 DEF Sound, Typed, ValidNodes
<1>3. QED
  BY <1>1, <1>2, SameCaptures

(* An invocation begins. *)
LEMMA BeginKeeps ==
  ASSUME NEW nodes, NEW w, Sound(nodes, w), NEW index \in Nat, NEW symbol \in {"+", "*", "?"}
  PROVE  /\ Sound(nodes, BeginQuantifier(w, index, symbol))
         /\ BeginQuantifier(w, index, symbol).active # <<>>
<1> DEFINE parent == IF w.active = <<>> THEN 0 ELSE Last(w.active).at
           here == Len(w.captures)
           pass == IF parent = 0 THEN 0 ELSE Count(w.quantifiers[parent])
           q == [index |-> index, symbol |-> symbol, parent |-> parent, pass |-> pass,
                 begin |-> here, end |-> here, ends |-> <<>>]
           a == [at |-> Len(w.quantifiers) + 1, size |-> Cardinality(ValidNodes(w))]
           v == BeginQuantifier(w, index, symbol)
<1>1. /\ w.quantifiers \in Seq(Invocations) /\ w.active \in Seq(Opened) /\ w \in Walks
      /\ Len(w.captures) \in Nat /\ Cardinality(ValidNodes(w)) \in Nat /\ w.scopes \in Seq(Nat)
      /\ \A k \in DOMAIN w.active : w.active[k].at \in DOMAIN w.quantifiers
      /\ w.active # <<>> => /\ Last(w.active) \in Opened
                           /\ Last(w.active).at \in DOMAIN w.quantifiers
  BY Parts
<1>2. parent \in Nat /\ (parent # 0 => parent \in DOMAIN w.quantifiers)
  BY <1>1 DEF Opened
<1>3. pass \in Nat
  <2>1. ASSUME parent # 0 PROVE Count(w.quantifiers[parent]) \in Nat
    <3>1. w.quantifiers[parent] \in Invocations
      BY <1>1, <1>2, <2>1
    <3>2. QED
      BY <3>1 DEF Count, Invocations
  <2>2. QED
    BY <2>1
<1>4. q \in Invocations
  <2> HIDE DEF parent, pass
  <2>1. QED
    BY <1>1, <1>2, <1>3 DEF Invocations
<1>5. a \in Opened
  BY <1>1 DEF Opened
<1>6. v = [w EXCEPT !.quantifiers = Append(w.quantifiers, q), !.active = Append(w.active, a)]
  BY DEF BeginQuantifier
<1> HIDE DEF q, v
<1>7. /\ Append(w.quantifiers, q) \in Seq(Invocations)
      /\ Len(w.quantifiers) \in Nat /\ DOMAIN w.quantifiers = 1 .. Len(w.quantifiers)
      /\ DOMAIN Append(w.quantifiers, q) = 1 .. Len(w.quantifiers) + 1
  BY <1>1, <1>4, Appended
<1>8. /\ Append(w.active, a) \in Seq(Opened)
      /\ Len(w.active) \in Nat /\ DOMAIN w.active = 1 .. Len(w.active)
      /\ DOMAIN Append(w.active, a) = 1 .. Len(w.active) + 1
      /\ \A k \in 1 .. Len(w.active) : Append(w.active, a)[k] = w.active[k]
      /\ Append(w.active, a)[Len(w.active) + 1] = a
  BY <1>1, <1>5, Appended
<1>9. ASSUME NEW k \in DOMAIN Append(w.active, a)
      PROVE  Append(w.active, a)[k].at \in DOMAIN Append(w.quantifiers, q)
  <2>1. CASE k \in 1 .. Len(w.active)
    BY <1>1, <1>7, <1>8, <2>1
  <2>2. CASE k = Len(w.active) + 1
    BY <1>7, <1>8, <2>2
  <2>3. \A n \in Nat : \A i \in 1 .. n + 1 : i \in 1 .. n \/ i = n + 1
    OBVIOUS
  <2>4. QED
    BY <1>8, <2>1, <2>2, <2>3
<1>10. v = [w EXCEPT !.quantifiers = Append(w.quantifiers, q), !.active = Append(w.active, a),
                     !.scopes = w.scopes, !.threw = w.threw]
  BY <1>1, <1>6 DEF Walks
<1>11. w.threw \in BOOLEAN
  BY <1>1 DEF Walks
<1>12. Sound(nodes, v)
  BY <1>1, <1>7, <1>8, <1>9, <1>10, <1>11, Rewritten
<1>13. v.active # <<>>
  <2>1. v.active = Append(w.active, a)
    BY <1>1, <1>6 DEF Walks
  <2>2. QED
    BY <1>8, <2>1
<1>14. QED
  BY <1>12, <1>13 DEF v

(* An invocation ends. *)
LEMMA EndKeeps ==
  ASSUME NEW nodes, NEW w, Sound(nodes, w), w.active # <<>>
  PROVE  Sound(nodes, EndQuantifier(w))
<1> DEFINE at == Last(w.active).at
           q == [w.quantifiers EXCEPT ![at].end = Len(w.captures)]
<1>1. /\ w.quantifiers \in Seq(Invocations) /\ w.active \in Seq(Opened) /\ w \in Walks
      /\ Len(w.captures) \in Nat /\ w.scopes \in Seq(Nat)
      /\ \A k \in DOMAIN w.active : w.active[k].at \in DOMAIN w.quantifiers
      /\ at \in DOMAIN w.quantifiers
  BY Parts
<1>2. q \in Seq(Invocations) /\ DOMAIN q = DOMAIN w.quantifiers
  <2>1. [w.quantifiers[at] EXCEPT !.end = Len(w.captures)] \in Invocations
    <3>1. w.quantifiers[at] \in Invocations
      BY <1>1
    <3>2. QED
      BY <1>1, <3>1 DEF Invocations
  <2>2. QED
    BY <1>1, <2>1
<1>3. /\ Front(w.active) \in Seq(Opened) /\ DOMAIN Front(w.active) = 1 .. Len(w.active) - 1
      /\ DOMAIN w.active = 1 .. Len(w.active) /\ Len(w.active) \in Nat
      /\ \A k \in 1 .. Len(w.active) - 1 : Front(w.active)[k] = w.active[k]
  BY <1>1, Shortened
<1>4. \A k \in DOMAIN Front(w.active) : Front(w.active)[k].at \in DOMAIN q
  BY <1>1, <1>2, <1>3
<1>5. EndQuantifier(w) = [w EXCEPT !.quantifiers = q, !.active = Front(w.active),
                                   !.scopes = w.scopes, !.threw = w.threw]
  BY <1>1 DEF EndQuantifier, Walks
<1>6. w.threw \in BOOLEAN
  BY <1>1 DEF Walks
<1>7. QED
  <2> DEFINE f == Front(w.active)
             v == EndQuantifier(w)
  <2>1. f \in Seq(Opened) /\ (\A k \in DOMAIN f : f[k].at \in DOMAIN q)
    BY <1>3, <1>4
  <2>2. v = [w EXCEPT !.quantifiers = q, !.active = f, !.scopes = w.scopes, !.threw = w.threw]
    BY <1>5
  <2> HIDE DEF q, f, v
  <2>3. Sound(nodes, v)
    BY <1>1, <1>2, <1>6, <2>1, <2>2, Rewritten
  <2>4. QED
    BY <2>3 DEF v

(* A pass of the innermost invocation is complete. *)
LEMMA PassKeeps ==
  ASSUME NEW nodes, NEW w, Sound(nodes, w), w.active # <<>>
  PROVE  Sound(nodes, CompletePass(w))
<1> DEFINE top == Last(w.active)
           ends == Append(w.quantifiers[top.at].ends, Len(w.captures))
           q == [w.quantifiers EXCEPT ![top.at].ends = ends]
           a == [w.active EXCEPT ![Len(w.active)].size = Cardinality(ValidNodes(w))]
<1>1. /\ w.quantifiers \in Seq(Invocations) /\ w.active \in Seq(Opened) /\ w \in Walks
      /\ Len(w.captures) \in Nat /\ w.scopes \in Seq(Nat) /\ Cardinality(ValidNodes(w)) \in Nat
      /\ \A k \in DOMAIN w.active : w.active[k].at \in DOMAIN w.quantifiers
      /\ top.at \in DOMAIN w.quantifiers /\ Len(w.active) \in DOMAIN w.active
  BY Parts
<1>2. q \in Seq(Invocations) /\ DOMAIN q = DOMAIN w.quantifiers
  <2>1. w.quantifiers[top.at] \in Invocations
    BY <1>1
  <2>2. ends \in Seq(Nat)
    <3>1. w.quantifiers[top.at].ends \in Seq(Nat)
      BY <2>1 DEF Invocations
    <3>2. QED
      BY <1>1, <3>1, Appended
  <2>3. [w.quantifiers[top.at] EXCEPT !.ends = ends] \in Invocations
    <3> HIDE DEF ends
    <3>1. QED
      BY <2>1, <2>2 DEF Invocations
  <2>4. QED
    <3> HIDE DEF ends
    <3>1. QED
      BY <1>1, <2>3
<1>3. a \in Seq(Opened) /\ DOMAIN a = DOMAIN w.active /\ \A k \in DOMAIN a : a[k].at = w.active[k].at
  <2>1. w.active[Len(w.active)] \in Opened
    BY <1>1
  <2>2. [w.active[Len(w.active)] EXCEPT !.size = Cardinality(ValidNodes(w))] \in Opened
    BY <1>1, <2>1 DEF Opened
  <2>3. \A k \in DOMAIN a : a[k] = IF k = Len(w.active)
                                  THEN [w.active[k] EXCEPT !.size = Cardinality(ValidNodes(w))]
                                  ELSE w.active[k]
    BY <1>1
  <2>4. a \in Seq(Opened) /\ DOMAIN a = DOMAIN w.active
    BY <1>1, <2>2
  <2>5. QED
    BY <1>1, <2>1, <2>3, <2>4 DEF Opened
<1>4. CompletePass(w) = [w EXCEPT !.quantifiers = q, !.active = a, !.scopes = w.scopes, !.threw = w.threw]
  BY <1>1 DEF CompletePass, Walks
<1>5. w.threw \in BOOLEAN
  BY <1>1 DEF Walks
<1>6. QED
  <2> HIDE DEF q, a
  <2>1. \A k \in DOMAIN a : a[k].at \in DOMAIN q
    BY <1>1, <1>2, <1>3
  <2>2. QED
    BY <1>1, <1>2, <1>3, <1>4, <1>5, <2>1, Rewritten

(* The stack of numbered arrows. *)
LEMMA ScopesKeep ==
  ASSUME NEW nodes, NEW w, Sound(nodes, w)
  PROVE  /\ Sound(nodes, BeginPortScope(w))
         /\ w.scopes # <<>> => Sound(nodes, CheckedPort(w)) /\ Sound(nodes, EndPortScope(w))
<1>1. /\ w.quantifiers \in Seq(Invocations) /\ w.active \in Seq(Opened) /\ w \in Walks
      /\ Len(w.captures) \in Nat /\ w.scopes \in Seq(Nat)
      /\ \A k \in DOMAIN w.active : w.active[k].at \in DOMAIN w.quantifiers
  BY Parts
<1>2. w.threw \in BOOLEAN
  BY <1>1 DEF Walks
<1>3. ASSUME NEW s \in Seq(Nat) PROVE Sound(nodes, [w EXCEPT !.scopes = s])
  <2> DEFINE v == [w EXCEPT !.scopes = s]
  <2>1. v = [w EXCEPT !.quantifiers = w.quantifiers, !.active = w.active, !.scopes = s, !.threw = w.threw]
    BY <1>1 DEF Walks
  <2> HIDE DEF v
  <2>2. Sound(nodes, v)
    BY <1>1, <1>2, <2>1, Rewritten
  <2>3. QED
    BY <2>2 DEF v
<1>4. Append(w.scopes, Len(w.captures)) \in Seq(Nat)
  BY <1>1, Appended
<1>5. Sound(nodes, BeginPortScope(w))
  BY <1>3, <1>4 DEF BeginPortScope
<1>6. ASSUME w.scopes # <<>> PROVE Sound(nodes, CheckedPort(w)) /\ Sound(nodes, EndPortScope(w))
  <2>1. Front(w.scopes) \in Seq(Nat)
    BY <1>1, <1>6, Shortened
  <2>2. [w.scopes EXCEPT ![Len(w.scopes)] = Len(w.captures)] \in Seq(Nat)
    <3>1. Len(w.scopes) \in 1 .. Len(w.scopes)
      BY <1>1, <1>6, Shortened
    <3>2. QED
      BY <1>1, <3>1, ExceptSeq
  <2>3. QED
    BY <1>3, <2>1, <2>2 DEF CheckedPort, EndPortScope
<1>7. QED
  BY <1>5, <1>6

(* Begin, skip, iteration and end of a quantifier. *)
LEMMA TraceKeeps ==
  ASSUME NEW g, NEW w, Sound(g.nodes, w), NEW label \in Labels, label.type = "TRACE"
  PROVE  Answers(g, TestTrace(w, label))
<1>1. /\ label.action \in {"Begin", "Skip", "Iteration", "End"}
      /\ label.index \in Nat /\ label.symbol \in {"+", "*", "?"}
  BY DEF Labels, Empty, Null, Alternative
<1> DEFINE begun1 == BeginQuantifier(w, label.index, label.symbol)
<1>2. Sound(g.nodes, begun1) /\ begun1.active # <<>>
  BY <1>1, BeginKeeps
<1>3. Sound(g.nodes, EndQuantifier(begun1))
  <2> HIDE DEF begun1
  <2>1. QED
    BY <1>2, EndKeeps
<1>4. Sound(g.nodes, Broken(w))
  <2> DEFINE v == Broken(w)
  <2>1. /\ w.quantifiers \in Seq(Invocations) /\ w.active \in Seq(Opened) /\ w \in Walks
        /\ w.scopes \in Seq(Nat) /\ \A k \in DOMAIN w.active : w.active[k].at \in DOMAIN w.quantifiers
    BY Parts
  <2>2. v = [w EXCEPT !.quantifiers = w.quantifiers, !.active = w.active, !.scopes = w.scopes, !.threw = TRUE]
    BY <2>1 DEF Walks, Broken
  <2> HIDE DEF v
  <2>3. TRUE \in BOOLEAN
    OBVIOUS
  <2>4. Sound(g.nodes, v)
    BY <2>1, <2>2, <2>3, Rewritten
  <2>5. QED
    BY <2>4 DEF v
<1>5. /\ Answers(g, StayPut(begun1)) /\ Answers(g, StayPut(EndQuantifier(begun1)))
      /\ Answers(g, Refuse(w)) /\ Answers(g, Refuse(Broken(w)))
  <2> HIDE DEF begun1
  <2>1. QED
    BY <1>2, <1>3, <1>4, Outcomes
<1>6. ASSUME Balanced(w, label.index)
      PROVE  Answers(g, StayPut(CompletePass(w))) /\ Answers(g, StayPut(EndQuantifier(w)))
  BY <1>6, PassKeeps, EndKeeps, Outcomes DEF Balanced
<1>7. CASE label.action = "Begin"
  BY <1>5, <1>7 DEF TestTrace
<1>8. CASE label.action = "Skip"
  BY <1>5, <1>8 DEF TestTrace
<1>9. CASE label.action = "Iteration"
  BY <1>5, <1>6, <1>9 DEF TestTrace
<1>10. CASE label.action = "End"
  BY <1>5, <1>6, <1>10 DEF TestTrace
<1>11. QED
  BY <1>1, <1>7, <1>8, <1>9, <1>10

(* Entering, checking and leaving a numbered arrow. *)
LEMMA PortKeeps ==
  ASSUME NEW g, NEW w, Sound(g.nodes, w), NEW label \in Labels, label.type = "PORT"
  PROVE  Answers(g, TestPort(g, w, label))
<1>1. label.action \in {"Begin", "Check", "End"}
  BY DEF Labels, Empty, Null, Alternative
<1>2. Answers(g, StayPut(BeginPortScope(w))) /\ Answers(g, Refuse(w))
  BY ScopesKeep, Outcomes
<1>3. ASSUME CapturedInScope(w)
      PROVE  Answers(g, StayPut(CheckedPort(w))) /\ Answers(g, StayPut(EndPortScope(w)))
  BY <1>3, ScopesKeep, Outcomes DEF CapturedInScope
<1>4. CASE label.action = "Begin"
  BY <1>2, <1>4 DEF TestPort
<1>5. CASE label.action = "Check"
  BY <1>2, <1>3, <1>5 DEF TestPort
<1>6. CASE label.action = "End"
  BY <1>2, <1>3, <1>6 DEF TestPort
<1>7. QED
  BY <1>1, <1>4, <1>5, <1>6

(* No transition, of whatever type, spoils a walk or leaves the graph. *)
LEMMA TestKeeps ==
  ASSUME NEW g, IsGraph(g), NEW w, Sound(g.nodes, w), NEW label \in Labels
  PROVE  Answers(g, Test(g, w, label))
<1>1. label.type \in {"UNIQUE", "COMMON", "REF", "EMPTY", "NNULL", "ALTERNATIVE", "TRACE", "PORT"}
  BY DEF Labels, Empty, Null, Alternative
<1>2. CASE label.type = "UNIQUE"
  BY <1>2, UniqueKeeps DEF Test
<1>3. CASE label.type = "COMMON"
  BY <1>3, CommonKeeps DEF Test
<1>4. CASE label.type = "REF"
  BY <1>4, RefKeeps DEF Test
<1>5. CASE label.type \in {"EMPTY", "NNULL", "ALTERNATIVE"}
  <2>1. {} \in SUBSET g.nodes
    OBVIOUS
  <2>2. Answers(g, StayPut(w)) /\ Answers(g, Refuse(w)) /\ Answers(g, GoTo(w, {}))
    BY <2>1, Outcomes
  <2>3. QED
    BY <1>5, <2>2 DEF Test, TestEmpty, TestNull
<1>6. CASE label.type = "TRACE"
  BY <1>6, TraceKeeps DEF Test
<1>7. CASE label.type = "PORT"
  BY <1>7, PortKeeps DEF Test
<1>8. QED
  BY <1>1, <1>2, <1>3, <1>4, <1>5, <1>6, <1>7

(* Arriving: the walk never waits on a node it may not capture again. *)
LEMMA MovedKeeps ==
  ASSUME NEW nodes, nodes \subseteq Nat, NEW w, Sound(nodes, w), NEW node \in nodes \cup {NoNode}
  PROVE  LET v == Moved(w, node) IN Sound(nodes, v) /\ StandsFree(v) /\ v.state = w.state
<1> DEFINE v == Moved(w, node)
<1>1. Place(w, node) \in nodes \cup {NoNode} /\ Place(w, node) \notin PlainNodes(w)
  <2>1. NoNode \notin PlainNodes(w)
    <3>1. \A k \in DOMAIN w.captures : w.captures[k].node \in Nat
      <4> DEFINE C == [node : Nat, predicate : STRING]
      <4>1. w.captures \in Seq(C)
        BY DEF Sound, Typed, Walks
      <4>2. \A k \in DOMAIN w.captures : w.captures[k] \in C
        <5> HIDE DEF C
        <5>1. QED
          BY <4>1
      <4>3. QED
        BY <4>2
    <3>2. NoNode \notin ValidNodes(w)
      BY <3>1 DEF ValidNodes, ToSet, NoNode
    <3>3. QED
      BY <3>2 DEF PlainNodes
  <2>2. QED
    BY <2>1 DEF Place
<1>2. /\ v \in Walks /\ v.node = Place(w, node) /\ v.state = w.state /\ v.captures = w.captures
      /\ v.commons = w.commons /\ v.rejected = w.rejected /\ v.active = w.active
      /\ v.quantifiers = w.quantifiers
  BY <1>1 DEF Sound, Typed, Walks, Moved
<1> HIDE DEF v
<1>3. ValidNodes(v) = ValidNodes(w) /\ PlainNodes(v) = PlainNodes(w)
  BY <1>2 DEF ValidNodes, PlainNodes, CommonNodes
<1>4. Typed(nodes, v)
  BY <1>1, <1>2, <1>3 DEF Sound, Typed
<1>5. Sound(nodes, v)
  BY <1>2, <1>4, SameCaptures
<1>6. StandsFree(v)
  BY <1>1, <1>2, <1>3 DEF StandsFree
<1>7. QED
  BY <1>2, <1>5, <1>6 DEF v

-----------------------------------------------------------------------------
(***************************************************************************)
(* The search.  Every walk that it holds is sound and waits on a node that  *)
(* it may capture; the one that has just crossed a transition is sound.     *)
(***************************************************************************)
Waiting(p) == {w \in Walks : /\ Sound(p.graph.nodes, w) /\ StandsFree(w)
                             /\ w.state \in States(p.machine)}
Crossed(p) == {w \in Walks : Sound(p.graph.nodes, w) /\ w.state \in States(p.machine)}

SearchInv ==
  /\ IsProblem(problem) /\ order \in Orders(problem.machine)
  /\ begun \in 0 .. Len(problem.tuple)
  /\ queue \in Seq(Waiting(problem)) /\ finished \in Seq(Waiting(problem))
  /\ walk \in Waiting(problem) \/ (walk = Nowhere /\ tests = <<>>)
  /\ tests \in Seq(problem.machine.edges)
  /\ moved \in Crossed(problem) \/ (moved = Nowhere /\ arrivals = {})
  /\ arrivals \subseteq problem.graph.nodes \cup {NoNode}
  /\ aborted \in BOOLEAN

(* A walk that has not begun is sound. *)
LEMMA StartSound ==
  ASSUME NEW nodes, nodes \subseteq Nat, NEW state \in Nat, NEW node \in nodes \cup {NoNode}
  PROVE  LET w == Start(state, node)
         IN  w \in Walks /\ Sound(nodes, w) /\ StandsFree(w) /\ w.state = state
<1> DEFINE w == Start(state, node)
<1>1. /\ w \in Walks /\ w.captures = <<>> /\ w.commons = {} /\ w.rejected = {} /\ w.node = node
      /\ w.active = <<>> /\ w.state = state
  BY DEF Start, Walks
<1> HIDE DEF w
<1>2. ValidNodes(w) = {} /\ CommonNodes(w) = {} /\ PlainNodes(w) = {}
  BY <1>1 DEF ValidNodes, CommonNodes, PlainNodes, ToSet
<1>3. Typed(nodes, w) /\ PlainOnce(w) /\ AnchorsAgree(w) /\ StandsFree(w)
  BY <1>1, <1>2 DEF Typed, PlainOnce, AnchorsAgree, StandsFree
<1>4. QED
  BY <1>1, <1>3 DEF Sound, w

(* What the assumption says of the problem being searched. *)
LEMMA ProblemFacts ==
  ASSUME NEW p, IsProblem(p)
  PROVE  /\ p.graph.nodes \subseteq Nat /\ IsGraph(p.graph)
         /\ States(p.machine) \subseteq Nat
         /\ \A e \in p.machine.edges : e.to \in States(p.machine) /\ e.label \in Labels
         /\ p.tuple \in Seq(p.graph.nodes \cup {NoNode}) /\ p.machine.starts \in Seq(States(p.machine))
         /\ Len(p.tuple) = Len(p.machine.starts)
  BY DEF IsProblem, States, IsGraph

(* Filing a walk that may wait. *)
LEMMA FileKeeps ==
  ASSUME NEW W, queue \in Seq(W), NEW w \in W, File(w)
  PROVE  queue' \in Seq(W)
  BY DEF File

(* The invariant holds when the search begins. *)
LEMMA InitSearch == Init => SearchInv
<1> SUFFICES ASSUME Init PROVE SearchInv
  OBVIOUS
<1>1. IsProblem(problem) /\ Len(problem.tuple) \in Nat
  BY ProblemsAssumption, ProblemFacts DEF Init
<1>2. begun \in 0 .. Len(problem.tuple) /\ aborted \in BOOLEAN /\ arrivals = {}
  <2>1. begun = 0 /\ aborted = FALSE /\ arrivals = {}
    BY DEF Init
  <2>2. begun \in 0 .. Len(problem.tuple)
    BY <1>1, <2>1
  <2>3. QED
    BY <2>1, <2>2, Zenon
<1>3. \A S : <<>> \in Seq(S)
  OBVIOUS
<1>4. queue = <<>> /\ finished = <<>> /\ tests = <<>> /\ walk = Nowhere /\ moved = Nowhere
      /\ order \in Orders(problem.machine)
  BY DEF Init
<1>5. QED
  BY <1>1, <1>2, <1>3, <1>4 DEF SearchInv

(* A start walk is filed. *)
LEMMA BeginSearch == SearchInv /\ Begin => SearchInv'
<1> SUFFICES ASSUME SearchInv, Begin PROVE SearchInv'
  OBVIOUS
<1> DEFINE w == Start(problem.machine.starts[begun + 1], problem.tuple[begun + 1])
<1>1. IsProblem(problem) /\ begun \in Nat /\ begun + 1 \in 1 .. Len(problem.tuple)
  BY ProblemFacts DEF SearchInv, Begin
<1>2. /\ problem.machine.starts[begun + 1] \in States(problem.machine)
      /\ problem.tuple[begun + 1] \in problem.graph.nodes \cup {NoNode}
      /\ States(problem.machine) \subseteq Nat /\ problem.graph.nodes \subseteq Nat
  <2> DEFINE N == problem.graph.nodes \cup {NoNode}
             S == States(problem.machine)
  <2>1. /\ problem.tuple \in Seq(N) /\ problem.machine.starts \in Seq(S)
        /\ Len(problem.tuple) = Len(problem.machine.starts)
        /\ S \subseteq Nat /\ problem.graph.nodes \subseteq Nat
    BY <1>1, ProblemFacts
  <2> HIDE DEF N, S
  <2>2. problem.machine.starts[begun + 1] \in S /\ problem.tuple[begun + 1] \in N
    BY <1>1, <2>1
  <2>3. QED
    BY <2>1, <2>2 DEF N, S
<1>3. w \in Waiting(problem)
  <2>1. /\ w \in Walks /\ Sound(problem.graph.nodes, w) /\ StandsFree(w)
        /\ w.state = problem.machine.starts[begun + 1]
    BY <1>2, StartSound
  <2>2. QED
    BY <1>2, <2>1 DEF Waiting
<1>4. queue' \in Seq(Waiting(problem))
  <2> HIDE DEF w
  <2>1. File(w)
    BY DEF Begin, w
  <2>2. QED
    BY <1>3, <2>1, FileKeeps DEF SearchInv
<1>5. QED
  BY <1>1, <1>4 DEF SearchInv, Begin, arguments

(* The next walk is visited. *)
LEMMA VisitSearch == SearchInv /\ Visit => SearchInv'
<1> SUFFICES ASSUME SearchInv, Visit PROVE SearchInv'
  OBVIOUS
<1> DEFINE w == Head(queue)
<1>1. w \in Waiting(problem) /\ Tail(queue) \in Seq(Waiting(problem))
  <2> DEFINE W == Waiting(problem)
  <2>1. queue \in Seq(W) /\ queue # <<>>
    BY DEF SearchInv, Visit
  <2> HIDE DEF W
  <2>2. w \in W /\ Tail(queue) \in Seq(W)
    BY <2>1
  <2>3. QED
    BY <2>2 DEF W
<1>2. order[w.state] \in Seq(problem.machine.edges)
  <2>1. w.state \in States(problem.machine)
    BY <1>1 DEF Waiting
  <2>2. order[w.state] \in Seq(Outgoing(problem.machine, w.state))
    BY <2>1 DEF SearchInv, Orders
  <2>3. Outgoing(problem.machine, w.state) \subseteq problem.machine.edges
    BY DEF Outgoing
  <2>4. QED
    BY <2>2, <2>3, SeqMonotonic
<1>3. finished' \in Seq(Waiting(problem))
  <2>1. finished' = Append(finished, w) \/ finished' = finished
    BY DEF Visit
  <2>2. QED
    BY <1>1, <2>1, Appended DEF SearchInv
<1>4. queue' = Tail(queue) /\ walk' = w /\ tests' = order[w.state]
  BY DEF Visit
<1> HIDE DEF w
<1>5. QED
  BY <1>1, <1>2, <1>3, <1>4 DEF SearchInv, Visit, arguments

(* A transition is tested. *)
LEMMA CrossSearch == SearchInv /\ Cross => SearchInv'
<1> SUFFICES ASSUME SearchInv, Cross PROVE SearchInv'
  OBVIOUS
<1> DEFINE edge == Head(tests)
           result == Test(problem.graph, walk, edge.label)
           next == [result.walk EXCEPT !.state = edge.to]
<1>1. /\ edge \in problem.machine.edges /\ Tail(tests) \in Seq(problem.machine.edges)
      /\ tests # <<>> /\ walk \in Waiting(problem)
  BY DEF SearchInv, Cross
<1>2. edge.label \in Labels /\ edge.to \in States(problem.machine) /\ edge.to \in Nat /\ IsGraph(problem.graph)
  <2>1. IsProblem(problem)
    BY DEF SearchInv
  <2>2. QED
    BY <1>1, <2>1, ProblemFacts
<1>3. Answers(problem.graph, result)
  <2>1. Sound(problem.graph.nodes, walk)
    BY <1>1 DEF Waiting
  <2>2. QED
    BY <1>2, <2>1, TestKeeps
<1> HIDE DEF edge, result
<1>4. next \in Crossed(problem)
  <2>1. Sound(problem.graph.nodes, result.walk)
    BY <1>3 DEF Answers
  <2>2. /\ next \in Walks /\ next.state = edge.to /\ next.captures = result.walk.captures
        /\ next.commons = result.walk.commons /\ next.node = result.walk.node
        /\ next.rejected = result.walk.rejected /\ next.active = result.walk.active
        /\ next.quantifiers = result.walk.quantifiers
    BY <1>2, <2>1 DEF Sound, Typed, Walks
  <2> HIDE DEF next
  <2>3. Typed(problem.graph.nodes, next)
    BY <2>1, <2>2 DEF Sound, Typed, ValidNodes
  <2>4. Sound(problem.graph.nodes, next)
    BY <2>1, <2>2, <2>3, SameCaptures
  <2>5. QED
    BY <1>2, <2>2, <2>4 DEF Crossed
<1>5. arrivals' \subseteq problem.graph.nodes \cup {NoNode}
  BY <1>3 DEF Cross, Answers, edge, result
<1>6. aborted' \in BOOLEAN
  <2>1. result.walk.threw \in BOOLEAN
    BY <1>3 DEF Answers, Sound, Typed, Walks
  <2>2. QED
    BY <2>1 DEF Cross, edge, result
<1>7. moved' = next /\ tests' = Tail(tests)
  BY DEF Cross, edge, result
<1> HIDE DEF next
<1>8. QED
  BY <1>1, <1>4, <1>5, <1>6, <1>7 DEF SearchInv, Cross, arguments

(* A walk is filed for one of the nodes it reached. *)
LEMMA ArriveSearch == SearchInv /\ Arrive => SearchInv'
<1> SUFFICES ASSUME SearchInv, Arrive PROVE SearchInv'
  OBVIOUS
<1> DEFINE node == Min(arrivals)
           w == Moved(moved, node)
<1>1. problem.graph.nodes \subseteq Nat
  BY ProblemFacts DEF SearchInv
<1>2. node \in problem.graph.nodes \cup {NoNode}
  <2>1. arrivals # {} /\ arrivals \subseteq Nat \cup {-1}
    BY <1>1 DEF SearchInv, Arrive, NoNode
  <2>2. node \in arrivals
    BY <2>1, MinMember
  <2>3. QED
    BY <2>2 DEF SearchInv
<1>3. moved \in Crossed(problem)
  BY DEF SearchInv, Arrive
<1>4. w \in Waiting(problem)
  <2> HIDE DEF node
  <2>1. Sound(problem.graph.nodes, moved) /\ moved.state \in States(problem.machine)
    BY <1>3 DEF Crossed
  <2>2. Sound(problem.graph.nodes, w) /\ StandsFree(w) /\ w.state = moved.state
    BY <1>1, <1>2, <2>1, MovedKeeps
  <2>3. w \in Walks
    BY <2>2 DEF Sound, Typed
  <2> HIDE DEF w
  <2>4. QED
    BY <2>1, <2>2, <2>3 DEF Waiting
<1>5. File(w) /\ arrivals' = arrivals \ {node}
  BY DEF Arrive
<1> HIDE DEF w
<1>6. queue' \in Seq(Waiting(problem))
  BY <1>4, <1>5, FileKeeps DEF SearchInv
<1>7. QED
  BY <1>3, <1>5, <1>6 DEF SearchInv, Arrive, arguments

(* No step of the search spoils a walk. *)
LEMMA NextSearch == SearchInv /\ [Next]_vars => SearchInv'
<1> SUFFICES ASSUME SearchInv, [Next]_vars PROVE SearchInv'
  OBVIOUS
<1>1. CASE Next
  BY <1>1, BeginSearch, VisitSearch, CrossSearch, ArriveSearch DEF Next
<1>2. CASE UNCHANGED vars
  BY <1>2 DEF vars, arguments, SearchInv
<1>3. QED
  BY <1>1, <1>2

(* What the invariant says of all walks. *)
LEMMA AllWalksSound ==
  ASSUME SearchInv
  PROVE  \A w \in AllWalks : w \in Waiting(problem) \/ w = Nowhere
<1> DEFINE W == Waiting(problem)
<1>1. queue \in Seq(W) /\ finished \in Seq(W) /\ (walk \in W \/ walk = Nowhere)
  BY DEF SearchInv
<1> HIDE DEF W
<1>2. ToSet(queue) \subseteq W /\ ToSet(finished) \subseteq W
  BY <1>1 DEF ToSet
<1>3. QED
  BY <1>1, <1>2 DEF AllWalks, W

(* The walk before any walk. *)
LEMMA NowhereSound ==
  ASSUME NEW nodes, nodes \subseteq Nat
  PROVE  Sound(nodes, Nowhere) /\ StandsFree(Nowhere)
<1>1. 0 \in Nat /\ NoNode \in nodes \cup {NoNode}
  OBVIOUS
<1>2. QED
  BY <1>1, StartSound DEF Nowhere

(* A sound walk is one of TypeOK. *)
LEMMA SoundIsTyped ==
  ASSUME NEW nodes, NEW w, Sound(nodes, w)
  PROVE  /\ w \in Walks
         /\ ValidNodes(w) \cup w.rejected \cup {w.node} \subseteq nodes \cup {NoNode}
         /\ \A a \in ToSet(w.active) : a.at \in DOMAIN w.quantifiers
  BY DEF Sound, Typed, ToSet

(* Every walk of a search is sound, for every graph and automaton. *)
THEOREM SearchInvariant == Spec => []SearchInv
<1>1. Init => SearchInv
  BY InitSearch
<1>2. SearchInv /\ [Next]_vars => SearchInv'
  BY NextSearch
<1>3. QED
  BY <1>1, <1>2, PTL DEF Spec

(* The invariant gives every variable its type. *)
LEMMA InvariantTypes ==
  ASSUME SearchInv
  PROVE  TypeOK
<1>1. problem.graph.nodes \subseteq Nat
  BY ProblemFacts DEF SearchInv
<1>2. ASSUME NEW w \in AllWalks \cup {moved}
      PROVE  Sound(problem.graph.nodes, w) /\ (w # Nowhere => w.state \in States(problem.machine))
  <2>1. w \in Waiting(problem) \/ w \in Crossed(problem) \/ w = Nowhere
    BY AllWalksSound DEF SearchInv
  <2>2. QED
    BY <1>1, <2>1, NowhereSound DEF Waiting, Crossed
<1>3. ToSet(tests) \subseteq problem.machine.edges
  BY DEF SearchInv, ToSet
<1>4. QED
  BY <1>2, <1>3, SoundIsTyped DEF TypeOK, SearchInv, Nodes

(* Every variable of the search keeps its type: walks stay in the graph and *)
(* in the automaton, and the stack names invocations that exist.            *)
THEOREM SearchTyped == Spec => []TypeOK
<1>1. SearchInv => TypeOK
  BY InvariantTypes
<1>2. QED
  BY <1>1, SearchInvariant, PTL

(* Captures stay consistent whatever pattern the automaton came from: a     *)
(* plain node once, identities and nodes one to one, and no walk waits on a *)
(* node that it may not capture.                                            *)
THEOREM CapturesConsistent == Spec => []WalksConsistent
<1>1. SearchInv => WalksConsistent
  <2> SUFFICES ASSUME SearchInv, NEW w \in AllWalks
               PROVE  PlainOnce(w) /\ AnchorsAgree(w) /\ StandsFree(w)
    BY DEF WalksConsistent
  <2>1. problem.graph.nodes \subseteq Nat
    BY ProblemFacts DEF SearchInv
  <2>2. w \in Waiting(problem) \/ w = Nowhere
    BY AllWalksSound
  <2>3. QED
    BY <2>1, <2>2, NowhereSound DEF Waiting, Sound
<1>2. QED
  BY <1>1, SearchInvariant, PTL

-----------------------------------------------------------------------------
(***************************************************************************)
(* What the keys lose.  A run is what a pattern author sees: a walk of the  *)
(* automaton over the graph, transition by transition, that nobody drops.   *)
(* The search follows one run for each key only.                            *)
(***************************************************************************)

(* The walks that crossing a transition leads to. *)
Beyond(p, w, edge) ==
  LET result == Test(p.graph, w, edge.label)
      nodes  == CASE ~ result.success -> {}
                  [] result.success /\ result.nodes = {} -> {NoNode}
                  [] OTHER -> result.nodes
  IN  {Moved([result.walk EXCEPT !.state = edge.to], n) : n \in nodes}

Onward(p, w) == UNION {Beyond(p, w, edge) : edge \in Outgoing(p.machine, w.state)}
Begun(p)     == {Start(p.machine.starts[k], p.tuple[k]) : k \in 1 .. Len(p.tuple)}

(* A start walk and what it goes on to. *)
IsRun(p, run) ==
  /\ run \in Seq(Walks) /\ run # <<>> /\ run[1] \in Begun(p)
  /\ \A i \in 1 .. Len(run) - 1 : run[i + 1] \in Onward(p, run[i])

(* Where runs end. *)
Ends(p) == {w \in Walks : \E run \in Seq(Walks) : IsRun(p, run) /\ run[Len(run)] = w}

(* A walk that has been visited has had its result filed. *)
Filed(w) == w.state \in problem.machine.valid => ResultKey(Origin(w), w) \in results

(* The search so far: W holds the walk that was queued under each key.      *)
(* Where each of them can go was queued as well, unless it still waits, or  *)
(* the transition is still to test, or the node is still to be arrived at.  *)
Explored(W) ==
  /\ W \subseteq Ends(problem) \cap Waiting(problem)
  /\ seen = {Key(w) : w \in W}
  /\ ToSet(queue) \cup ToSet(finished) \subseteq W
  /\ walk \in W \/ (walk = Nowhere /\ tests = <<>> /\ arrivals = {})
  /\ ToSet(tests) \subseteq Outgoing(problem.machine, walk.state)
  /\ \A n \in arrivals : Moved(moved, n) \in Onward(problem, walk)
  /\ \A k \in 1 .. begun : Key(Start(problem.machine.starts[k], problem.tuple[k])) \in seen
  /\ \A w \in W : w \in ToSet(queue) \/ Filed(w)
  /\ \A w \in W : \/ w \in ToSet(queue) \/ w = walk
                  \/ \A v \in Onward(problem, w) : Key(v) \in seen
  /\ walk \in W \ ToSet(queue) =>
       \A edge \in Outgoing(problem.machine, walk.state) \ ToSet(tests) :
         \A v \in Beyond(problem, walk, edge) :
           Key(v) \in seen \/ \E n \in arrivals : v = Moved(moved, n)

(* Results are those of the finished walks, and tell them apart. *)
Distinct ==
  /\ results = {ResultKey(Origin(f), f) : f \in ToSet(finished)}
  /\ \A f \in ToSet(finished) : f.state \in problem.machine.valid
  /\ \A i, j \in DOMAIN finished :
       ResultKey(Origin(finished[i]), finished[i]) = ResultKey(Origin(finished[j]), finished[j]) => i = j

IsExplored  == \E W : Explored(W)
ExploredInv == SearchInv /\ Distinct /\ IsExplored

(* The elements of a sequence are its first one and those of the rest. *)
LEMMA HeadAndTail ==
  ASSUME NEW S, NEW s \in Seq(S), s # <<>>
  PROVE  ToSet(s) = {Head(s)} \cup ToSet(Tail(s)) /\ Head(s) \in ToSet(s)
<1>1. /\ Len(s) \in Nat \ {0} /\ Len(Tail(s)) = Len(s) - 1
      /\ \A i \in 1 .. Len(s) - 1 : Tail(s)[i] = s[i + 1]
      /\ Head(s) = s[1] /\ Tail(s) \in Seq(S)
  OBVIOUS
<1>2. DOMAIN s = 1 .. Len(s) /\ DOMAIN Tail(s) = 1 .. Len(s) - 1
  BY <1>1
<1>3. /\ \A i \in 1 .. Len(s) : i = 1 \/ (i - 1 \in 1 .. Len(s) - 1 /\ (i - 1) + 1 = i)
      /\ \A i \in 1 .. Len(s) - 1 : i + 1 \in 1 .. Len(s)
      /\ 1 \in 1 .. Len(s)
  BY <1>1
<1>4. ToSet(s) \subseteq {Head(s)} \cup ToSet(Tail(s))
  <2> SUFFICES ASSUME NEW i \in 1 .. Len(s) PROVE s[i] = Head(s) \/ s[i] \in ToSet(Tail(s))
    BY <1>2 DEF ToSet
  <2>1. CASE i = 1
    BY <1>1, <2>1
  <2>2. CASE i - 1 \in 1 .. Len(s) - 1 /\ (i - 1) + 1 = i
    BY <1>1, <1>2, <2>2 DEF ToSet
  <2>3. QED
    BY <1>3, <2>1, <2>2
<1>5. ToSet(Tail(s)) \subseteq ToSet(s)
  BY <1>1, <1>2, <1>3 DEF ToSet
<1>6. Head(s) \in ToSet(s)
  BY <1>1, <1>2, <1>3 DEF ToSet
<1>7. QED
  BY <1>4, <1>5, <1>6

(* A walk that waits goes on to walks that may wait. *)
LEMMA OnwardKeeps ==
  ASSUME NEW p, IsProblem(p), NEW w \in Waiting(p)
  PROVE  Onward(p, w) \subseteq Waiting(p)
<1> SUFFICES ASSUME NEW edge \in Outgoing(p.machine, w.state), NEW v \in Beyond(p, w, edge)
             PROVE  v \in Waiting(p)
  BY DEF Onward
<1> DEFINE result == Test(p.graph, w, edge.label)
           next == [result.walk EXCEPT !.state = edge.to]
<1>1. /\ edge.label \in Labels /\ edge.to \in States(p.machine) /\ edge.to \in Nat
      /\ IsGraph(p.graph) /\ p.graph.nodes \subseteq Nat
  BY ProblemFacts DEF Outgoing
<1>2. Answers(p.graph, result)
  BY <1>1, TestKeeps DEF Waiting
<1>3. PICK n \in p.graph.nodes \cup {NoNode} : v = Moved(next, n)
  BY <1>2 DEF Beyond, Answers
<1> HIDE DEF result
<1>4. Sound(p.graph.nodes, next) /\ next.state = edge.to
  <2>1. Sound(p.graph.nodes, result.walk)
    BY <1>2 DEF Answers
  <2>2. /\ next \in Walks /\ next.state = edge.to /\ next.captures = result.walk.captures
        /\ next.commons = result.walk.commons /\ next.node = result.walk.node
        /\ next.rejected = result.walk.rejected /\ next.active = result.walk.active
        /\ next.quantifiers = result.walk.quantifiers
    BY <1>1, <2>1 DEF Sound, Typed, Walks
  <2> HIDE DEF next
  <2>3. Typed(p.graph.nodes, next)
    BY <2>1, <2>2 DEF Sound, Typed, ValidNodes
  <2>4. QED
    BY <2>1, <2>2, <2>3, SameCaptures
<1> HIDE DEF next
<1>5. Sound(p.graph.nodes, v) /\ StandsFree(v) /\ v.state = edge.to
  BY <1>1, <1>3, <1>4, MovedKeeps
<1>6. v \in Walks
  BY <1>5 DEF Sound, Typed
<1>7. QED
  BY <1>1, <1>5, <1>6 DEF Waiting

(* A start walk is a run by itself. *)
LEMMA StartEnds ==
  ASSUME NEW p, NEW w \in Begun(p), w \in Walks
  PROVE  w \in Ends(p)
<1> DEFINE run == <<w>>
<1>1. run \in Seq(Walks) /\ run # <<>> /\ run[1] = w /\ Len(run) = 1 /\ run[Len(run)] = w
  OBVIOUS
<1> HIDE DEF run
<1>2. IsRun(p, run)
  BY <1>1 DEF IsRun
<1>3. QED
  BY <1>1, <1>2 DEF Ends

(* A run goes on. *)
LEMMA OnwardEnds ==
  ASSUME NEW p, NEW w \in Ends(p), NEW v \in Onward(p, w), v \in Walks
  PROVE  v \in Ends(p)
<1>1. PICK run \in Seq(Walks) : IsRun(p, run) /\ run[Len(run)] = w
  BY DEF Ends
<1> DEFINE longer == Append(run, v)
<1>2. /\ longer \in Seq(Walks) /\ Len(run) \in Nat /\ Len(longer) = Len(run) + 1
      /\ \A i \in 1 .. Len(run) : longer[i] = run[i]
      /\ longer[Len(run) + 1] = v
  BY Appended
<1>3. Len(run) # 0 /\ run # <<>>
  BY <1>1 DEF IsRun
<1> HIDE DEF longer
<1>4. longer # <<>> /\ longer[1] \in Begun(p)
  BY <1>1, <1>2, <1>3 DEF IsRun
<1>5. ASSUME NEW i \in 1 .. Len(longer) - 1 PROVE longer[i + 1] \in Onward(p, longer[i])
  <2>1. CASE i = Len(run)
    BY <1>1, <1>2, <1>3, <2>1
  <2>2. CASE i \in 1 .. Len(run) - 1
    <3>1. i + 1 \in 1 .. Len(run) /\ i \in 1 .. Len(run)
      BY <1>2, <2>2
    <3>2. longer[i + 1] = run[i + 1] /\ longer[i] = run[i]
      BY <1>2, <3>1
    <3>3. QED
      BY <1>1, <2>2, <3>2 DEF IsRun
  <2>3. QED
    BY <1>2, <2>1, <2>2
<1>6. IsRun(p, longer)
  BY <1>2, <1>4, <1>5 DEF IsRun
<1>7. QED
  BY <1>2, <1>6 DEF Ends

(* Start walks may wait. *)
LEMMA BegunWaits ==
  ASSUME IsProblem(problem), NEW v \in Begun(problem)
  PROVE  v \in Waiting(problem)
<1>1. PICK k \in 1 .. Len(problem.tuple) : v = Start(problem.machine.starts[k], problem.tuple[k])
  BY DEF Begun
<1> DEFINE N == problem.graph.nodes \cup {NoNode}
           S == States(problem.machine)
<1>2. /\ problem.tuple \in Seq(N) /\ problem.machine.starts \in Seq(S)
      /\ Len(problem.tuple) = Len(problem.machine.starts)
      /\ S \subseteq Nat /\ problem.graph.nodes \subseteq Nat
  BY ProblemFacts
<1> HIDE DEF N, S
<1>3. problem.machine.starts[k] \in S /\ problem.tuple[k] \in N
  BY <1>2
<1>4. /\ v \in Walks /\ Sound(problem.graph.nodes, v) /\ StandsFree(v)
      /\ v.state = problem.machine.starts[k]
  BY <1>1, <1>2, <1>3, StartSound DEF N, S
<1>5. QED
  BY <1>3, <1>4 DEF Waiting, S

(* Filing a walk: its key is seen, and the walk waits or another has its key. *)
LEMMA FileExplores ==
  ASSUME NEW S, queue \in Seq(S), NEW v \in S, File(v), NEW W, seen = {Key(w) : w \in W}
  PROVE  \E V : /\ W \subseteq V /\ V \subseteq W \cup {v} /\ V \ W \subseteq ToSet(queue')
                /\ ToSet(queue) \subseteq ToSet(queue') /\ ToSet(queue') \subseteq ToSet(queue) \cup V
                /\ seen \subseteq seen' /\ Key(v) \in seen' /\ seen' = {Key(w) : w \in V}
<1>1. seen' = seen \cup {Key(v)} /\ queue' = IF Key(v) \in seen THEN queue ELSE Append(queue, v)
  BY DEF File
<1>2. CASE Key(v) \in seen
  <2>1. seen' = seen /\ queue' = queue
    BY <1>1, <1>2
  <2>2. QED
    BY <1>2, <2>1
<1>3. CASE Key(v) \notin seen
  <2> DEFINE V == W \cup {v}
  <2>1. queue' = Append(queue, v)
    BY <1>1, <1>3
  <2>2. ToSet(queue') = ToSet(queue) \cup {v}
    BY <2>1, Appended
  <2>3. seen' = {Key(w) : w \in V}
    BY <1>1
  <2>4. QED
    BY <1>1, <2>2, <2>3
<1>4. QED
  BY <1>2, <1>3

(* Nothing is explored when the search begins. *)
LEMMA InitExplores == Init => Distinct /\ Explored({})
<1> SUFFICES ASSUME Init PROVE Distinct /\ Explored({})
  OBVIOUS
<1>1. begun = 0 /\ queue = <<>> /\ walk = Nowhere /\ tests = <<>> /\ arrivals = {} /\ seen = {}
      /\ results = {} /\ finished = <<>>
  BY DEF Init
<1>2. ToSet(queue) = {} /\ ToSet(finished) = {} /\ DOMAIN finished = {} /\ 1 .. begun = {}
  BY <1>1 DEF ToSet
<1>3. Distinct
  BY <1>1, <1>2 DEF Distinct
<1>4. Explored({})
  BY <1>1, <1>2 DEF Explored
<1>5. QED
  BY <1>3, <1>4

(* A start walk is filed. *)
LEMMA BeginExplores ==
  ASSUME SearchInv, SearchInv', NEW W, Explored(W), Begin
  PROVE  \E V : Explored(V)'
<1> DEFINE v == Start(problem.machine.starts[begun + 1], problem.tuple[begun + 1])
<1>1. begun + 1 \in 1 .. Len(problem.tuple) /\ begun \in Nat /\ begun' = begun + 1
  <2>1. Len(problem.tuple) \in Nat
    BY ProblemFacts DEF SearchInv
  <2>2. begun \in 0 .. Len(problem.tuple) /\ begun < Len(problem.tuple) /\ begun' = begun + 1
    BY DEF SearchInv, Begin
  <2>3. QED
    BY <2>1, <2>2
<1>2. v \in Begun(problem)
  BY <1>1 DEF Begun
<1>3. v \in Waiting(problem) /\ v \in Ends(problem)
  <2> HIDE DEF v
  <2>1. v \in Waiting(problem)
    BY <1>2, BegunWaits DEF SearchInv
  <2>2. QED
    BY <1>2, <2>1, StartEnds DEF Waiting
<1>4. File(v) /\ queue \in Seq(Waiting(problem)) /\ seen = {Key(w) : w \in W}
  BY DEF Begin, SearchInv, Explored
<1>5. /\ problem' = problem /\ walk' = walk /\ tests' = tests /\ moved' = moved
      /\ arrivals' = arrivals /\ results' = results /\ finished' = finished
  BY DEF Begin, arguments
<1>6. PICK V : /\ W \subseteq V /\ V \subseteq W \cup {v} /\ V \ W \subseteq ToSet(queue')
               /\ ToSet(queue) \subseteq ToSet(queue') /\ ToSet(queue') \subseteq ToSet(queue) \cup V
               /\ seen \subseteq seen' /\ Key(v) \in seen' /\ seen' = {Key(w) : w \in V}
  <2> DEFINE S == Waiting(problem)
  <2>1. queue \in Seq(S) /\ v \in S /\ File(v) /\ seen = {Key(w) : w \in W}
    BY <1>3, <1>4
  <2> HIDE DEF v, S
  <2>2. QED
    BY <2>1, FileExplores
<1>7. \A k \in 1 .. begun' : Key(Start(problem.machine.starts[k], problem.tuple[k])) \in seen'
  <2> SUFFICES ASSUME NEW k \in 1 .. begun'
               PROVE  Key(Start(problem.machine.starts[k], problem.tuple[k])) \in seen'
    OBVIOUS
  <2>1. k \in 1 .. begun \/ k = begun + 1
    BY <1>1
  <2>2. QED
    BY <1>6, <2>1 DEF Explored
<1> HIDE DEF v
<1>8. Explored(V)'
  BY <1>3, <1>5, <1>6, <1>7 DEF Explored, Filed, Origin
<1>9. QED
  BY <1>8

(* The next walk is visited: the last one has been crossed in every way. *)
LEMMA VisitExplores ==
  ASSUME SearchInv, SearchInv', NEW W, Explored(W), Visit
  PROVE  Explored(W)'
<1> DEFINE w == Head(queue)
<1>1. /\ queue # <<>> /\ tests = <<>> /\ arrivals = {}
      /\ problem' = problem /\ queue' = Tail(queue) /\ walk' = w /\ tests' = order[w.state]
      /\ begun' = begun /\ moved' = moved /\ arrivals' = arrivals /\ seen' = seen
  BY DEF Visit, Idle, arguments
<1>2. /\ IF IsSolution(w)
         THEN /\ results' = results \cup {ResultKey(Origin(w), w)}
              /\ finished' = Append(finished, w)
         ELSE results' = results /\ finished' = finished
  BY DEF Visit
<1>3. w \in ToSet(queue) /\ ToSet(queue) = {w} \cup ToSet(Tail(queue))
  BY <1>1, HeadAndTail DEF SearchInv
<1>4. w \in W /\ w.state \in States(problem.machine)
  BY <1>3 DEF Explored, Waiting
<1>5. ToSet(tests') = Outgoing(problem.machine, w.state)
  BY <1>1, <1>4 DEF SearchInv, Orders
<1>6. ToSet(finished') \subseteq ToSet(finished) \cup {w}
  <2> DEFINE S == Waiting(problem)
  <2>1. finished \in Seq(S) /\ w \in S
    BY <1>4 DEF SearchInv, Explored
  <2>2. finished' = finished \/ finished' = Append(finished, w)
    BY <1>2
  <2> HIDE DEF w, S
  <2>3. ToSet(Append(finished, w)) = ToSet(finished) \cup {w}
    BY <2>1, Appended
  <2>4. QED
    BY <2>2, <2>3
<1>7. results \subseteq results'
  BY <1>2
<1>8. w.state \in problem.machine.valid => ResultKey(Origin(w), w) \in results'
  BY <1>2 DEF IsSolution
<1> HIDE DEF w
<1>9. ASSUME NEW u \in W, u \notin ToSet(queue')
      PROVE  /\ u.state \in problem.machine.valid => ResultKey(Origin(u), u) \in results'
             /\ u = walk' \/ \A v \in Onward(problem, u) : Key(v) \in seen
  <2>1. CASE u = w
    BY <1>1, <1>8, <2>1
  <2>2. CASE u # w
    <3>1. u \notin ToSet(queue)
      BY <1>1, <1>3, <1>9, <2>2
    <3>2. Filed(u) /\ (u = walk \/ \A v \in Onward(problem, u) : Key(v) \in seen)
      BY <3>1 DEF Explored
    <3>3. ASSUME u = walk, NEW v \in Onward(problem, u) PROVE Key(v) \in seen
      <4>1. PICK edge \in Outgoing(problem.machine, walk.state) : v \in Beyond(problem, walk, edge)
        BY <3>3 DEF Onward
      <4>2. ToSet(tests) = {}
        BY <1>1 DEF ToSet
      <4>3. QED
        BY <1>1, <3>1, <3>3, <4>1, <4>2 DEF Explored
    <3>4. QED
      BY <1>7, <3>2, <3>3 DEF Filed
  <2>3. QED
    BY <2>1, <2>2
<1>10. QED
  BY <1>1, <1>3, <1>4, <1>5, <1>6, <1>9 DEF Explored, Filed, Origin

(* A solution is kept when no other has its result. *)
LEMMA VisitDistinct ==
  ASSUME SearchInv, Distinct, Visit
  PROVE  Distinct'
<1> DEFINE w == Head(queue)
           rk(f) == ResultKey(problem.machine.origin[f.state], f)
<1>1. problem' = problem
  BY DEF Visit, arguments
<1>2. finished \in Seq(Waiting(problem)) /\ w \in Waiting(problem)
  <2> DEFINE S == Waiting(problem)
  <2>1. queue \in Seq(S) /\ finished \in Seq(S) /\ queue # <<>>
    BY DEF SearchInv, Visit
  <2> HIDE DEF S
  <2>2. w \in S
    BY <2>1
  <2>3. QED
    BY <2>1, <2>2 DEF S
<1>3. /\ results = {rk(f) : f \in ToSet(finished)}
      /\ \A f \in ToSet(finished) : f.state \in problem.machine.valid
      /\ \A i, j \in DOMAIN finished : rk(finished[i]) = rk(finished[j]) => i = j
  BY DEF Distinct, Origin
<1>4. \/ results' = results /\ finished' = finished
      \/ /\ w.state \in problem.machine.valid /\ rk(w) \notin results
         /\ results' = results \cup {rk(w)} /\ finished' = Append(finished, w)
  BY DEF Visit, IsSolution, Origin
<1> HIDE DEF w
<1>5. /\ results' = {rk(f) : f \in ToSet(finished')}
      /\ \A f \in ToSet(finished') : f.state \in problem.machine.valid
      /\ \A i, j \in DOMAIN finished' : rk(finished'[i]) = rk(finished'[j]) => i = j
  <2>1. CASE results' = results /\ finished' = finished
    BY <1>3, <2>1
  <2>2. CASE /\ w.state \in problem.machine.valid /\ rk(w) \notin results
             /\ results' = results \cup {rk(w)} /\ finished' = Append(finished, w)
    <3> DEFINE n == Len(finished)
    <3>1. /\ n \in Nat /\ DOMAIN finished = 1 .. n /\ DOMAIN finished' = 1 .. n + 1
          /\ \A i \in 1 .. n : finished'[i] = finished[i]
          /\ finished'[n + 1] = w
          /\ ToSet(finished') = ToSet(finished) \cup {w}
      BY <1>2, <2>2, Appended
    <3>2. \A i \in 1 .. n : rk(finished[i]) \in results
      BY <1>3, <3>1 DEF ToSet
    <3> HIDE DEF rk, n
    <3>3. ASSUME NEW i \in 1 .. n + 1, NEW j \in 1 .. n + 1, rk(finished'[i]) = rk(finished'[j])
          PROVE  i = j
      <4>1. (i \in 1 .. n \/ i = n + 1) /\ (j \in 1 .. n \/ j = n + 1)
        BY <3>1
      <4>2. CASE i \in 1 .. n /\ j \in 1 .. n
        BY <1>3, <3>1, <3>3, <4>2
      <4>3. CASE i = n + 1 /\ j \in 1 .. n
        BY <2>2, <3>1, <3>2, <3>3, <4>3
      <4>4. CASE i \in 1 .. n /\ j = n + 1
        BY <2>2, <3>1, <3>2, <3>3, <4>4
      <4>5. QED
        BY <4>1, <4>2, <4>3, <4>4
    <3>4. results' = {rk(f) : f \in ToSet(finished')}
      BY <1>3, <2>2, <3>1
    <3>5. QED
      BY <1>3, <2>2, <3>1, <3>3, <3>4
  <2>3. QED
    BY <1>4, <2>1, <2>2
<1>6. QED
  BY <1>1, <1>5 DEF Distinct, Origin

(* A transition is tested: the nodes where the walk goes on wait. *)
LEMMA CrossExplores ==
  ASSUME SearchInv, SearchInv', NEW W, Explored(W), Cross
  PROVE  Explored(W)'
<1> DEFINE edge == Head(tests)
<1>1. /\ tests # <<>> /\ arrivals = {} /\ tests' = Tail(tests)
      /\ problem' = problem /\ begun' = begun /\ queue' = queue /\ walk' = walk /\ seen' = seen
      /\ results' = results /\ finished' = finished
  BY DEF Cross, arguments
<1>2. walk \in W
  BY <1>1 DEF Explored
<1>3. {Moved(moved', n) : n \in arrivals'} = Beyond(problem, walk, edge)
  BY DEF Cross, Beyond
<1>4. ToSet(tests) = {edge} \cup ToSet(tests')
  BY <1>1, HeadAndTail DEF SearchInv
<1>5. edge \in Outgoing(problem.machine, walk.state)
  BY <1>4 DEF Explored
<1> HIDE DEF edge
<1>6. \A n \in arrivals' : Moved(moved', n) \in Onward(problem, walk)
  BY <1>3, <1>5 DEF Onward
<1>7. ASSUME walk \notin ToSet(queue), NEW e \in Outgoing(problem.machine, walk.state),
             e \notin ToSet(tests'), NEW v \in Beyond(problem, walk, e)
      PROVE  Key(v) \in seen \/ \E n \in arrivals' : v = Moved(moved', n)
  <2>1. CASE e = edge
    BY <1>3, <1>7, <2>1
  <2>2. CASE e # edge
    BY <1>1, <1>2, <1>4, <1>7, <2>2 DEF Explored
  <2>3. QED
    BY <2>1, <2>2
<1>8. QED
  BY <1>1, <1>2, <1>4, <1>6, <1>7 DEF Explored, Filed, Origin

(* The walk arrives at one of its nodes. *)
LEMMA ArriveExplores ==
  ASSUME SearchInv, SearchInv', NEW W, Explored(W), Arrive
  PROVE  \E V : Explored(V)'
<1> DEFINE node == Min(arrivals)
           v == Moved(moved, node)
<1>1. /\ arrivals # {} /\ arrivals' = arrivals \ {node} /\ File(v)
      /\ problem' = problem /\ begun' = begun /\ walk' = walk /\ tests' = tests /\ moved' = moved
      /\ results' = results /\ finished' = finished
  BY DEF Arrive, arguments
<1>2. node \in arrivals
  <2>1. arrivals # {} /\ arrivals \subseteq Nat \cup {-1}
    BY <1>1, ProblemFacts DEF SearchInv, NoNode
  <2>2. QED
    BY <2>1, MinMember
<1>3. walk \in W /\ v \in Onward(problem, walk)
  BY <1>1, <1>2 DEF Explored
<1>4. v \in Waiting(problem)
  <2>1. walk \in Waiting(problem) /\ IsProblem(problem)
    BY <1>3 DEF Explored, SearchInv
  <2>2. QED
    BY <1>3, <2>1, OnwardKeeps
<1> HIDE DEF node, v
<1>5. v \in Ends(problem)
  <2>1. walk \in Ends(problem) /\ v \in Walks
    BY <1>3, <1>4 DEF Explored, Waiting
  <2>2. QED
    BY <1>3, <2>1, OnwardEnds
<1>6. PICK V : /\ W \subseteq V /\ V \subseteq W \cup {v} /\ V \ W \subseteq ToSet(queue')
               /\ ToSet(queue) \subseteq ToSet(queue') /\ ToSet(queue') \subseteq ToSet(queue) \cup V
               /\ seen \subseteq seen' /\ Key(v) \in seen' /\ seen' = {Key(w) : w \in V}
  <2> DEFINE S == Waiting(problem)
  <2>1. queue \in Seq(S) /\ v \in S /\ seen = {Key(w) : w \in W} /\ File(v)
    BY <1>1, <1>4 DEF SearchInv, Explored
  <2> HIDE DEF S
  <2>2. QED
    BY <2>1, FileExplores
<1>7. ASSUME walk \in V \ ToSet(queue'), NEW e \in Outgoing(problem.machine, walk.state) \ ToSet(tests),
             NEW u \in Beyond(problem, walk, e)
      PROVE  Key(u) \in seen' \/ \E n \in arrivals' : u = Moved(moved, n)
  <2>1. Key(u) \in seen \/ \E n \in arrivals : u = Moved(moved, n)
    BY <1>3, <1>6, <1>7 DEF Explored
  <2>2. QED
    BY <1>1, <1>6, <2>1 DEF v
<1>8. QED
  <2>1. Explored(V)'
    BY <1>1, <1>3, <1>4, <1>5, <1>6, <1>7 DEF Explored, Filed, Origin
  <2>2. QED
    BY <2>1
(* Nothing changes while the search stands still. *)
LEMMA StillExplores ==
  ASSUME NEW W, Explored(W), Distinct, UNCHANGED vars
  PROVE  Explored(W)' /\ Distinct'
  BY DEF Explored, Distinct, Filed, Origin, vars, arguments

(* The search only ever forgets a walk whose key it has seen. *)
LEMMA NextExplores == ExploredInv /\ [Next]_vars => ExploredInv'
<1> SUFFICES ASSUME ExploredInv, [Next]_vars PROVE ExploredInv'
  OBVIOUS
<1>1. SearchInv /\ SearchInv' /\ Distinct
  BY NextSearch DEF ExploredInv
<1>2. PICK W : Explored(W)
  BY DEF ExploredInv, IsExplored
<1>3. Distinct'
  <2>1. CASE Visit
    BY <1>1, <2>1, VisitDistinct
  <2>2. CASE Begin \/ Cross \/ Arrive \/ UNCHANGED vars
    <3>1. problem' = problem /\ results' = results /\ finished' = finished
      BY <2>2 DEF Begin, Cross, Arrive, vars, arguments
    <3>2. QED
      BY <1>1, <3>1 DEF Distinct, Origin
  <2>3. QED
    BY <2>1, <2>2 DEF Next
<1>4. \E V : Explored(V)'
  <2>1. CASE Begin
    BY <1>1, <1>2, <2>1, BeginExplores
  <2>2. CASE Visit
    BY <1>1, <1>2, <2>2, VisitExplores
  <2>3. CASE Cross
    BY <1>1, <1>2, <2>3, CrossExplores
  <2>4. CASE Arrive
    BY <1>1, <1>2, <2>4, ArriveExplores
  <2>5. CASE UNCHANGED vars
    BY <1>1, <1>2, <2>5, StillExplores
  <2>6. QED
    BY <2>1, <2>2, <2>3, <2>4, <2>5 DEF Next
<1>5. IsExplored'
  BY <1>4 DEF IsExplored, Explored
<1>6. QED
  BY <1>1, <1>3, <1>5 DEF ExploredInv

(* Every search accounts for the keys it has seen. *)
LEMMA SearchExplores == Spec => []ExploredInv
<1>1. Init => ExploredInv
  BY InitSearch, InitExplores DEF ExploredInv, IsExplored
<1>2. QED
  BY <1>1, NextExplores, PTL DEF Spec

(* Every finished walk is a run that ends in a valid state, and no two of    *)
(* them are the same result.                                                *)
FinishedAreRuns ==
  /\ \A f \in ToSet(finished) : f \in Ends(problem) /\ f.state \in problem.machine.valid
  /\ \A i, j \in DOMAIN finished :
       ResultKey(Origin(finished[i]), finished[i]) = ResultKey(Origin(finished[j]), finished[j]) => i = j

(* The search finds nothing but runs, and no result twice, whatever the     *)
(* automaton.                                                               *)
THEOREM FinishedWalksAreRuns == Spec => []FinishedAreRuns
<1>1. ExploredInv => FinishedAreRuns
  BY DEF ExploredInv, IsExplored, Explored, Distinct, FinishedAreRuns
<1>2. QED
  BY <1>1, SearchExplores, PTL

(* The runs that W keeps stand for all runs, up to the key. *)
Closed(W) ==
  /\ \A w \in Begun(problem) : \E u \in W : Key(u) = Key(w)
  /\ \A w \in W : \A v \in Onward(problem, w) : \E u \in W : Key(u) = Key(v)
  /\ \A w \in W : w.state \in problem.machine.valid =>
       \E f \in ToSet(finished) : ResultKey(Origin(f), f) = ResultKey(Origin(w), w)

(* An exhausted search has followed a run for every key, and has a finished *)
(* walk for every result.                                                   *)
KeysAreExplored ==
  Exhausted => \E W \in SUBSET (Ends(problem) \cap Waiting(problem)) : ToSet(finished) \subseteq W /\ Closed(W)

(* When nothing is left to visit, nothing is unaccounted for. *)
LEMMA ExhaustedIsClosed == ExploredInv => KeysAreExplored
<1> SUFFICES ASSUME ExploredInv, Exhausted
             PROVE  \E W \in SUBSET (Ends(problem) \cap Waiting(problem)) : ToSet(finished) \subseteq W /\ Closed(W)
  BY DEF KeysAreExplored
<1>1. PICK W : Explored(W)
  BY DEF ExploredInv, IsExplored
<1>2. /\ seen = {Key(w) : w \in W} /\ W \subseteq Ends(problem) \cap Waiting(problem)
      /\ ToSet(finished) \subseteq W
  BY <1>1 DEF Explored
<1>3. begun = Len(problem.tuple) /\ ToSet(tests) = {} /\ arrivals = {} /\ ToSet(queue) = {}
  BY DEF Exhausted, Idle, ToSet
<1>4. ASSUME NEW w \in Begun(problem) PROVE \E u \in W : Key(u) = Key(w)
  <2>1. PICK k \in 1 .. begun : w = Start(problem.machine.starts[k], problem.tuple[k])
    BY <1>3 DEF Begun
  <2>2. Key(w) \in seen
    BY <1>1, <2>1 DEF Explored
  <2>3. QED
    BY <1>2, <2>2
<1>5. ASSUME NEW w \in W, NEW v \in Onward(problem, w) PROVE \E u \in W : Key(u) = Key(v)
  <2>1. Key(v) \in seen
    <3>1. CASE w # walk
      BY <1>1, <1>3, <3>1 DEF Explored
    <3>2. CASE w = walk
      <4>1. PICK edge \in Outgoing(problem.machine, walk.state) : v \in Beyond(problem, walk, edge)
        BY <3>2 DEF Onward
      <4>2. QED
        BY <1>1, <1>3, <3>2, <4>1 DEF Explored
    <3>3. QED
      BY <3>1, <3>2
  <2>2. QED
    BY <1>2, <2>1
<1>6. ASSUME NEW w \in W, w.state \in problem.machine.valid
      PROVE  \E f \in ToSet(finished) : ResultKey(Origin(f), f) = ResultKey(Origin(w), w)
  <2>1. ResultKey(Origin(w), w) \in results
    BY <1>1, <1>3, <1>6 DEF Explored, Filed
  <2>2. results = {ResultKey(Origin(f), f) : f \in ToSet(finished)}
    BY DEF ExploredInv, Distinct
  <2>3. QED
    BY <2>1, <2>2
<1>7. Closed(W)
  BY <1>4, <1>5, <1>6 DEF Closed
<1>8. QED
  BY <1>2, <1>7

(* Dropping walks by their keys is a search of the keys: whatever the       *)
(* automaton, the walks that were followed are closed under its transitions *)
(* up to their keys, and none of their results is missing.                  *)
THEOREM SearchIsClosed == Spec => []KeysAreExplored
<1>1. QED
  BY ExhaustedIsClosed, SearchExplores, PTL

-----------------------------------------------------------------------------
(***************************************************************************)
(* Without quantifiers a key loses nothing that matters: walks with one key *)
(* may have captured the same nodes in another order, and numbered arrows   *)
(* see only what was captured since they were entered.                      *)
(***************************************************************************)
Bare(machine) == \A edge \in machine.edges : edge.label.type # "TRACE"

Since(w, k) == Len(w.captures) - w.scopes[k]

(* Walks that no transition but one of a quantifier can tell apart. *)
Alike(v, w) ==
  /\ v.state = w.state /\ v.node = w.node /\ v.commons = w.commons /\ v.rejected = w.rejected
  /\ ToSet(v.captures) = ToSet(w.captures)
  /\ Len(v.scopes) = Len(w.scopes) /\ \A k \in 1 .. Len(w.scopes) : Since(v, k) = Since(w, k)
  /\ (\E k \in 1 .. Len(w.scopes) : Since(w, k) > 0) => Last(v.captures) = Last(w.captures)

Captures == [node : Nat, predicate : STRING]

(* The parts of a walk that are compared. *)
LEMMA WalkParts ==
  ASSUME NEW w \in Walks
  PROVE  /\ w.captures \in Seq(Captures) /\ Len(w.captures) \in Nat
         /\ w.scopes \in Seq(Nat) /\ Len(w.scopes) \in Nat
         /\ DOMAIN w.scopes = 1 .. Len(w.scopes)
         /\ \A k \in 1 .. Len(w.scopes) : w.scopes[k] \in Nat /\ Since(w, k) \in Int
<1>1. w.captures \in Seq(Captures) /\ w.scopes \in Seq(Nat)
  BY DEF Walks, Captures
<1>2. Len(w.captures) \in Nat
  BY <1>1
<1>3. QED
  BY <1>1, <1>2 DEF Since

(* What equal contents agree on, whatever their traces are. *)
LEMMA SameContents ==
  ASSUME NEW v, NEW w, Contents(v) = Contents(w)
  PROVE  /\ v.commons = w.commons /\ v.rejected = w.rejected
         /\ ToSet(v.captures) = ToSet(w.captures) /\ v.scopes = w.scopes
         /\ v.scopes # <<>> => Items(v, 0, Len(v.captures)) = Items(w, 0, Len(w.captures))
<1> DEFINE tv == TraceTree(v)
           tw == TraceTree(w)
           xv == IF v.scopes = <<>> THEN <<>> ELSE Items(v, 0, Len(v.captures))
           xw == IF w.scopes = <<>> THEN <<>> ELSE Items(w, 0, Len(w.captures))
<1>1. [commons |-> v.commons, rejected |-> v.rejected, valid |-> ToSet(v.captures),
       scopes |-> v.scopes, exact |-> xv, trace |-> tv]
      = [commons |-> w.commons, rejected |-> w.rejected, valid |-> ToSet(w.captures),
         scopes |-> w.scopes, exact |-> xw, trace |-> tw]
  BY DEF Contents
<1> HIDE DEF tv, tw, xv, xw
<1>2. /\ v.commons = w.commons /\ v.rejected = w.rejected
      /\ ToSet(v.captures) = ToSet(w.captures) /\ v.scopes = w.scopes /\ xv = xw
  BY <1>1
<1>3. QED
  BY <1>2 DEF xv, xw

(* A key says all of it. *)
LEMMA KeysAreAlike ==
  ASSUME NEW v \in Walks, NEW w \in Walks, Key(v) = Key(w)
  PROVE  Alike(v, w)
<1>1. v.state = w.state /\ v.node = w.node /\ Contents(v) = Contents(w)
  BY DEF Key
<1>2. /\ v.commons = w.commons /\ v.rejected = w.rejected
      /\ ToSet(v.captures) = ToSet(w.captures) /\ v.scopes = w.scopes
      /\ v.scopes # <<>> => Items(v, 0, Len(v.captures)) = Items(w, 0, Len(w.captures))
  BY <1>1, SameContents
<1>3. CASE v.scopes = <<>>
  BY <1>1, <1>2, <1>3, WalkParts DEF Alike
<1>4. CASE v.scopes # <<>>
  <2> DEFINE m == Len(v.captures)
             n == Len(w.captures)
  <2>1. m \in Nat /\ n \in Nat /\ v.captures \in Seq(Captures) /\ w.captures \in Seq(Captures)
    BY WalkParts
  <2>2. [k \in 1 .. m |-> Item(v.captures[k])] = [k \in 1 .. n |-> Item(w.captures[k])]
    <3>1. [k \in 1 .. m - 0 |-> Item(v.captures[0 + k])] = [k \in 1 .. n - 0 |-> Item(w.captures[0 + k])]
      BY <1>2, <1>4 DEF Items
    <3>2. \A k \in Nat : 0 + k = k /\ k - 0 = k
      OBVIOUS
    <3>3. QED
      BY <2>1, <3>1, <3>2
  <2> HIDE DEF m, n
  <2>3. 1 .. m = 1 .. n /\ \A k \in 1 .. m : Item(v.captures[k]) = Item(w.captures[k])
    BY <2>2
  <2>4. m = n
    BY <2>1, <2>3
  <2>5. ASSUME m > 0 PROVE v.captures[m] = w.captures[m]
    <3>1. m \in 1 .. m
      BY <2>1, <2>5
    <3>2. v.captures[m] \in Captures /\ w.captures[m] \in Captures
      BY <2>1, <2>4, <3>1 DEF m, n
    <3>3. Item(v.captures[m]) = Item(w.captures[m])
      BY <2>3, <3>1
    <3>4. QED
      BY <3>2, <3>3 DEF Item, Captures
  <2>6. \A k \in 1 .. Len(w.scopes) : Since(v, k) = Since(w, k) /\ (Since(w, k) > 0 => n > 0)
    BY <1>2, <2>1, <2>4, WalkParts DEF Since, m, n
  <2>7. QED
    BY <1>1, <1>2, <2>4, <2>5, <2>6 DEF Alike, Last, m, n
<1>5. QED
  BY <1>3, <1>4

(* Being alike is transitive. *)
LEMMA AlikeTransitive ==
  ASSUME NEW u, NEW v, NEW w, Alike(u, v), Alike(v, w)
  PROVE  Alike(u, w)
  BY DEF Alike

(* What Alike says of the fields that operations read. *)
LEMMA AlikeReads ==
  ASSUME NEW v, NEW w, Alike(v, w)
  PROVE  /\ ValidNodes(v) = ValidNodes(w) /\ CommonNodes(v) = CommonNodes(w)
         /\ PlainNodes(v) = PlainNodes(w)
         /\ \A id : CommonNodeFromIdx(v, id) = CommonNodeFromIdx(w, id)
  BY DEF Alike, ValidNodes, CommonNodes, PlainNodes, CommonNodeFromIdx

(* Only these fields matter. *)
LEMMA SameAlike ==
  ASSUME NEW v, NEW w, Alike(v, w), NEW x, NEW y,
         x.captures = v.captures, x.scopes = v.scopes, y.captures = w.captures, y.scopes = w.scopes,
         x.state = y.state, x.node = y.node, x.commons = y.commons, x.rejected = y.rejected
  PROVE  Alike(x, y)
  BY DEF Alike, Since

(* Alike walks stay alike when they capture the same node. *)
LEMMA AlikeCaptures ==
  ASSUME NEW v, NEW w, Alike(v, w), NEW x \in Walks, NEW y \in Walks, v \in Walks, w \in Walks, NEW c \in Captures,
         x.captures = Append(v.captures, c), x.scopes = v.scopes,
         y.captures = Append(w.captures, c), y.scopes = w.scopes,
         x.state = y.state, x.node = y.node, x.commons = y.commons, x.rejected = y.rejected
  PROVE  Alike(x, y)
<1>1. /\ Len(x.captures) = Len(v.captures) + 1 /\ Last(x.captures) = c
      /\ ToSet(x.captures) = ToSet(v.captures) \cup {c}
      /\ Len(y.captures) = Len(w.captures) + 1 /\ Last(y.captures) = c
      /\ ToSet(y.captures) = ToSet(w.captures) \cup {c}
  <2>1. v.captures \in Seq(Captures) /\ w.captures \in Seq(Captures)
    BY WalkParts
  <2> HIDE DEF Captures
  <2>2. QED
    BY <2>1, Appended DEF Last
<1>2. ASSUME NEW k \in 1 .. Len(w.scopes) PROVE Since(x, k) = Since(y, k)
  <2>1. Since(v, k) = Since(w, k) /\ v.scopes[k] \in Nat /\ w.scopes[k] \in Nat
        /\ Len(v.captures) \in Nat /\ Len(w.captures) \in Nat
    BY WalkParts DEF Alike
  <2> DEFINE a == Len(v.captures)
             b == Len(w.captures)
             i == v.scopes[k]
             j == w.scopes[k]
  <2>2. a \in Nat /\ b \in Nat /\ i \in Nat /\ j \in Nat /\ a - i = b - j
    BY <2>1 DEF Since
  <2>3. Since(x, k) = (a + 1) - i /\ Since(y, k) = (b + 1) - j
    BY <1>1 DEF Since
  <2> HIDE DEF a, b, i, j
  <2>4. QED
    BY <2>2, <2>3
<1>3. QED
  BY <1>1, <1>2 DEF Alike

(* Entering a numbered arrow, checking its port and leaving it. *)
LEMMA AlikeScopes ==
  ASSUME NEW v \in Walks, NEW w \in Walks, Alike(v, w)
  PROVE  /\ Alike(BeginPortScope(v), BeginPortScope(w))
         /\ CapturedInScope(v) = CapturedInScope(w)
         /\ CapturedInScope(w) => /\ Last(v.captures) = Last(w.captures)
                                  /\ Alike(CheckedPort(v), CheckedPort(w))
                                  /\ Alike(EndPortScope(v), EndPortScope(w))
<1> DEFINE n == Len(w.scopes)
<1>1. /\ v.scopes \in Seq(Nat) /\ w.scopes \in Seq(Nat) /\ n \in Nat /\ Len(v.scopes) = n
      /\ Len(v.captures) \in Nat /\ Len(w.captures) \in Nat
      /\ \A k \in 1 .. n : v.scopes[k] \in Nat /\ w.scopes[k] \in Nat /\ Since(w, k) \in Int
      /\ \A k \in 1 .. n : Since(v, k) = Since(w, k)
      /\ DOMAIN v.scopes = 1 .. n /\ DOMAIN w.scopes = 1 .. n
  BY WalkParts DEF Alike
<1> DEFINE With(x, s) == [x EXCEPT !.scopes = s]
<1>2. ASSUME NEW x \in Walks, NEW s
      PROVE  /\ With(x, s).scopes = s /\ With(x, s).captures = x.captures /\ With(x, s).state = x.state
             /\ With(x, s).node = x.node /\ With(x, s).commons = x.commons /\ With(x, s).rejected = x.rejected
  BY DEF Walks
<1> HIDE DEF With
<1>3. ASSUME NEW s \in Seq(Nat), NEW t \in Seq(Nat), Len(s) = Len(t),
             \A k \in 1 .. Len(t) : Len(v.captures) - s[k] = Len(w.captures) - t[k],
             \A k \in 1 .. Len(t) : Len(w.captures) - t[k] > 0 => \E l \in 1 .. n : Since(w, l) > 0
      PROVE  Alike(With(v, s), With(w, t))
  BY <1>2, <1>3 DEF Alike, Since
<1> HIDE DEF n
<1>4. Alike(BeginPortScope(v), BeginPortScope(w))
  <2> DEFINE s == Append(v.scopes, Len(v.captures))
             t == Append(w.scopes, Len(w.captures))
  <2>1. /\ s \in Seq(Nat) /\ t \in Seq(Nat) /\ Len(s) = n + 1 /\ Len(t) = n + 1
        /\ \A k \in 1 .. n : s[k] = v.scopes[k] /\ t[k] = w.scopes[k]
        /\ s[n + 1] = Len(v.captures) /\ t[n + 1] = Len(w.captures)
    BY <1>1, Appended DEF n
  <2>2. ASSUME NEW k \in 1 .. Len(t)
        PROVE  /\ Len(v.captures) - s[k] = Len(w.captures) - t[k]
               /\ Len(w.captures) - t[k] > 0 => \E l \in 1 .. n : Since(w, l) > 0
    <3>1. k \in 1 .. n \/ k = n + 1
      BY <1>1, <2>1
    <3>2. CASE k \in 1 .. n
      BY <1>1, <2>1, <3>2 DEF Since
    <3>3. CASE k = n + 1
      BY <1>1, <2>1, <3>3
    <3>4. QED
      BY <3>1, <3>2, <3>3
  <2>3. BeginPortScope(v) = With(v, s) /\ BeginPortScope(w) = With(w, t)
    BY DEF BeginPortScope, With, Walks
  <2> HIDE DEF s, t
  <2>4. QED
    BY <1>3, <2>1, <2>2, <2>3
<1>5. /\ (v.scopes # <<>>) = (w.scopes # <<>>)
      /\ w.scopes # <<>> => n \in 1 .. n
  BY <1>1 DEF n
<1>6. /\ CapturedInScope(v) = CapturedInScope(w)
      /\ CapturedInScope(w) => n \in 1 .. n /\ Since(w, n) > 0
  <2>1. CASE w.scopes = <<>>
    BY <1>5, <2>1 DEF CapturedInScope
  <2>2. CASE w.scopes # <<>>
    <3> DEFINE a == Len(v.captures)
               b == Len(w.captures)
               i == v.scopes[n]
               j == w.scopes[n]
    <3>1. /\ a \in Nat /\ b \in Nat /\ i \in Nat /\ j \in Nat /\ a - i = b - j /\ n \in 1 .. n
          /\ Last(v.scopes) = i /\ Last(w.scopes) = j
      BY <1>1, <1>5, <2>2 DEF Last, n, Since
    <3>2. /\ CapturedInScope(v) <=> a > i
          /\ CapturedInScope(w) <=> b > j
          /\ Since(w, n) = b - j
      BY <1>5, <2>2, <3>1 DEF CapturedInScope, Since
    <3> HIDE DEF a, b, i, j
    <3>3. (a > i <=> b > j) /\ (b > j => b - j > 0)
      BY <3>1
    <3>4. CapturedInScope(v) \in BOOLEAN /\ CapturedInScope(w) \in BOOLEAN
      BY DEF CapturedInScope
    <3>5. QED
      BY <3>1, <3>2, <3>3, <3>4
  <2>3. QED
    BY <2>1, <2>2
<1>7. ASSUME CapturedInScope(w)
      PROVE  /\ Last(v.captures) = Last(w.captures)
             /\ Alike(CheckedPort(v), CheckedPort(w)) /\ Alike(EndPortScope(v), EndPortScope(w))
  <2>1. Last(v.captures) = Last(w.captures)
    BY <1>6, <1>7 DEF Alike, n
  <2>2. Alike(CheckedPort(v), CheckedPort(w))
    <3> DEFINE s == [v.scopes EXCEPT ![n] = Len(v.captures)]
               t == [w.scopes EXCEPT ![n] = Len(w.captures)]
    <3>1. /\ s \in Seq(Nat) /\ t \in Seq(Nat) /\ Len(s) = n /\ Len(t) = n
          /\ \A k \in 1 .. n : s[k] = IF k = n THEN Len(v.captures) ELSE v.scopes[k]
          /\ \A k \in 1 .. n : t[k] = IF k = n THEN Len(w.captures) ELSE w.scopes[k]
      BY <1>1, <1>6, <1>7, ExceptSeq DEF n
    <3>2. CheckedPort(v) = With(v, s) /\ CheckedPort(w) = With(w, t)
      BY <1>1 DEF CheckedPort, With, Walks, n
    <3> HIDE DEF s, t
    <3>3. \A k \in 1 .. n : /\ Len(v.captures) - s[k] = Len(w.captures) - t[k]
                            /\ Len(w.captures) - t[k] > 0 => Since(w, k) > 0
      <4> SUFFICES ASSUME NEW k \in 1 .. n
                   PROVE  /\ Len(v.captures) - s[k] = Len(w.captures) - t[k]
                          /\ Len(w.captures) - t[k] > 0 => Since(w, k) > 0
        OBVIOUS
      <4>1. CASE k = n
        <5>1. s[k] = Len(v.captures) /\ t[k] = Len(w.captures)
          BY <3>1, <4>1
        <5>2. \A a \in Nat : a - a = 0
          OBVIOUS
        <5>3. Len(v.captures) - s[k] = 0 /\ Len(w.captures) - t[k] = 0
          BY <1>1, <5>1, <5>2
        <5>4. QED
          BY <5>3
      <4>2. CASE k # n
        BY <1>1, <3>1, <4>2 DEF Since
      <4>3. QED
        BY <4>1, <4>2
    <3>4. QED
      BY <1>3, <3>1, <3>2, <3>3
  <2>3. Alike(EndPortScope(v), EndPortScope(w))
    <3> DEFINE s == Front(v.scopes)
               t == Front(w.scopes)
    <3>1. v.scopes # <<>> /\ w.scopes # <<>>
      BY <1>5, <1>7 DEF CapturedInScope
    <3>2. /\ s \in Seq(Nat) /\ t \in Seq(Nat) /\ Len(s) = n - 1 /\ Len(t) = n - 1
          /\ \A k \in 1 .. n - 1 : s[k] = v.scopes[k] /\ t[k] = w.scopes[k]
      BY <1>1, <3>1, Shortened DEF n
    <3>3. EndPortScope(v) = With(v, s) /\ EndPortScope(w) = With(w, t)
      BY DEF EndPortScope, With
    <3> HIDE DEF s, t
    <3>4. \A k \in 1 .. n - 1 : k \in 1 .. n
      BY <1>1
    <3>5. \A k \in 1 .. n - 1 : /\ Len(v.captures) - s[k] = Len(w.captures) - t[k]
                                /\ Len(w.captures) - t[k] > 0 => k \in 1 .. n /\ Since(w, k) > 0
      BY <1>1, <3>2, <3>4 DEF Since
    <3>6. QED
      BY <1>3, <3>2, <3>3, <3>5
  <2>4. QED
    BY <2>1, <2>2, <2>3
<1>8. QED
  BY <1>4, <1>6, <1>7

-----------------------------------------------------------------------------
(* Two answers that let alike walks go on in the same way. *)
Agree(a, b) == a.success = b.success /\ a.nodes = b.nodes /\ Alike(a.walk, b.walk)

(* Refusing, staying and going on. *)
LEMMA AlikeOutcomes ==
  ASSUME NEW v, NEW w, Alike(v, w)
  PROVE  /\ Agree(Refuse(v), Refuse(w)) /\ Agree(StayPut(v), StayPut(w))
         /\ \A nodes : Agree(GoTo(v, nodes), GoTo(w, nodes))
  BY DEF Agree, Refuse, StayPut, GoTo, Alike

(* What capturing a node writes, and binding an identity. *)
LEMMA CaptureWrites ==
  ASSUME NEW w \in Walks, NEW node \in Nat, NEW predicate \in STRING
  PROVE  /\ SetValid(w, node, predicate) \in Walks
         /\ SetValid(w, node, predicate).captures
              = Append(w.captures, [node |-> node, predicate |-> predicate])
         /\ SetValid(w, node, predicate).scopes = w.scopes
         /\ SetValid(w, node, predicate).state = w.state
         /\ SetValid(w, node, predicate).node = w.node
         /\ SetValid(w, node, predicate).commons = w.commons
         /\ SetValid(w, node, predicate).rejected = w.rejected
<1> DEFINE c == [node |-> node, predicate |-> predicate]
           x == SetValid(w, node, predicate)
           t == Append(w.captures, c)
           b == w.threw \/ CapturedTwice(w, node, predicate)
<1>1. c \in [node : Nat, predicate : STRING]
  OBVIOUS
<1>2. t \in Seq([node : Nat, predicate : STRING])
  BY <1>1 DEF Walks
<1>3. b \in BOOLEAN
  BY DEF CapturedTwice
<1>4. x = [w EXCEPT !.captures = t, !.threw = b]
  BY DEF SetValid, Walks
<1> HIDE DEF c, t, b, x
<1>5. x \in Walks /\ x.captures = t /\ x.scopes = w.scopes /\ x.state = w.state /\ x.node = w.node
      /\ x.commons = w.commons /\ x.rejected = w.rejected
  BY <1>2, <1>3, <1>4 DEF Walks
<1>6. QED
  BY <1>5 DEF t, x, c

LEMMA BindingWrites ==
  ASSUME NEW w \in Walks, NEW node \in Nat, NEW id \in Nat
  PROVE  /\ SetCommon(w, node, id) \in Walks
         /\ SetCommon(w, node, id).captures = w.captures
         /\ SetCommon(w, node, id).scopes = w.scopes
         /\ SetCommon(w, node, id).state = w.state
         /\ SetCommon(w, node, id).node = w.node
         /\ SetCommon(w, node, id).rejected = w.rejected
         /\ node \in CommonNodes(w) => SetCommon(w, node, id).commons = w.commons
         /\ node \notin CommonNodes(w) =>
              SetCommon(w, node, id).commons = w.commons \cup {[node |-> node, id |-> id]}
<1> DEFINE y == SetCommon(w, node, id)
<1>1. CASE node \in CommonNodes(w)
  <2> DEFINE b == w.threw \/ [node |-> node, id |-> id] \notin w.commons
  <2>1. b \in BOOLEAN
    OBVIOUS
  <2>2. y = [w EXCEPT !.threw = b]
    BY <1>1 DEF SetCommon, Walks
  <2> HIDE DEF b, y
  <2>3. y \in Walks /\ y.captures = w.captures /\ y.scopes = w.scopes /\ y.state = w.state
        /\ y.node = w.node /\ y.rejected = w.rejected /\ y.commons = w.commons
    BY <2>1, <2>2 DEF Walks
  <2>4. QED
    BY <1>1, <2>3 DEF y
<1>2. CASE node \notin CommonNodes(w)
  <2> DEFINE m == w.commons \cup {[node |-> node, id |-> id]}
  <2>1. m \in SUBSET [node : Nat, id : Nat]
    BY DEF Walks
  <2>2. y = [w EXCEPT !.commons = m]
    BY <1>2 DEF SetCommon, Walks
  <2> HIDE DEF m, y
  <2>3. y \in Walks /\ y.captures = w.captures /\ y.scopes = w.scopes /\ y.state = w.state
        /\ y.node = w.node /\ y.rejected = w.rejected /\ y.commons = m
    BY <2>1, <2>2 DEF Walks
  <2>4. QED
    BY <1>2, <2>3 DEF m, y
<1>3. QED
  BY <1>1, <1>2

(* A plain occurrence refuses both walks, or captures one node for both. *)
LEMMA AlikeUnique ==
  ASSUME NEW g, NEW v \in Walks, NEW w \in Walks, Alike(v, w), w.node \in Nat \/ w.node = NoNode,
         NEW label \in Labels, label.type = "UNIQUE"
  PROVE  Agree(TestUnique(g, v, label), TestUnique(g, w, label))
<1> DEFINE x == SetValid(v, v.node, label.predicate)
           y == SetValid(w, w.node, label.predicate)
<1>1. v.node = w.node /\ ValidNodes(v) = ValidNodes(w)
  BY AlikeReads DEF Alike
<1>2. ASSUME w.node # NoNode PROVE Agree(GoTo(x, NextNodes(g, v, label)), GoTo(y, NextNodes(g, w, label)))
  <2>1. v.node \in Nat /\ w.node \in Nat /\ label.predicate \in STRING
    BY <1>1, <1>2 DEF Labels, Empty, Null, Alternative
  <2> DEFINE c == [node |-> w.node, predicate |-> label.predicate]
  <2>2. c \in Captures
    BY <2>1 DEF Captures
  <2>3. /\ x \in Walks /\ x.captures = Append(v.captures, c)
        /\ x.scopes = v.scopes /\ x.state = v.state /\ x.node = v.node
        /\ x.commons = v.commons /\ x.rejected = v.rejected
        /\ y \in Walks /\ y.captures = Append(w.captures, c)
        /\ y.scopes = w.scopes /\ y.state = w.state /\ y.node = w.node
        /\ y.commons = w.commons /\ y.rejected = w.rejected
    <3>1. /\ x \in Walks /\ x.captures = Append(v.captures, [node |-> v.node, predicate |-> label.predicate])
          /\ x.scopes = v.scopes /\ x.state = v.state /\ x.node = v.node
          /\ x.commons = v.commons /\ x.rejected = v.rejected
      BY <2>1, CaptureWrites
    <3>2. /\ y \in Walks /\ y.captures = Append(w.captures, c)
          /\ y.scopes = w.scopes /\ y.state = w.state /\ y.node = w.node
          /\ y.commons = w.commons /\ y.rejected = w.rejected
      BY <2>1, CaptureWrites
    <3> HIDE DEF x, y
    <3>3. QED
      BY <1>1, <3>1, <3>2
  <2> HIDE DEF x, y, c
  <2>4. Alike(x, y)
    <3>1. x.state = y.state /\ x.node = y.node /\ x.commons = y.commons /\ x.rejected = y.rejected
      BY <2>3 DEF Alike
    <3>2. QED
      BY <2>2, <2>3, <3>1, AlikeCaptures
  <2>5. NextNodes(g, v, label) = NextNodes(g, w, label)
    BY <1>1 DEF NextNodes
  <2>6. QED
    BY <2>4, <2>5, AlikeOutcomes
<1> HIDE DEF x, y
<1>3. Agree(Refuse(v), Refuse(w))
  BY AlikeOutcomes
<1>4. QED
  BY <1>1, <1>2, <1>3 DEF TestUnique, x, y

(* So does a common occurrence, which binds and demands the same. *)
LEMMA AlikeCommon ==
  ASSUME NEW g, NEW v \in Walks, NEW w \in Walks, Alike(v, w), w.node \in Nat \/ w.node = NoNode,
         NEW label \in Labels, label.type = "COMMON"
  PROVE  Agree(TestCommon(g, v, label), TestCommon(g, w, label))
<1> DEFINE n == w.node
           id == label.id
           x == SetCommon(v, n, id)
           y == SetCommon(w, n, id)
           covered == (IF label.inputs THEN Parents(g, w.node) ELSE {})
                        \cup (IF label.outputs THEN Children(g, w.node) ELSE {})
           xx == SetValid(x, w.node, label.predicate)
           yy == SetValid(y, w.node, label.predicate)
<1>1. v.node = w.node /\ CommonNodes(v) = CommonNodes(w) /\ MayBind(v, label.id) = MayBind(w, label.id)
      /\ v.commons = w.commons /\ v.state = w.state /\ v.rejected = w.rejected
  BY AlikeReads DEF Alike, MayBind
<1>2. ASSUME w.node # NoNode
      PROVE  Agree(GoTo(Reject(xx, covered), NextNodes(g, v, label)),
                   GoTo(Reject(yy, covered), NextNodes(g, w, label)))
  <2>1. v.node \in Nat /\ w.node \in Nat /\ label.predicate \in STRING /\ label.id \in Nat
    BY <1>1, <1>2 DEF Labels, Empty, Null, Alternative
  <2>2. /\ x \in Walks /\ x.captures = v.captures /\ x.scopes = v.scopes
        /\ y \in Walks /\ y.captures = w.captures /\ y.scopes = w.scopes
        /\ x.state = y.state /\ x.node = y.node /\ x.commons = y.commons /\ x.rejected = y.rejected
    <3>1. n \in Nat /\ id \in Nat
      BY <2>1
    <3> HIDE DEF n, id
    <3>2. /\ x \in Walks /\ x.captures = v.captures /\ x.scopes = v.scopes /\ x.state = v.state
          /\ x.node = v.node /\ x.rejected = v.rejected
          /\ n \in CommonNodes(v) => x.commons = v.commons
          /\ n \notin CommonNodes(v) => x.commons = v.commons \cup {[node |-> n, id |-> id]}
      BY <3>1, BindingWrites
    <3>3. /\ y \in Walks /\ y.captures = w.captures /\ y.scopes = w.scopes /\ y.state = w.state
          /\ y.node = w.node /\ y.rejected = w.rejected
          /\ n \in CommonNodes(w) => y.commons = w.commons
          /\ n \notin CommonNodes(w) => y.commons = w.commons \cup {[node |-> n, id |-> id]}
      BY <3>1, BindingWrites
    <3> HIDE DEF x, y
    <3>4. QED
      BY <1>1, <3>2, <3>3
  <2> HIDE DEF x, y
  <2>3. Alike(x, y)
    BY <2>2, SameAlike
  <2> DEFINE c == [node |-> w.node, predicate |-> label.predicate]
  <2>4. /\ xx \in Walks /\ xx.captures = Append(x.captures, c) /\ xx.scopes = x.scopes
        /\ yy \in Walks /\ yy.captures = Append(y.captures, c) /\ yy.scopes = y.scopes
        /\ xx.state = yy.state /\ xx.node = yy.node /\ xx.commons = yy.commons /\ xx.rejected = yy.rejected
    BY <2>1, <2>2, CaptureWrites
  <2>5. c \in Captures
    BY <2>1 DEF Captures
  <2> HIDE DEF xx, yy, c, covered
  <2>6. Alike(xx, yy)
    BY <2>2, <2>3, <2>4, <2>5, AlikeCaptures
  <2>7. Alike(Reject(xx, covered), Reject(yy, covered))
    <3> DEFINE r == Reject(xx, covered)
               s == Reject(yy, covered)
    <3>1. /\ r.captures = xx.captures /\ r.scopes = xx.scopes /\ s.captures = yy.captures /\ s.scopes = yy.scopes
          /\ r.state = s.state /\ r.node = s.node /\ r.commons = s.commons /\ r.rejected = s.rejected
      BY <2>4 DEF Reject, Walks
    <3> HIDE DEF r, s
    <3>2. Alike(r, s)
      BY <2>6, <3>1, SameAlike
    <3>3. QED
      BY <3>2 DEF r, s
  <2>8. NextNodes(g, v, label) = NextNodes(g, w, label)
    BY <1>1 DEF NextNodes
  <2>9. QED
    BY <2>7, <2>8, AlikeOutcomes
<1>3. Agree(Refuse(v), Refuse(w))
  BY AlikeOutcomes
<1>4. /\ TestCommon(g, v, label)
           = IF w.node # NoNode /\ label.predicate \in g.satisfies[w.node] /\ MayBind(w, label.id)
             THEN GoTo(Reject(xx, covered), NextNodes(g, v, label)) ELSE Refuse(v)
      /\ TestCommon(g, w, label)
           = IF w.node # NoNode /\ label.predicate \in g.satisfies[w.node] /\ MayBind(w, label.id)
             THEN GoTo(Reject(yy, covered), NextNodes(g, w, label)) ELSE Refuse(w)
  BY <1>1 DEF TestCommon
<1> HIDE DEF xx, yy, x, y, covered
<1>5. QED
  BY <1>2, <1>3, <1>4

(* A transition that is none of a quantifier cannot tell alike walks apart. *)
LEMMA AlikeTests ==
  ASSUME NEW g, NEW v \in Walks, NEW w \in Walks, Alike(v, w),
         NEW label \in Labels, label.type # "TRACE"
  PROVE  Agree(Test(g, v, label), Test(g, w, label))
<1>1. label.type \in {"UNIQUE", "COMMON", "REF", "EMPTY", "NNULL", "ALTERNATIVE", "PORT"}
  BY DEF Labels, Empty, Null, Alternative
<1>2. w.node \in Nat \/ w.node = NoNode
  BY DEF Walks
<1>3. v.node = w.node
  BY DEF Alike
<1>4. CASE label.type = "UNIQUE"
  BY <1>2, <1>4, AlikeUnique DEF Test
<1>5. CASE label.type = "COMMON"
  BY <1>2, <1>5, AlikeCommon DEF Test
<1>6. CASE label.type = "REF"
  <2>1. CommonNodeFromIdx(v, label.anchor.id) = CommonNodeFromIdx(w, label.anchor.id)
    BY AlikeReads
  <2>2. Agree(TestRef(g, v, label), TestRef(g, w, label))
    BY <2>1, AlikeOutcomes DEF TestRef
  <2>3. QED
    BY <1>6, <2>2 DEF Test
<1>7. CASE label.type \in {"EMPTY", "NNULL", "ALTERNATIVE"}
  BY <1>3, <1>7, AlikeOutcomes DEF Test, TestEmpty, TestNull
<1>8. CASE label.type = "PORT"
  <2>1. label.action \in {"Begin", "Check", "End"}
    BY <1>8 DEF Labels, Empty, Null, Alternative
  <2>2. /\ Agree(StayPut(BeginPortScope(v)), StayPut(BeginPortScope(w)))
        /\ Agree(Refuse(v), Refuse(w))
        /\ CapturedInScope(v) = CapturedInScope(w)
    BY AlikeScopes, AlikeOutcomes
  <2>3. CapturedInScope(w) =>
          /\ Last(v.captures) = Last(w.captures)
          /\ Agree(StayPut(CheckedPort(v)), StayPut(CheckedPort(w)))
          /\ Agree(StayPut(EndPortScope(v)), StayPut(EndPortScope(w)))
    BY AlikeScopes, AlikeOutcomes
  <2>4. Agree(TestPort(g, v, label), TestPort(g, w, label))
    BY <1>3, <2>1, <2>2, <2>3 DEF TestPort
  <2>5. QED
    BY <1>8, <2>4 DEF Test
<1>9. QED
  BY <1>1, <1>4, <1>5, <1>6, <1>7, <1>8

(* Nor can a move. *)
LEMMA AlikeMoves ==
  ASSUME NEW v \in Walks, NEW w \in Walks, Alike(v, w), NEW to \in Nat, NEW n \in Nat \cup {NoNode}
  PROVE  Alike(Moved([v EXCEPT !.state = to], n), Moved([w EXCEPT !.state = to], n))
<1> DEFINE vv == [v EXCEPT !.state = to]
           ww == [w EXCEPT !.state = to]
<1>1. /\ vv \in Walks /\ vv.captures = v.captures /\ vv.scopes = v.scopes /\ vv.commons = v.commons
      /\ ww \in Walks /\ ww.captures = w.captures /\ ww.scopes = w.scopes /\ ww.commons = w.commons
      /\ vv.state = ww.state /\ vv.node = v.node /\ ww.node = w.node
      /\ vv.rejected = v.rejected /\ ww.rejected = w.rejected
  BY DEF Walks
<1> HIDE DEF vv, ww
<1>2. Alike(vv, ww)
  <2>1. v.commons = w.commons /\ v.rejected = w.rejected /\ v.node = w.node
    BY DEF Alike
  <2>2. QED
    BY <1>1, <2>1, SameAlike
<1> DEFINE x == Moved(vv, n)
           y == Moved(ww, n)
<1>3. Place(vv, n) = Place(ww, n)
  BY <1>2, AlikeReads DEF Place
<1>4. /\ x.captures = vv.captures /\ x.scopes = vv.scopes /\ y.captures = ww.captures /\ y.scopes = ww.scopes
      /\ x.state = y.state /\ x.node = y.node /\ x.commons = y.commons /\ x.rejected = y.rejected
  <2>1. vv.commons = ww.commons /\ vv.rejected = ww.rejected
    BY <1>2 DEF Alike
  <2>2. QED
    BY <1>1, <1>3, <2>1 DEF Moved, Walks
<1> HIDE DEF x, y
<1>5. Alike(x, y)
  BY <1>2, <1>4, SameAlike
<1>6. QED
  BY <1>5 DEF x, y, vv, ww

(* Whatever one walk can do, a walk like it can do as well. *)
LEMMA AlikeOnward ==
  ASSUME NEW p, IsProblem(p), Bare(p.machine), NEW v \in Waiting(p), NEW w \in Waiting(p), Alike(v, w),
         NEW u \in Onward(p, v)
  PROVE  \E x \in Onward(p, w) : Alike(u, x)
<1>1. v.state = w.state /\ v \in Walks /\ w \in Walks
  BY DEF Alike, Waiting
<1>2. PICK edge \in Outgoing(p.machine, w.state) : u \in Beyond(p, v, edge)
  BY <1>1 DEF Onward
<1>3. /\ edge.label \in Labels /\ edge.label.type # "TRACE" /\ edge.to \in Nat /\ IsGraph(p.graph)
      /\ p.graph.nodes \subseteq Nat
  BY ProblemFacts DEF Outgoing, Bare
<1> DEFINE a == Test(p.graph, v, edge.label)
           b == Test(p.graph, w, edge.label)
           after(r) == CASE ~ r.success -> {} [] r.success /\ r.nodes = {} -> {NoNode} [] OTHER -> r.nodes
<1>4. Agree(a, b)
  BY <1>1, <1>3, AlikeTests
<1>5. Answers(p.graph, a) /\ Answers(p.graph, b)
  BY <1>3, TestKeeps DEF Waiting
<1>6. /\ Beyond(p, v, edge) = {Moved([a.walk EXCEPT !.state = edge.to], n) : n \in after(a)}
      /\ Beyond(p, w, edge) = {Moved([b.walk EXCEPT !.state = edge.to], n) : n \in after(b)}
  BY DEF Beyond
<1> HIDE DEF a, b
<1>7. after(a) = after(b) /\ after(a) \subseteq Nat \cup {NoNode} /\ Alike(a.walk, b.walk)
      /\ a.walk \in Walks /\ b.walk \in Walks
  <2>1. a.success = b.success /\ a.nodes = b.nodes /\ a.nodes \subseteq Nat /\ Alike(a.walk, b.walk)
    BY <1>3, <1>4, <1>5 DEF Agree, Answers
  <2>2. a.walk \in Walks /\ b.walk \in Walks
    BY <1>5 DEF Answers, Sound, Typed
  <2>3. QED
    BY <2>1, <2>2
<1> HIDE DEF after
<1>8. PICK n \in after(a) : u = Moved([a.walk EXCEPT !.state = edge.to], n)
  BY <1>2, <1>6
<1> DEFINE x == Moved([b.walk EXCEPT !.state = edge.to], n)
<1>9. Alike(u, x)
  BY <1>3, <1>7, <1>8, AlikeMoves
<1>10. x \in Onward(p, w)
  BY <1>2, <1>6, <1>7 DEF Onward
<1>11. QED
  BY <1>9, <1>10

(* Along a run of an automaton without quantifiers, W keeps a walk like     *)
(* each of its walks.                                                       *)
LEMMA RunsAreKept ==
  ASSUME IsProblem(problem), Bare(problem.machine),
         NEW W, W \subseteq Waiting(problem), Closed(W),
         NEW run, IsRun(problem, run)
  PROVE  \E w \in W : Alike(run[Len(run)], w)
<1> DEFINE K == Len(run) - 1
           T == {k \in Nat : k + 1 \in 1 .. Len(run) =>
                   run[k + 1] \in Waiting(problem) /\ \E w \in W : Alike(run[k + 1], w)}
<1>1. Len(run) \in Nat \ {0} /\ K \in Nat
  <2>1. run \in Seq(Walks) /\ run # <<>>
    BY DEF IsRun
  <2>2. QED
    BY <2>1
<1>2. 0 \in T
  <2>1. run[1] \in Begun(problem)
    BY DEF IsRun
  <2>2. run[1] \in Waiting(problem)
    BY <2>1, BegunWaits
  <2>3. PICK w \in W : Key(w) = Key(run[1])
    BY <2>1 DEF Closed
  <2>4. Alike(run[1], w)
    BY <2>2, <2>3, KeysAreAlike DEF Waiting
  <2>5. 0 + 1 = 1
    OBVIOUS
  <2>6. QED
    BY <2>2, <2>4, <2>5
<1>3. ASSUME NEW k \in 0 .. K - 1, k \in T PROVE k + 1 \in T
  <2>1. k \in Nat /\ k + 1 \in Nat /\ k + 1 \in 1 .. Len(run) /\ k + 1 \in 1 .. Len(run) - 1
    BY <1>1
  <2>2. PICK w \in W : Alike(run[k + 1], w)
    BY <1>3, <2>1
  <2>3. run[k + 1] \in Waiting(problem) /\ w \in Waiting(problem)
    BY <1>3, <2>1
  <2>4. run[(k + 1) + 1] \in Onward(problem, run[k + 1])
    BY <2>1 DEF IsRun
  <2>5. PICK x \in Onward(problem, w) : Alike(run[(k + 1) + 1], x)
    BY <2>2, <2>3, <2>4, AlikeOnward
  <2>6. PICK u \in W : Key(u) = Key(x)
    BY DEF Closed
  <2>7. x \in Walks /\ u \in Walks /\ run[(k + 1) + 1] \in Waiting(problem)
    <3>1. Onward(problem, w) \subseteq Waiting(problem) /\ Onward(problem, run[k + 1]) \subseteq Waiting(problem)
      BY <2>3, OnwardKeeps
    <3>2. QED
      BY <2>4, <3>1 DEF Waiting
  <2>8. Alike(run[(k + 1) + 1], u)
    <3>1. Alike(x, u)
      BY <2>6, <2>7, KeysAreAlike
    <3>2. QED
      BY <2>5, <3>1, AlikeTransitive
  <2>9. QED
    BY <2>1, <2>7, <2>8
<1>4. 0 .. K \subseteq T
  <2> HIDE DEF T, K
  <2>1. QED
    BY <1>1, <1>2, <1>3, UpTo
<1>5. K \in T /\ K + 1 = Len(run) /\ Len(run) \in 1 .. Len(run)
  <2>1. K \in 0 .. K /\ K + 1 = Len(run) /\ Len(run) \in 1 .. Len(run)
    BY <1>1
  <2> HIDE DEF T, K
  <2>2. QED
    BY <1>4, <2>1
<1>6. QED
  BY <1>5

(* Two walks make the same contribution to a match: they cover the same      *)
(* paths and capture the same nodes, with the same anchors and obligations.  *)
Interchangeable(v, w) ==
  /\ Origin(v) = Origin(w) /\ ToSet(v.captures) = ToSet(w.captures)
  /\ v.commons = w.commons /\ v.rejected = w.rejected

(* No run is lost for having the key or the result of another one.          *)
NoRunIsLost ==
  Exhausted /\ Bare(problem.machine) =>
    \A w \in Ends(problem) : w.state \in problem.machine.valid =>
      \E f \in ToSet(finished) : Interchangeable(f, w)

(* A closed search of an automaton without quantifiers has an answer for    *)
(* every run.                                                               *)
LEMMA ClosedLosesNone == SearchInv /\ KeysAreExplored => NoRunIsLost
<1> SUFFICES ASSUME SearchInv, KeysAreExplored, Exhausted, Bare(problem.machine),
                    NEW w \in Ends(problem), w.state \in problem.machine.valid
             PROVE  \E f \in ToSet(finished) : Interchangeable(f, w)
  BY DEF NoRunIsLost
<1>1. PICK W \in SUBSET (Ends(problem) \cap Waiting(problem)) : Closed(W)
  BY DEF KeysAreExplored
<1>2. PICK run \in Seq(Walks) : IsRun(problem, run) /\ run[Len(run)] = w
  BY DEF Ends
<1>3. PICK u \in W : Alike(w, u)
  <2>1. IsProblem(problem) /\ W \subseteq Waiting(problem)
    BY DEF SearchInv
  <2>2. QED
    BY <1>1, <1>2, <2>1, RunsAreKept
<1>4. PICK f \in ToSet(finished) : ResultKey(Origin(f), f) = ResultKey(Origin(u), u)
  BY <1>1, <1>3 DEF Closed, Alike
<1>5. Origin(f) = Origin(u) /\ Contents(f) = Contents(u)
  BY <1>4 DEF ResultKey
<1>6. f.commons = u.commons /\ f.rejected = u.rejected /\ ToSet(f.captures) = ToSet(u.captures)
  BY <1>5, SameContents
<1>7. Interchangeable(f, w)
  BY <1>3, <1>5, <1>6 DEF Interchangeable, Alike, Origin
<1>8. QED
  BY <1>7

(* Every run of an automaton without quantifiers that ends in a valid state  *)
(* has a finished walk that contributes the same to a match.                 *)
THEOREM EveryRunIsFound == Spec => []NoRunIsLost
<1>1. QED
  BY ClosedLosesNone, SearchInvariant, SearchIsClosed, PTL

-----------------------------------------------------------------------------
(***************************************************************************)
(* Exceptions.  When the quantifiers of the automaton nest, a walk has open *)
(* what its state says, and no transition throws.                           *)
(***************************************************************************)
Open(w) == [k \in 1 .. Len(w.active) |-> w.quantifiers[w.active[k].at].index]

(* The quantifiers open in a walk, outermost first. *)
LEMMA OpenReads ==
  ASSUME NEW nodes, NEW w, Sound(nodes, w)
  PROVE  /\ Open(w) \in Seq(Nat) /\ Len(Open(w)) = Len(w.active) /\ Len(w.active) \in Nat
         /\ w.active # <<>> <=> Open(w) # <<>>
         /\ \A index : Balanced(w, index) <=> Open(w) # <<>> /\ Last(Open(w)) = index
<1>1. /\ w.quantifiers \in Seq(Invocations) /\ w.active \in Seq(Opened)
      /\ \A k \in DOMAIN w.active : w.active[k].at \in DOMAIN w.quantifiers
  BY Parts
<1>2. Len(w.active) \in Nat /\ DOMAIN w.active = 1 .. Len(w.active)
  BY <1>1
<1>3. ASSUME NEW k \in 1 .. Len(w.active) PROVE w.quantifiers[w.active[k].at].index \in Nat
  <2>1. w.quantifiers[w.active[k].at] \in Invocations
    BY <1>1, <1>2
  <2>2. QED
    BY <2>1 DEF Invocations
<1> DEFINE o == Open(w)
<1>4. /\ o \in Seq(Nat) /\ Len(o) = Len(w.active)
      /\ \A k \in 1 .. Len(w.active) : o[k] = w.quantifiers[w.active[k].at].index
  BY <1>2, <1>3 DEF Open
<1> HIDE DEF o
<1>5. w.active # <<>> <=> Len(w.active) > 0
  BY <1>1
<1>6. o # <<>> <=> Len(o) > 0
  BY <1>4
<1>7. ASSUME Len(w.active) > 0
      PROVE  Last(o) = w.quantifiers[Last(w.active).at].index
  BY <1>2, <1>4, <1>7 DEF Last
<1>8. QED
  BY <1>2, <1>4, <1>5, <1>6, <1>7 DEF Balanced, o

(* Two walks with the same stack of the same quantifiers. *)
LEMMA SameOpen ==
  ASSUME NEW v, NEW w, Len(v.active) = Len(w.active),
         \A k \in 1 .. Len(w.active) :
           v.quantifiers[v.active[k].at].index = w.quantifiers[w.active[k].at].index
  PROVE  Open(v) = Open(w)
  BY DEF Open

(* A quantifier that begins is open, innermost. *)
LEMMA BeginOpens ==
  ASSUME NEW nodes, NEW w, Sound(nodes, w), NEW index \in Nat, NEW symbol \in {"+", "*", "?"}
  PROVE  /\ Open(BeginQuantifier(w, index, symbol)) = Append(Open(w), index)
         /\ BeginQuantifier(w, index, symbol).threw = w.threw
<1> DEFINE parent == IF w.active = <<>> THEN 0 ELSE Last(w.active).at
           here == Len(w.captures)
           pass == IF parent = 0 THEN 0 ELSE Count(w.quantifiers[parent])
           q == [index |-> index, symbol |-> symbol, parent |-> parent, pass |-> pass,
                 begin |-> here, end |-> here, ends |-> <<>>]
           a == [at |-> Len(w.quantifiers) + 1, size |-> Cardinality(ValidNodes(w))]
           v == BeginQuantifier(w, index, symbol)
<1>1. /\ w.quantifiers \in Seq(Invocations) /\ w.active \in Seq(Opened) /\ w \in Walks
      /\ \A k \in DOMAIN w.active : w.active[k].at \in DOMAIN w.quantifiers
  BY Parts
<1>2. v = [w EXCEPT !.quantifiers = Append(w.quantifiers, q), !.active = Append(w.active, a)]
  BY DEF BeginQuantifier
<1>3. q.index = index /\ a.at = Len(w.quantifiers) + 1
  OBVIOUS
<1> HIDE DEF q, a, v
<1>4. /\ v.quantifiers = Append(w.quantifiers, q) /\ v.active = Append(w.active, a)
      /\ v.threw = w.threw
  BY <1>1, <1>2 DEF Walks
<1> DEFINE m == Len(w.active)
           l == Len(w.quantifiers)
<1>5. /\ m \in Nat /\ DOMAIN w.active = 1 .. m /\ Len(v.active) = m + 1
      /\ \A k \in 1 .. m : v.active[k] = w.active[k]
      /\ v.active[m + 1] = a
  BY <1>1, <1>4
<1>6. /\ l \in Nat /\ DOMAIN w.quantifiers = 1 .. l
      /\ \A k \in 1 .. l : v.quantifiers[k] = w.quantifiers[k]
      /\ v.quantifiers[l + 1] = q
  BY <1>1, <1>4
<1>7. Open(w) \in Seq(Nat) /\ Len(Open(w)) = m
  BY OpenReads
<1>8. ASSUME NEW k \in 1 .. m + 1
      PROVE  Open(v)[k] = Append(Open(w), index)[k]
  <2>1. Open(v)[k] = v.quantifiers[v.active[k].at].index
    BY <1>5 DEF Open
  <2>2. CASE k \in 1 .. m
    <3>1. w.active[k].at \in 1 .. l
      BY <1>1, <1>5, <1>6, <2>2
    <3>2. v.quantifiers[v.active[k].at] = w.quantifiers[w.active[k].at]
      BY <1>5, <1>6, <2>2, <3>1
    <3>3. Append(Open(w), index)[k] = Open(w)[k]
      BY <1>7, <2>2
    <3>4. Open(w)[k] = w.quantifiers[w.active[k].at].index
      BY <2>2 DEF Open
    <3>5. QED
      BY <2>1, <3>2, <3>3, <3>4
  <2>3. CASE k = m + 1
    <3>1. v.quantifiers[v.active[k].at] = q
      BY <1>3, <1>5, <1>6, <2>3
    <3>2. Append(Open(w), index)[k] = index
      BY <1>7, <2>3
    <3>3. QED
      BY <1>3, <2>1, <3>1, <3>2
  <2>4. \A n \in Nat : \A i \in 1 .. n + 1 : i \in 1 .. n \/ i = n + 1
    OBVIOUS
  <2>5. k \in 1 .. m \/ k = m + 1
    <3> HIDE DEF m
    <3>1. QED
      BY <1>5, <2>4
  <2>6. QED
    BY <2>2, <2>3, <2>5
<1>9. Open(v) = Append(Open(w), index)
  <2> DEFINE o == Open(v)
             t == Append(Open(w), index)
  <2>1. o = [k \in 1 .. m + 1 |-> v.quantifiers[v.active[k].at].index]
    BY <1>5 DEF Open
  <2>2. t \in Seq(Nat) /\ Len(t) = m + 1
    BY <1>7
  <2>3. t = [k \in 1 .. m + 1 |-> t[k]]
    <3> HIDE DEF t
    <3>1. \A u \in Seq(Nat) : u = [k \in 1 .. Len(u) |-> u[k]]
      OBVIOUS
    <3>2. t = [k \in 1 .. Len(t) |-> t[k]]
      BY <2>2, <3>1
    <3>3. QED
      BY <2>2, <3>2
  <2>4. \A k \in 1 .. m + 1 : o[k] = t[k]
    BY <1>8
  <2> HIDE DEF o, t
  <2>5. o = [k \in 1 .. m + 1 |-> o[k]]
    BY <2>1
  <2>6. QED
    BY <2>3, <2>4, <2>5 DEF o, t
<1>10. QED
  BY <1>4, <1>9 DEF v

(* Completing a pass opens and closes nothing. *)
LEMMA PassOpens ==
  ASSUME NEW nodes, NEW w, Sound(nodes, w), w.active # <<>>
  PROVE  Open(CompletePass(w)) = Open(w) /\ CompletePass(w).threw = w.threw
<1> DEFINE at == Last(w.active).at
           v == CompletePass(w)
<1>1. /\ w.quantifiers \in Seq(Invocations) /\ w.active \in Seq(Opened) /\ w \in Walks
      /\ \A k \in DOMAIN w.active : w.active[k].at \in DOMAIN w.quantifiers
  BY Parts
<1> DEFINE ends == Append(w.quantifiers[at].ends, Len(w.captures))
           size == Cardinality(ValidNodes(w))
<1>2. /\ v.quantifiers = [w.quantifiers EXCEPT ![at].ends = ends]
      /\ v.active = [w.active EXCEPT ![Len(w.active)].size = size]
      /\ v.threw = w.threw
  BY <1>1 DEF CompletePass, Walks
<1> HIDE DEF v, ends, size, at
<1>3. ASSUME NEW i \in DOMAIN w.quantifiers
      PROVE  v.quantifiers[i].index = w.quantifiers[i].index
  <2>1. w.quantifiers[i] \in Invocations
    BY <1>1, <1>3
  <2>2. QED
    BY <1>2, <1>3, <2>1 DEF Invocations
<1>4. ASSUME NEW k \in DOMAIN w.active PROVE v.active[k].at = w.active[k].at
  <2>1. w.active[k] \in Opened
    BY <1>1, <1>4
  <2>2. QED
    BY <1>2, <1>4, <2>1 DEF Opened
<1>5. Len(v.active) = Len(w.active) /\ DOMAIN w.active = 1 .. Len(w.active)
  BY <1>1, <1>2
<1>6. \A k \in 1 .. Len(w.active) :
        v.quantifiers[v.active[k].at].index = w.quantifiers[w.active[k].at].index
  BY <1>1, <1>3, <1>4, <1>5
<1>7. Open(v) = Open(w)
  BY <1>5, <1>6, SameOpen
<1>8. QED
  BY <1>2, <1>7 DEF v

(* Ending the innermost quantifier closes it. *)
LEMMA EndOpens ==
  ASSUME NEW nodes, NEW w, Sound(nodes, w), w.active # <<>>
  PROVE  Open(EndQuantifier(w)) = Front(Open(w)) /\ EndQuantifier(w).threw = w.threw
<1> DEFINE at == Last(w.active).at
           v == EndQuantifier(w)
           here == Len(w.captures)
<1>1. /\ w.quantifiers \in Seq(Invocations) /\ w.active \in Seq(Opened) /\ w \in Walks
      /\ \A k \in DOMAIN w.active : w.active[k].at \in DOMAIN w.quantifiers
  BY Parts
<1>2. /\ v.quantifiers = [w.quantifiers EXCEPT ![at].end = here]
      /\ v.active = Front(w.active) /\ v.threw = w.threw
  BY <1>1 DEF EndQuantifier, Walks
<1> HIDE DEF v, at, here
<1>3. ASSUME NEW i \in DOMAIN w.quantifiers
      PROVE  v.quantifiers[i].index = w.quantifiers[i].index
  <2>1. w.quantifiers[i] \in Invocations
    BY <1>1, <1>3
  <2>2. QED
    BY <1>2, <1>3, <2>1 DEF Invocations
<1> DEFINE m == Len(w.active)
<1>4. /\ m \in Nat /\ m > 0 /\ DOMAIN w.active = 1 .. m /\ Len(v.active) = m - 1
      /\ \A k \in 1 .. m - 1 : v.active[k] = w.active[k]
  <2> DEFINE a == w.active
  <2>1. a \in Seq(Opened) /\ a # <<>> /\ v.active = Front(a)
    BY <1>1, <1>2
  <2> HIDE DEF a
  <2>2. /\ Len(a) \in Nat /\ Len(a) > 0 /\ DOMAIN a = 1 .. Len(a)
        /\ Len(Front(a)) = Len(a) - 1
        /\ \A k \in 1 .. Len(a) - 1 : Front(a)[k] = a[k]
    BY <2>1, Shortened
  <2>3. QED
    BY <2>1, <2>2 DEF a
<1> DEFINE o == Open(w)
<1>5. /\ o \in Seq(Nat) /\ Len(o) = m
      /\ \A k \in 1 .. m : o[k] = w.quantifiers[w.active[k].at].index
  BY OpenReads DEF Open
<1> HIDE DEF m, o
<1>6. Front(o) = [k \in 1 .. m - 1 |-> o[k]]
  BY <1>4, <1>5 DEF Front
<1>7. Open(v) = [k \in 1 .. m - 1 |-> v.quantifiers[v.active[k].at].index]
  BY <1>4 DEF Open
<1>8. ASSUME NEW k \in 1 .. m - 1
      PROVE  v.quantifiers[v.active[k].at].index = o[k]
  <2>1. k \in 1 .. m
    BY <1>4
  <2>2. v.active[k] = w.active[k] /\ w.active[k].at \in DOMAIN w.quantifiers
    BY <1>1, <1>4, <2>1
  <2>3. QED
    BY <1>3, <1>5, <2>1, <2>2
<1>9. Open(v) = Front(o)
  BY <1>6, <1>7, <1>8
<1>10. QED
  BY <1>2, <1>9 DEF v, o

(* Capturing opens nothing. *)
LEMMA SameStack ==
  ASSUME NEW v, NEW w, v.active = w.active, v.quantifiers = w.quantifiers
  PROVE  Open(v) = Open(w)
  BY DEF Open

(* What a nested transition does: it does not throw, and a walk that passes  *)
(* has `after` open.                                                         *)
Nests(after, result) ==
  ~ result.walk.threw /\ (result.success => Open(result.walk) = after)

(* Begin, skip, iteration and end, where they are expected. *)
LEMMA TraceNests ==
  ASSUME NEW g, NEW w, Sound(g.nodes, w), ~ w.threw, NEW label \in Labels, label.type = "TRACE",
         NEW after \in Seq(Nat), Brackets(Open(w), label, after)
  PROVE  Nests(after, TestTrace(w, label))
<1>1. /\ label.action \in {"Begin", "Skip", "Iteration", "End"}
      /\ label.index \in Nat /\ label.symbol \in {"+", "*", "?"}
  BY DEF Labels, Empty, Null, Alternative
<1> DEFINE v == BeginQuantifier(w, label.index, label.symbol)
<1>2. /\ Open(v) = Append(Open(w), label.index) /\ ~ v.threw
      /\ Sound(g.nodes, v) /\ v.active # <<>>
  <2>1. Open(v) = Append(Open(w), label.index) /\ v.threw = w.threw
    BY <1>1, BeginOpens
  <2>2. Sound(g.nodes, v) /\ v.active # <<>>
    BY <1>1, BeginKeeps
  <2> HIDE DEF v
  <2>3. QED
    BY <2>1, <2>2
<1>3. /\ Open(w) \in Seq(Nat)
      /\ w.active # <<>> <=> Open(w) # <<>>
      /\ Balanced(w, label.index) <=> Open(w) # <<>> /\ Last(Open(w)) = label.index
  BY OpenReads
<1>4. ASSUME NEW o \in Seq(Nat), NEW i \in Nat
      PROVE  Front(Append(o, i)) = o /\ Append(o, i) # <<>> /\ Last(Append(o, i)) = i
  <2>1. /\ Append(o, i) \in Seq(Nat) /\ Len(Append(o, i)) = Len(o) + 1 /\ Len(o) \in Nat
        /\ \A k \in 1 .. Len(o) : Append(o, i)[k] = o[k]
        /\ Append(o, i)[Len(o) + 1] = i
    OBVIOUS
  <2> DEFINE t == Append(o, i)
  <2> HIDE DEF t
  <2>2. Len(t) = Len(o) + 1 /\ Len(o) \in Nat /\ t[Len(o) + 1] = i
        /\ \A k \in 1 .. Len(o) : t[k] = o[k]
    BY <2>1 DEF t
  <2>3. t # <<>> /\ Last(t) = i
    BY <2>2 DEF Last
  <2>4. Front(t) = [k \in 1 .. Len(o) |-> t[k]]
    BY <2>1, <2>2 DEF Front, t
  <2>5. o = [k \in 1 .. Len(o) |-> o[k]]
    OBVIOUS
  <2>6. Front(t) = o
    BY <2>2, <2>4, <2>5
  <2>7. QED
    BY <2>3, <2>6 DEF t
<1> HIDE DEF v
<1>5. CASE label.action = "Begin"
  <2>1. after = Append(Open(w), label.index)
    BY <1>5 DEF Brackets
  <2>2. TestTrace(w, label) = StayPut(v)
    BY <1>5 DEF TestTrace, v
  <2>3. QED
    BY <1>2, <2>1, <2>2 DEF Nests, StayPut, GoTo
<1>6. CASE label.action = "Skip"
  <2>1. after = Open(w)
    BY <1>6 DEF Brackets
  <2>2. TestTrace(w, label) = StayPut(EndQuantifier(v))
    BY <1>6 DEF TestTrace, v
  <2>3. Open(EndQuantifier(v)) = Open(w) /\ ~ EndQuantifier(v).threw
    <3>1. Open(EndQuantifier(v)) = Front(Open(v)) /\ EndQuantifier(v).threw = v.threw
      BY <1>2, EndOpens
    <3>2. Front(Append(Open(w), label.index)) = Open(w)
      BY <1>1, <1>3, <1>4
    <3>3. QED
      BY <1>2, <3>1, <3>2
  <2>4. QED
    BY <2>1, <2>2, <2>3 DEF Nests, StayPut, GoTo
<1>7. CASE label.action = "Iteration"
  <2>1. after = Open(w) /\ Balanced(w, label.index) /\ w.active # <<>>
    BY <1>3, <1>7 DEF Brackets
  <2>2. TestTrace(w, label) \in {Refuse(w), StayPut(CompletePass(w))}
    BY <1>7, <2>1 DEF TestTrace
  <2>3. Open(CompletePass(w)) = Open(w) /\ ~ CompletePass(w).threw
    BY <2>1, PassOpens
  <2>4. QED
    BY <2>1, <2>2, <2>3 DEF Nests, StayPut, GoTo, Refuse
<1>8. CASE label.action = "End"
  <2>1. Open(w) = Append(after, label.index)
    BY <1>8 DEF Brackets
  <2>2. Balanced(w, label.index) /\ w.active # <<>> /\ Front(Open(w)) = after
    BY <1>1, <1>3, <1>4, <2>1
  <2>3. TestTrace(w, label) = StayPut(EndQuantifier(w))
    BY <1>8, <2>2 DEF TestTrace
  <2>4. Open(EndQuantifier(w)) = after /\ ~ EndQuantifier(w).threw
    BY <2>2, EndOpens
  <2>5. QED
    BY <2>3, <2>4 DEF Nests, StayPut, GoTo
<1>9. QED
  BY <1>1, <1>5, <1>6, <1>7, <1>8

(* The other transitions open and close nothing, and capture what they may. *)
LEMMA CaptureNests ==
  ASSUME NEW g, IsGraph(g), NEW w, Sound(g.nodes, w), ~ w.threw, NEW label \in Labels
  PROVE  /\ label.type = "UNIQUE" => Nests(Open(w), TestUnique(g, w, label))
         /\ label.type = "COMMON" => Nests(Open(w), TestCommon(g, w, label))
<1>1. /\ w \in Walks /\ Typed(g.nodes, w) /\ PlainOnce(w) /\ g.nodes \subseteq Nat
      /\ \A m, n \in w.commons : m.id = n.id <=> m.node = n.node
      /\ CommonNodes(w) \subseteq ValidNodes(w) \cup {w.node}
  BY DEF Sound, Typed, AnchorsAgree, IsGraph
<1>2. Nests(Open(w), Refuse(w))
  BY DEF Nests, Refuse
<1>3. ASSUME label.type = "UNIQUE" PROVE Nests(Open(w), TestUnique(g, w, label))
  <2> DEFINE v == SetValid(w, w.node, label.predicate)
  <2>1. CASE w.node # NoNode /\ w.node \notin ValidNodes(w)
    <3>1. w.node \in g.nodes /\ label.predicate \in STRING
      BY <1>1, <1>3, <2>1 DEF Typed, Labels, Empty, Null, Alternative
    <3>2. v.threw = w.threw
      BY <1>1, <2>1, <3>1, SetValidKeeps
    <3>3. v.active = w.active /\ v.quantifiers = w.quantifiers
      BY <1>1 DEF SetValid, Walks
    <3> HIDE DEF v
    <3>4. Nests(Open(w), GoTo(v, NextNodes(g, w, label)))
      BY <3>2, <3>3, SameStack DEF Nests, GoTo
    <3>5. QED
      BY <1>2, <3>4 DEF TestUnique, v
  <2>2. QED
    BY <1>2, <2>1 DEF TestUnique
<1>4. ASSUME label.type = "COMMON" PROVE Nests(Open(w), TestCommon(g, w, label))
  <2> DEFINE bound == SetCommon(w, w.node, label.id)
             v == SetValid(bound, w.node, label.predicate)
             covered == (IF label.inputs THEN Parents(g, w.node) ELSE {})
                          \cup (IF label.outputs THEN Children(g, w.node) ELSE {})
             r == Reject(v, covered)
  <2>1. CASE w.node # NoNode /\ label.predicate \in g.satisfies[w.node] /\ MayBind(w, label.id)
    <3>1. w.node \in g.nodes /\ label.predicate \in STRING /\ label.id \in Nat
      BY <1>1, <1>4, <2>1 DEF Typed, Labels, Empty, Null, Alternative
    <3>2. /\ bound \in Walks
          /\ bound = [w EXCEPT !.commons = w.commons \cup {[node |-> w.node, id |-> label.id]}]
          /\ \A m, n \in bound.commons : m.id = n.id <=> m.node = n.node
      BY <1>1, <2>1, <3>1, SetCommonKeeps
    <3>3. /\ bound.captures = w.captures /\ bound.node = w.node /\ bound.rejected = w.rejected
          /\ bound.active = w.active /\ bound.quantifiers = w.quantifiers
          /\ bound.commons = w.commons \cup {[node |-> w.node, id |-> label.id]}
          /\ bound.threw = w.threw
      BY <1>1, <3>2 DEF Walks
    <3> HIDE DEF bound
    <3>4. bound.node \in CommonNodes(bound)
      <4> DEFINE a == [node |-> w.node, id |-> label.id]
      <4>1. a \in bound.commons /\ a.node = bound.node
        BY <3>3
      <4>2. QED
        BY <4>1 DEF CommonNodes
    <3>5. v.threw = bound.threw
      <4>1. bound.node \notin PlainNodes(bound)
        BY <3>4 DEF PlainNodes
      <4>2. ~ CapturedTwice(bound, w.node, label.predicate)
        BY <3>3, <4>1 DEF CapturedTwice
      <4>3. v.threw = (bound.threw \/ CapturedTwice(bound, w.node, label.predicate))
        BY <3>2 DEF SetValid, Walks
      <4>4. bound.threw \in BOOLEAN
        BY <3>2 DEF Walks
      <4>5. QED
        BY <4>2, <4>3, <4>4
    <3>6. r.active = w.active /\ r.quantifiers = w.quantifiers /\ r.threw = w.threw
      <4>1. /\ r.active = v.active /\ r.quantifiers = v.quantifiers /\ r.threw = v.threw
        BY <3>2 DEF Reject, SetValid, Walks
      <4>2. v.active = bound.active /\ v.quantifiers = bound.quantifiers
        BY <3>2 DEF SetValid, Walks
      <4> HIDE DEF r, v
      <4>3. QED
        BY <3>3, <3>5, <4>1, <4>2
    <3> HIDE DEF r
    <3>7. Nests(Open(w), GoTo(r, NextNodes(g, w, label)))
      BY <3>6, SameStack DEF Nests, GoTo
    <3>8. TestCommon(g, w, label) = GoTo(r, NextNodes(g, w, label))
      BY <2>1 DEF TestCommon, r, bound
    <3>9. QED
      BY <3>7, <3>8
  <2>2. QED
    BY <1>2, <2>1 DEF TestCommon
<1>5. QED
  BY <1>3, <1>4

(* Whatever its type, a transition that brackets as it should does not throw. *)
LEMMA TestNests ==
  ASSUME NEW g, IsGraph(g), NEW w, Sound(g.nodes, w), ~ w.threw, NEW label \in Labels,
         NEW after \in Seq(Nat), Brackets(Open(w), label, after)
  PROVE  Nests(after, Test(g, w, label))
<1>1. label.type \in {"UNIQUE", "COMMON", "REF", "EMPTY", "NNULL", "ALTERNATIVE", "TRACE", "PORT"}
  BY DEF Labels, Empty, Null, Alternative
<1>2. CASE label.type = "TRACE"
  BY <1>2, TraceNests DEF Test
<1>3. ASSUME label.type # "TRACE" PROVE after = Open(w)
  BY <1>3 DEF Brackets
<1>4. CASE label.type \in {"UNIQUE", "COMMON"}
  BY <1>3, <1>4, CaptureNests DEF Test
<1>5. \A nodes : Nests(Open(w), Refuse(w)) /\ Nests(Open(w), StayPut(w)) /\ Nests(Open(w), GoTo(w, nodes))
  BY DEF Nests, Refuse, StayPut, GoTo
<1>6. CASE label.type \in {"REF", "EMPTY", "NNULL", "ALTERNATIVE"}
  BY <1>3, <1>5, <1>6 DEF Test, TestRef, TestEmpty, TestNull
<1>7. CASE label.type = "PORT"
  <2>1. w \in Walks /\ label.action \in {"Begin", "Check", "End"}
    BY <1>7 DEF Sound, Typed, Labels, Empty, Null, Alternative
  <2>2. \A v \in {BeginPortScope(w), CheckedPort(w), EndPortScope(w)} :
          v.active = w.active /\ v.quantifiers = w.quantifiers /\ v.threw = w.threw
    BY <2>1 DEF BeginPortScope, CheckedPort, EndPortScope, Walks
  <2>3. \A v \in {BeginPortScope(w), CheckedPort(w), EndPortScope(w)} : Nests(Open(w), StayPut(v))
    BY <2>2, SameStack DEF Nests, StayPut, GoTo
  <2>4. TestPort(g, w, label) \in {StayPut(BeginPortScope(w)), StayPut(CheckedPort(w)),
                                   StayPut(EndPortScope(w)), Refuse(w)}
    BY <2>1 DEF TestPort
  <2>5. Nests(Open(w), TestPort(g, w, label))
    BY <1>5, <2>3, <2>4
  <2>6. QED
    BY <1>3, <1>7, <2>5 DEF Test
<1>8. QED
  BY <1>1, <1>2, <1>4, <1>6, <1>7

(* The walks that have open what their state says, and have not thrown. *)
Nested(open) == {w \in Walks : ~ w.threw /\ Open(w) = open[w.state]}

(* Every walk that goes on is nested, and no exception has left the search. *)
Nest(open) ==
  /\ queue \in Seq(Nested(open))
  /\ tests # <<>> => walk \in Nested(open)
  /\ tests \in Seq(Outgoing(problem.machine, walk.state))
  /\ arrivals # {} => moved \in Nested(open)
  /\ ~ aborted

(* The ways to say what is open in each state. *)
Readings(machine) == {open \in [States(machine) -> Seq(Nat)] : Nesting(machine, open)}
AllNest == \A open \in Readings(problem.machine) : Nest(open)

(* A start walk has nothing open. *)
LEMMA StartNests ==
  ASSUME NEW open, NEW state \in Nat, NEW node \in Nat \cup {NoNode}, open[state] = <<>>
  PROVE  Start(state, node) \in Nested(open)
<1> DEFINE w == Start(state, node)
<1>1. w \in Walks /\ w.active = <<>> /\ w.state = state /\ w.threw = FALSE
  BY DEF Start, Walks
<1> HIDE DEF w
<1>2. Open(w) = <<>>
  BY <1>1 DEF Open
<1>3. QED
  BY <1>1, <1>2 DEF Nested, w

(* No walk goes on before the search begins. *)
LEMMA InitNests == Init => AllNest
<1> SUFFICES ASSUME Init, NEW open \in Readings(problem.machine) PROVE Nest(open)
  BY DEF AllNest
<1>1. \A S : <<>> \in Seq(S)
  OBVIOUS
<1>2. queue = <<>> /\ tests = <<>> /\ arrivals = {} /\ aborted = FALSE
  BY DEF Init
<1>3. QED
  BY <1>1, <1>2 DEF Nest

(* Start walks are filed. *)
LEMMA BeginNests ==
  ASSUME SearchInv, Begin, NEW open \in Readings(problem.machine), Nest(open)
  PROVE  Nest(open)'
<1> DEFINE w == Start(problem.machine.starts[begun + 1], problem.tuple[begun + 1])
           W == Nested(open)
<1>1. IsProblem(problem) /\ begun \in Nat /\ begun + 1 \in 1 .. Len(problem.tuple)
  BY ProblemFacts DEF SearchInv, Begin
<1>2. /\ problem.machine.starts[begun + 1] \in Nat
      /\ problem.tuple[begun + 1] \in Nat \cup {NoNode}
      /\ begun + 1 \in DOMAIN problem.machine.starts
  <2> DEFINE N == problem.graph.nodes \cup {NoNode}
             S == States(problem.machine)
  <2>1. /\ problem.tuple \in Seq(N) /\ problem.machine.starts \in Seq(S)
        /\ Len(problem.tuple) = Len(problem.machine.starts)
        /\ S \subseteq Nat /\ N \subseteq Nat \cup {NoNode}
    BY <1>1, ProblemFacts
  <2> HIDE DEF N, S
  <2>2. problem.machine.starts[begun + 1] \in S /\ problem.tuple[begun + 1] \in N
    BY <1>1, <2>1
  <2>3. DOMAIN problem.machine.starts = 1 .. Len(problem.machine.starts)
    BY <2>1
  <2>4. begun + 1 \in DOMAIN problem.machine.starts
    BY <1>1, <2>1, <2>3
  <2>5. QED
    BY <2>1, <2>2, <2>4
<1>3. w \in W
  <2>1. open[problem.machine.starts[begun + 1]] = <<>>
    BY <1>2 DEF Readings, Nesting
  <2>2. QED
    BY <1>2, <2>1, StartNests
<1>4. queue \in Seq(W) /\ File(w)
  BY DEF Nest, Begin
<1>5. queue' \in Seq(W)
  <2> HIDE DEF w, W
  <2>1. QED
    BY <1>3, <1>4, FileKeeps
<1>6. QED
  BY <1>5 DEF Nest, Begin, arguments

(* The next walk is visited. *)
LEMMA VisitNests ==
  ASSUME SearchInv, Visit, NEW open \in Readings(problem.machine), Nest(open)
  PROVE  Nest(open)'
<1> DEFINE w == Head(queue)
           W == Nested(open)
<1>1. queue \in Seq(W) /\ queue # <<>> /\ ~ aborted /\ arrivals = {}
  BY DEF Nest, Visit, Idle
<1>2. /\ queue' = Tail(queue) /\ walk' = w /\ tests' = order[w.state]
      /\ UNCHANGED <<problem, arrivals, moved, aborted>>
  BY DEF Visit, arguments
<1>3. w \in W /\ Tail(queue) \in Seq(W)
  <2> HIDE DEF W
  <2>1. QED
    BY <1>1
<1>4. order[w.state] \in Seq(Outgoing(problem.machine, w.state))
  <2>1. w.state \in States(problem.machine)
    <3> DEFINE S == Waiting(problem)
    <3>1. queue \in Seq(S)
      BY DEF SearchInv
    <3> HIDE DEF S
    <3>2. w \in S
      BY <1>1, <3>1
    <3>3. QED
      BY <3>2 DEF S, Waiting
  <2>2. QED
    BY <2>1 DEF SearchInv, Orders
<1> HIDE DEF w
<1>5. QED
  BY <1>1, <1>2, <1>3, <1>4 DEF Nest

(* A transition is tested: it brackets what the walk has open. *)
LEMMA CrossNests ==
  ASSUME SearchInv, Cross, NEW open \in Readings(problem.machine), Nest(open)
  PROVE  Nest(open)'
<1> DEFINE edge == Head(tests)
           result == Test(problem.graph, walk, edge.label)
           next == [result.walk EXCEPT !.state = edge.to]
           O == Outgoing(problem.machine, walk.state)
<1>1. tests \in Seq(O) /\ tests # <<>> /\ walk \in Nested(open)
  BY DEF Nest, Cross
<1>2. edge \in O /\ Tail(tests) \in Seq(O)
  <2> HIDE DEF O
  <2>1. QED
    BY <1>1
<1>3. edge \in problem.machine.edges /\ edge.from = walk.state
  BY <1>2 DEF Outgoing
<1>4. /\ Sound(problem.graph.nodes, walk) /\ IsGraph(problem.graph)
      /\ edge.label \in Labels /\ edge.to \in States(problem.machine) /\ edge.to \in Nat
  <2>1. IsProblem(problem) /\ walk \in Waiting(problem)
    BY <1>1 DEF SearchInv
  <2>2. QED
    BY <1>3, <2>1, ProblemFacts DEF Waiting
<1>5. ~ walk.threw /\ Open(walk) = open[edge.from]
  BY <1>1, <1>3 DEF Nested
<1>6. open[edge.to] \in Seq(Nat) /\ Brackets(Open(walk), edge.label, open[edge.to])
  BY <1>3, <1>4, <1>5 DEF Readings, Nesting
<1> HIDE DEF edge
<1>7. Nests(open[edge.to], result)
  BY <1>4, <1>5, <1>6, TestNests
<1>8. Sound(problem.graph.nodes, result.walk)
  BY <1>4, TestKeeps DEF Answers
<1>9. /\ tests' = Tail(tests) /\ moved' = next /\ aborted' = result.walk.threw
      /\ ~ result.success => arrivals' = {}
      /\ UNCHANGED <<problem, queue, walk>>
  BY DEF Cross, arguments, edge
<1> HIDE DEF result
<1>10. result.success => next \in Nested(open)
  <2>1. /\ next \in Walks /\ next.state = edge.to /\ next.threw = result.walk.threw
        /\ next.active = result.walk.active /\ next.quantifiers = result.walk.quantifiers
    BY <1>4, <1>8 DEF Sound, Typed, Walks
  <2> HIDE DEF next
  <2>2. QED
    BY <1>7, <2>1, SameStack DEF Nests, Nested
<1> HIDE DEF next
<1>11. QED
  BY <1>1, <1>2, <1>7, <1>9, <1>10 DEF Nest, Nests

(* A walk is filed for one of the nodes it reached. *)
LEMMA ArriveNests ==
  ASSUME SearchInv, Arrive, NEW open \in Readings(problem.machine), Nest(open)
  PROVE  Nest(open)'
<1> DEFINE node == Min(arrivals)
           w == Moved(moved, node)
           W == Nested(open)
<1>1. moved \in W /\ queue \in Seq(W) /\ File(w)
  BY DEF Arrive, Nest
<1>2. w \in W
  <2>1. problem.graph.nodes \subseteq Nat
    BY ProblemFacts DEF SearchInv
  <2>2. node \in problem.graph.nodes \cup {NoNode}
    <3>1. arrivals # {} /\ arrivals \subseteq Nat \cup {-1}
      BY <2>1 DEF SearchInv, Arrive, NoNode
    <3>2. node \in arrivals
      BY <3>1, MinMember
    <3>3. QED
      BY <3>2 DEF SearchInv
  <2> HIDE DEF node
  <2>3. /\ w \in Walks /\ w.state = moved.state /\ w.threw = moved.threw
        /\ w.active = moved.active /\ w.quantifiers = moved.quantifiers
    BY <1>1, <2>1, <2>2 DEF Nested, Walks, Moved, Place
  <2> HIDE DEF w
  <2>4. QED
    BY <1>1, <2>3, SameStack DEF Nested
<1> HIDE DEF w, W
<1>3. queue' \in Seq(W)
  BY <1>1, <1>2, FileKeeps
<1>4. QED
  BY <1>1, <1>3 DEF Nest, Arrive, arguments, W

(* Every step keeps the walks nested. *)
LEMMA NextNests == SearchInv /\ AllNest /\ [Next]_vars => AllNest'
<1> SUFFICES ASSUME SearchInv, AllNest, [Next]_vars, NEW open \in Readings(problem.machine)'
             PROVE  Nest(open)'
  BY DEF AllNest
<1>1. problem' = problem
  BY DEF Next, Begin, Visit, Cross, Arrive, vars, arguments
<1>2. open \in Readings(problem.machine)
  BY <1>1 DEF Readings, States, Nesting
<1>3. Nest(open)
  BY <1>2 DEF AllNest
<1>4. CASE Next
  BY <1>2, <1>3, <1>4, BeginNests, VisitNests, CrossNests, ArriveNests DEF Next
<1>5. CASE UNCHANGED vars
  BY <1>3, <1>5 DEF Nest, vars, arguments, Outgoing
<1>6. QED
  BY <1>4, <1>5

NestedSearches == Readings(problem.machine) # {} => NeverThrows

(* A search over an automaton whose quantifiers nest never throws, whatever *)
(* the graph, the start nodes and the order of the transitions: no node is  *)
(* captured or bound against the rules of the context, and "Unbalanced      *)
(* quantifier trace" is never raised.  That compiled patterns nest is what  *)
(* AcceptedCompile of MCPatternParser says.                                 *)
THEOREM NestedNeverThrow == Spec => []NestedSearches
<1>1. Init => SearchInv /\ AllNest
  BY InitSearch, InitNests
<1>2. SearchInv /\ AllNest /\ [Next]_vars => (SearchInv /\ AllNest)'
  BY NextSearch, NextNests
<1>3. AllNest => NestedSearches
  BY DEF AllNest, Nest, NestedSearches, NeverThrows
<1>4. QED
  BY <1>1, <1>2, <1>3, PTL DEF Spec
=============================================================================
