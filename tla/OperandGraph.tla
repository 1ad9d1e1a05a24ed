------------------------------ MODULE OperandGraph ------------------------------
(***************************************************************************)
(* What the operations of GraphNN promise: graphs are sets of nodes, and an  *)
(* edge of two nodes has any number of bindings, the operand uses.           *)
(***************************************************************************)
EXTENDS Naturals, FiniteSets

CONSTANTS Nodes, Graphs, Ports, Infos,
          Plain,   \* a binding without ports
          NoInfo   \* of a new node

VARIABLES nodes,      \* of each graph
          operands,   \* <<producer, consumer, ports>>
          info        \* of each node

vars == <<nodes, operands, info>>

Init == nodes = [g \in Graphs |-> {}] /\ operands = {} /\ info = [n \in Nodes |-> NoInfo]

Add(g, n) == nodes' = [nodes EXCEPT ![g] = @ \cup {n}] /\ UNCHANGED <<operands, info>>

Connect(g, from, to, ports) ==
  /\ nodes' = [nodes EXCEPT ![g] = @ \cup {from, to}]
  /\ operands' = operands \cup {<<from, to, ports>>}
  /\ UNCHANGED info

Set(n, i) == info' = [info EXCEPT ![n] = i] /\ UNCHANGED <<nodes, operands>>

(* The merged nodes become one; what they produced and consumed is kept,     *)
(* except the uses without ports among themselves.                           *)
Replace(n, merged, m) == IF n \in merged THEN m ELSE n
Quotient(merged, m) ==
  {<<Replace(o[1], merged, m), Replace(o[2], merged, m), o[3]>>
     : o \in {o \in operands : o[3] = Plain => o[1] \notin merged \/ o[2] \notin merged}}
Merge(g, merged, m) ==
  /\ nodes' = [nodes EXCEPT ![g] = (@ \ merged) \cup {m}]
  /\ operands' = Quotient(merged, m)
  /\ \E n \in merged : info' = [info EXCEPT ![m] = info[n]] /\ (info[n] = NoInfo => \A k \in merged : info[k] = NoInfo)

(* A copy has the same uses between new nodes. *)
Copy(g, h, f) ==
  /\ nodes' = [nodes EXCEPT ![h] = {f[n] : n \in nodes[g]}]
  /\ operands' = operands \cup {<<f[o[1]], f[o[2]], o[3]>> : o \in {o \in operands : o[1] \in nodes[g]}}
  /\ \A n \in nodes[g] : info'[f[n]] = info[n]
  /\ \A n \in UNION {nodes[k] : k \in Graphs} : info'[n] = info[n]

Unused == Nodes \ UNION {nodes[g] : g \in Graphs}
Injections(S, T) == {f \in [S -> T] : \A a, b \in S : f[a] = f[b] => a = b}

Next ==
  \E g \in Graphs :
    \/ \E n \in Unused : Add(g, n)
    \/ \E from, to \in nodes[g] \cup Unused, ports \in Ports : Connect(g, from, to, ports)
    \/ \E n \in nodes[g], i \in Infos : Set(n, i)
    \/ \E merged \in (SUBSET nodes[g]) \ {{}}, m \in Unused : Merge(g, merged, m)
    \/ \E h \in Graphs : \E f \in Injections(nodes[g], Unused) : nodes[h] = {} /\ Copy(g, h, f)

Spec == Init /\ [][Next]_vars
=============================================================================
