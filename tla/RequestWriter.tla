----------------------------- MODULE RequestWriter -----------------------------
(***************************************************************************)
(* graph.py: validate_graph, which every imported graph goes through, and    *)
(* encode_request, which writes the request that RequestReader reads.        *)
(*                                                                          *)
(* A graph is [nodes, edges, connections]: nodes a sequence of [id, op,      *)
(* name, document], edges a sequence of pairs, connections a set of <<from,  *)
(* to, input, output>> with 0 for an absent port.  Alias maps an operation   *)
(* to its predicate, the punctuation replaced.  What accompanies the graph:  *)
(* memberships, a sequence of [name, available, ids, rule] in the order of   *)
(* the names, and whether there is a definition report.                      *)
(***************************************************************************)
EXTENDS Naturals, Sequences, SequencesExt, FiniteSets

CONSTANTS Digits,    \* number -> token, for those within 64 bits
          Minus,     \* negative number -> token, for those within 64 bits
          Repr,      \* float -> token, for the finite ones
          Deepest,   \* 64 in the code
          Largest,   \* 1000000 in the code
          HexOf,     \* text -> token, "-" for the empty one
          Alias,     \* operation -> predicate
          LastPort   \* 2^32 - 1 in the code

(* Unique IDs, one operation per predicate, edges between known nodes,       *)
(* connections on existing edges.                                            *)
ValidGraph(graph) ==
  LET ids == {n.id : n \in ToSet(graph.nodes)} IN
  /\ \A i, j \in DOMAIN graph.nodes :
       i # j => /\ graph.nodes[i].id # graph.nodes[j].id
                /\ Alias[graph.nodes[i].op] = Alias[graph.nodes[j].op] => graph.nodes[i].op = graph.nodes[j].op
  /\ \A e \in ToSet(graph.edges) : {e[1], e[2]} \subseteq ids
  /\ \A c \in graph.connections : <<c[1], c[2]>> \in ToSet(graph.edges) /\ c[3] <= LastPort /\ c[4] <= LastPort

(* The values that encode_value writes; on others it raises ValueError, and  *)
(* there is no request.                                                      *)
RECURSIVE Encodable(_, _)
Encodable(value, depth) ==
  /\ depth <= Deepest
  /\ CASE value[1] = "u" -> value[2] \in DOMAIN Digits
       [] value[1] = "i" -> value[2] \in DOMAIN Minus
       [] value[1] = "d" -> value[2] \in DOMAIN Repr
       [] value[1] = "a" -> Len(value[2]) <= Largest /\ \A v \in ToSet(value[2]) : Encodable(v, depth + 1)
       [] value[1] = "o" -> Cardinality(value[2]) <= Largest /\ \A p \in value[2] : Encodable(p[2], depth + 1)
       [] OTHER -> TRUE

(* encode_value, for values as RequestReader builds them; in a document an   *)
(* empty input is written as missing.                                        *)
RECURSIVE EncodeValue(_)
EncodeValue(value) ==
  LET pairs == SetToSeq(value[2]) IN
  CASE value[1] \in {"n", "m"} -> <<value[1]>>
    [] value[1] \in {"b", "u"} -> <<value[1], Digits[value[2]]>>
    [] value[1] = "i" -> <<"i", Minus[value[2]]>>
    [] value[1] = "d" -> <<"d", Repr[value[2]]>>
    [] value[1] = "s" -> <<"s", HexOf[value[2]]>>
    [] value[1] = "a" -> <<"a", Digits[Len(value[2])]>>
                           \o FlattenSeq([k \in DOMAIN value[2] |-> EncodeValue(value[2][k])])
    [] value[1] = "o" -> <<"o", Digits[Cardinality(value[2])]>>
                           \o FlattenSeq([k \in DOMAIN pairs |-> <<HexOf[pairs[k][1]]>> \o EncodeValue(pairs[k][2])])

Sent(document) ==
  LET absent(item) == IF item = <<"s", "">> THEN <<"m">> ELSE item
      inputs(value) == IF value[1] = "a" THEN <<"a", [k \in DOMAIN value[2] |-> absent(value[2][k])]>> ELSE value
  IN  <<"o", {<<p[1], IF p[1] = "inputs" THEN inputs(p[2]) ELSE p[2]>> : p \in document[2]}>>

-----------------------------------------------------------------------------
(* encode_request. *)
Sorted(edges) == SetToSortSeq(ToSet(edges), LAMBDA e, f : e[1] < f[1] \/ (e[1] = f[1] /\ e[2] < f[2]))
SortedNodes(nodes) == SetToSortSeq(ToSet(nodes), LAMBDA m, n : m.id < n.id)

Version(extra, ported) ==
  IF ported THEN IF extra.report THEN "CORGiReg6" ELSE IF extra.definitions THEN "CORGiReg5" ELSE "CORGiReg4"
  ELSE IF extra.report THEN "CORGiReg3" ELSE IF extra.definitions THEN "CORGiReg2" ELSE "CORGiReg1"

NodeRecord(node, extra) ==
  <<Digits[node.id], HexOf[Alias[node.op]], HexOf[node.name]>>
    \o (IF extra.report THEN EncodeValue(Sent(node.document)) ELSE <<>>)

(* An edge without bindings in a ported request is one record without ports. *)
Bindings(graph, e) ==
  LET own == {<<c[3], c[4]>> : c \in {c \in graph.connections : <<c[1], c[2]>> = e}}
  IN  SetToSortSeq(IF own = {} THEN {<<0, 0>>} ELSE own, LAMBDA p, q : p[1] < q[1] \/ (p[1] = q[1] /\ p[2] < q[2]))

EdgeRecords(graph, ported) ==
  LET edge(e) == <<Digits[e[1]], Digits[e[2]]>>
      record(e) == IF ported
                   THEN [k \in DOMAIN Bindings(graph, e) |->
                           edge(e) \o <<Digits[Bindings(graph, e)[k][1]], Digits[Bindings(graph, e)[k][2]]>>]
                   ELSE <<edge(e)>>
  IN  FlattenSeq([k \in DOMAIN Sorted(graph.edges) |-> record(Sorted(graph.edges)[k])])

DefinitionRecord(d, extra) ==
  IF ~ d.available THEN <<HexOf[d.name], Digits[0]>>
  ELSE <<HexOf[d.name], Digits[1], Digits[Len(d.ids)]>> \o [k \in DOMAIN d.ids |-> Digits[d.ids[k]]]
         \o (IF extra.report THEN EncodeValue(d.rule) \o <<HexOf[d.name]>> ELSE <<>>)

EncodeRequest(graph, extra, query, starts) ==
  LET ported  == graph.connections # {}
      nodes   == SortedNodes(graph.nodes)
      records == EdgeRecords(graph, ported)
  IN  <<Version(extra, ported), Digits[Len(nodes)]>>
        \o FlattenSeq([k \in DOMAIN nodes |-> NodeRecord(nodes[k], extra)])
        \o <<Digits[Len(records)]>> \o FlattenSeq(records)
        \o (IF ~ extra.definitions THEN <<>>
            ELSE <<Digits[Len(extra.memberships)]>>
                   \o FlattenSeq([k \in DOMAIN extra.memberships |-> DefinitionRecord(extra.memberships[k], extra)]))
        \o <<HexOf[query], Digits[starts]>>
=============================================================================
