---------------------------- MODULE MCRequestReader ----------------------------
EXTENDS RequestReader, Integers, TLC

MCNumeral == "0" :> 0 @@ "1" :> 1 @@ "2" :> 2 @@ "3" :> 3 @@ "4" :> 4 @@ "6" :> 6
               @@ "41" :> 41 @@ "42" :> 42 @@ "69" :> 69
MCSigned  == MCNumeral @@ "-3" :> -3
MCFinite  == MCSigned @@ "1.5" :> "1.5" @@ "1." :> 1
MCHex     == "-" :> "" @@ "41" :> "A" @@ "42" :> "B" @@ "69" :> "inputs" @@ "2e" :> "."
MCWords   == {"A", "B"}
MCDigits  == [n \in {0, 1, 2, 3, 41} |-> CHOOSE t \in DOMAIN MCNumeral : MCNumeral[t] = n]
MCMinus   == -3 :> "-3"
MCRepr    == "1.5" :> "1.5"
(* What is left of a token when it is cut. *)
MCShortened == "41" :> "4" @@ "42" :> "4" @@ "69" :> "6" @@ "2e" :> "2" @@ "-3" :> "-" @@ "1.5" :> "1."
MCHexOf   == [x \in {"", "A", "B", "inputs", "."} |-> CHOOSE t \in DOMAIN MCHex : MCHex[t] = x]
MCAlias   == "opA" :> "A" @@ "op.A" :> "A" @@ "opB" :> "B"

(* A rule asks for fields and their values. *)
MCCompiles(rule) == rule[1] = "o" /\ rule[2] # {}
MCMeets(document, rule) == document[1] = "o" /\ rule[2] \subseteq document[2]

Writer == INSTANCE RequestWriter
            WITH Digits <- MCDigits, Minus <- MCMinus, Repr <- MCRepr, HexOf <- MCHexOf, Alias <- MCAlias,
                 Deepest <- MaxDepth, Largest <- MaxCount, LastPort <- MaxPort

-----------------------------------------------------------------------------
(* Imported graphs, valid or not, of at most two nodes. *)
Object(pairs) == <<"o", pairs>>
AField   == <<"A", <<"b", 1>>>>
AnInput  == <<"inputs", <<"a", << <<"s", "">>, <<"s", "A">> >>>>>>
Nested   == <<"B", Object({<<"A", <<"u", 41>>>>})>>
TooDeep  == <<"B", Object({<<"B", Object({AField})>>})>>
Numbers  == {<<"A", v>> : v \in {<<"i", -3>>, <<"d", "1.5">>}}
TooLarge == {<<"A", v>> : v \in {<<"i", -64>>, <<"u", 64>>, <<"d", "nan">>, <<"a", <<AField[2], AField[2], AField[2]>>>>}}

Node(id, op, document) == [id |-> id, op |-> op, name |-> "", document |-> document]
NodeLists ==
  {<<>>} \cup {<<Node(id, "opA", Object(d))>> : id \in {0, 41}, d \in {{}, {AField}, {AnInput}, {Nested}, {TooDeep}}
                                                      \cup {{field} : field \in Numbers \cup TooLarge}}
         \cup {<<Node(1, "opA", Object(d)), Node(id, op, Object({}))>> :
                 id \in {0, 1}, op \in {"opA", "op.A", "opB"}, d \in {{}, {AField}}}
Loops == {<<0, 0>>, <<0, 1>>, <<1, 0>>}
EdgeLists == {<<>>} \cup {<<e>> : e \in Loops} \cup {<<e, f>> : e, f \in Loops}
Connections == {{}} \cup {{e \o p} : e \in Loops, p \in {<<1, 0>>, <<0, 2>>}}
                    \cup {{<<0, 1, 1, 0>>, <<0, 1, 0, 1>>}}
Graphs == {g \in [nodes : NodeLists, edges : EdgeLists, connections : Connections] :
             Writer!ValidGraph(g)}

Membership(available, ids, rule) == [name |-> "A", available |-> available, ids |-> ids, rule |-> rule]
Extra(defined, report, memberships) ==
  [definitions |-> defined, report |-> report, memberships |-> memberships]
Extras == {Extra(FALSE, FALSE, <<>>), Extra(TRUE, TRUE, <<>>)}
            \cup {Extra(TRUE, report, <<m>>) : report \in BOOLEAN,
                    m \in {Membership(FALSE, <<>>, <<"n">>), Membership(TRUE, <<0>>, <<"n">>),
                           Membership(TRUE, <<0>>, Object({AField})), Membership(TRUE, <<>>, Object({AField}))}}

Fits(g, x) ==
  /\ \A m \in ToSet(x.memberships) : ToSet(m.ids) \subseteq {n.id : n \in ToSet(g.nodes)}
  /\ x.report => \A n \in ToSet(g.nodes) : Writer!Encodable(Writer!Sent(n.document), 0)
(* Scripts say what the text was written from: a whole request, one that is  *)
(* cut short, between two tokens or inside one, or goes on after its end, or *)
(* nothing.                                                                  *)
Script(t, w) == [text |-> t, asked |-> w.text, graph |-> w.graph, extra |-> w.extra]
Requests == {[graph |-> r[1], extra |-> r[2], text |-> Writer!EncodeRequest(r[1], r[2], "A", 41)]
               : r \in {r \in Graphs \X Extras : Fits(r[1], r[2])}}
Damaged(t) ==
  {Append(t, Last(t))} \cup {SubSeq(t, 1, k) : k \in 1 .. Len(t) - 1}
    \cup {Append(SubSeq(t, 1, k - 1), MCShortened[t[k]]) : k \in {k \in DOMAIN t : t[k] \in DOMAIN MCShortened}}
Nothing == [text |-> <<>>, graph |-> [nodes |-> <<>>, edges |-> <<>>, connections |-> {}], extra |-> Extra(FALSE, FALSE, <<>>)]

(* What validate_graph and encode_value never send: a document too deep, a    *)
(* value of another kind than its tag says, a key twice in an object, IDs     *)
(* that are used twice or not at all, a port beyond 32 bits, a definition     *)
(* given twice.                                                              *)
Malformed ==
  LET text3(document) == <<"CORGiReg3", "1", "0", "41", "-">> \o document \o <<"0", "0", "41", "1">>
      text2(edges2, defs) == <<"CORGiReg5", "1", "0", "41", "-">> \o edges2 \o defs \o <<"41", "1">>
  IN  {text3(Writer!EncodeValue(Object({TooDeep}))), text3(<<"o", "2", "41", "n", "41", "n">>), text3(<<"b", "2">>), text3(<<"u", "-3">>),
       text3(<<"i", "1.5">>), text3(<<"d", "-">>),
       <<"CORGiReg1", "2", "0", "41", "-", "0", "42", "-", "0", "41", "1">>,
       text2(<<"1", "0", "1", "0", "0">>, <<"0">>), text2(<<"1", "0", "0", "3", "0">>, <<"0">>),
       text2(<<"0">>, <<"1", "41", "1", "1", "1">>), text2(<<"0">>, <<"2", "41", "0", "41", "1", "0">>)}
MCScripts ==
  {Script(t, Nothing) : t \in {<<>>} \cup Malformed} \cup {Script(w.text, w) : w \in Requests}
    \cup UNION {{Script(t, w) : t \in {t \in Damaged(w.text) : Len(t) > FreeLength}}
                  : w \in {w \in Requests : Len(w.graph.nodes) = 1 /\ Len(w.graph.edges) < 2}}
MCAlphabet == DOMAIN Versions \cup DOMAIN MCFinite \cup DOMAIN MCHex \cup Tags

-----------------------------------------------------------------------------
Whole == script.asked # <<>> /\ script.text = script.asked
(* All of the request has arrived, or all but the end of its last numeral.    *)
LastShortened == Append(Front(script.asked), MCShortened[Last(script.asked)])
Arrived == script.asked # <<>> /\ text \in {Append(script.asked, Stop), Append(LastShortened, Stop)}
ForThisEngine == library => script.extra.report /\ script.extra.memberships = <<>>

(* The two programs agree on the protocol: what the command writes for a     *)
(* graph that validate_graph accepts, the engine reads without complaint, and *)
(* it reads that graph: the same nodes, two of which have the same predicate  *)
(* only if they have the same operation, the same edges and ports, the        *)
(* documents that were sent, the definitions and their nodes.  It reads them  *)
(* also when the end of the last numeral is lost: that is the budget's.      *)
WrittenIsReadBack ==
  LET g    == script.graph
      node(id) == CHOOSE n \in ToSet(g.nodes) : n.id = id
      ids  == {n.id : n \in ToSet(g.nodes)}
      bound(e) == {c \in g.connections : <<c[1], c[2]>> = e}
      given == script.extra.memberships
      members(m) == {id \in ToSet(m.ids) : script.extra.report /\ m.rule # <<"n">> => MCMeets(documents[id], m.rule)}
      member(name) == given[CHOOSE k \in DOMAIN given : given[k].name = name]
  IN  /\ outcome = "refused" /\ Whole /\ ForThisEngine => ~ IsPrefix(text, Append(script.text, Stop))
      /\ outcome = "read" /\ Arrived =>
        /\ DOMAIN nodes = ids
        /\ \A a, b \in ids : nodes[a].predicate = nodes[b].predicate <=> node(a).op = node(b).op
        /\ \A a \in ids : nodes[a] = [predicate |-> MCAlias[node(a).op], name |-> node(a).name]
        /\ edges = ToSet(g.edges)
        /\ connections = UNION {IF bound(e) = {} THEN {e \o <<0, 0>>} ELSE bound(e) : e \in edges}
        /\ script.extra.report => \A a \in ids : documents[a] = Writer!Sent(node(a).document)
        /\ definitions = [name \in {m.name : m \in ToSet(given)} |->
                            [available |-> member(name).available,
                             ids |-> IF member(name).available THEN members(member(name)) ELSE {}]]
        /\ query = "A"

RECURSIVE Depth(_)
Depth(value) ==
  LET parts == CASE value[1] = "a" -> ToSet(value[2])
                 [] value[1] = "o" -> {pair[2] : pair \in value[2]}
                 [] OTHER -> {}
  IN  IF parts = {} THEN 0 ELSE 1 + (CHOOSE d \in {Depth(v) : v \in parts} : \A v \in parts : Depth(v) <= d)

(* The engine never answers from a request that is cut short, between two     *)
(* tokens or inside one, or that goes on after its end, or that breaks the    *)
(* rules of the protocol; with one exception: a request cut inside its last   *)
(* numeral is read whole, with a smaller budget, since nothing marks the end  *)
(* of a request.  No document that it keeps nests deeper than it reads.       *)
WholeRequestsOnly ==
  /\ outcome = "read" /\ Len(script.text) > FreeLength => Arrived
  /\ \A n \in DOMAIN documents : Depth(documents[n]) <= MaxDepth
=============================================================================
