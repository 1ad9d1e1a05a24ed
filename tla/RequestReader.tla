----------------------------- MODULE RequestReader -----------------------------
(***************************************************************************)
(* The first half of matchRequest: the text of a request is read token by    *)
(* token into a graph, the documents of its nodes and definitions.  `todo`   *)
(* lists the fields still to be read: a field that announces others (the     *)
(* version, a count) puts them in front of the list.  `inner` does the same  *)
(* for the value that readValue is reading, with a number for each field.    *)
(*                                                                          *)
(* A token is a string with the readings the code gives it: as a number      *)
(* (Numeral), as a signed or a finite one (Signed, Finite), as hexadecimal   *)
(* text (Hex), as the tag of a value (Tags).  The rules of definitions are a *)
(* parameter: which values Compiles accepts and which documents Meets a      *)
(* compiled one.                                                             *)
(***************************************************************************)
EXTENDS Naturals, Sequences, SequencesExt, FiniteSets

CONSTANTS Numeral,        \* token -> number, for digits within 64 bits
          Signed,         \* token -> number, for a sign or none and digits
          Finite,         \* token -> number, for what reads as a finite double
          Hex,            \* token -> text, for "-" and hexadecimal tokens
          Words,          \* texts that may name a predicate
          MaxDepth,       \* 64 in the code
          MaxCount,       \* 1000000 in the code
          MaxPort,        \* the largest 32-bit number in the code
          Alphabet,       \* tokens of arbitrary texts
          FreeLength,     \* bound: a text is arbitrary up to this length,
          Scripts,        \* ... after it has followed the text of one of these
          Compiles(_), Meets(_, _)

ASSUME NumeralAssumption == \A token \in DOMAIN Numeral : Numeral[token] \in Nat

VARIABLES script,       \* how the text begins
          text,         \* the tokens read
          library,      \* the engine has a node library of its own
          todo,         \* fields to read, the next one first
          inner,        \* fields of the current value to read before them
          protocol,     \* [version, ported], the version being 1, 2 or 3
          held,         \* what was read of the current record
          built,        \* values of the current document, innermost last
          nodes, documents, edges, connections, definitions,
          query,
          outcome

content == <<nodes, documents, edges, connections, definitions, query>>
vars == <<script, text, library, todo, inner, protocol, held, built, content, outcome>>

Stop == "STOP"
Tags == {"n", "m", "b", "u", "i", "d", "s", "a", "o"}

Times(n, fields) == [k \in 1 .. n * Len(fields) |-> fields[1 + ((k - 1) % Len(fields))]]
With(function, key, value) ==
  [k \in DOMAIN function \cup {key} |-> IF k = key THEN value ELSE function[k]]

Init ==
  /\ script \in Scripts /\ text = <<>> /\ library \in BOOLEAN
  /\ todo = <<"protocol">> /\ inner = <<>> /\ protocol = [version |-> 0, ported |-> FALSE]
  /\ held = <<>> /\ built = <<>>
  /\ nodes = <<>> /\ documents = <<>> /\ edges = {} /\ connections = {} /\ definitions = <<>>
  /\ query = "" /\ outcome = "reading"

-----------------------------------------------------------------------------
(* The steps: a token is read for the field in front, or refused.            *)
Field == Head(todo)
At(name) == outcome = "reading" /\ inner = <<>> /\ Field = name
Part == Head(inner)[1]
Inside(name) == outcome = "reading" /\ inner # <<>> /\ Part = name
Following ==
  IF Len(text) < Len(script.text) THEN {script.text[Len(text) + 1]}
  ELSE {Stop} \cup (IF Len(text) < FreeLength THEN Alphabet ELSE {})
Read(token) == token \in Following /\ text' = Append(text, token) /\ UNCHANGED script
Refuse == outcome' = "refused" /\ UNCHANGED <<library, todo, inner, protocol, held, built, content>>
Expect(fields) == todo' = fields \o Tail(todo) /\ UNCHANGED <<library, inner, outcome>>

Number(token, ok, step) == IF token \in DOMAIN Numeral /\ ok THEN step ELSE Refuse
HexText(token, ok, step)   == IF token \in DOMAIN Hex /\ ok THEN step ELSE Refuse

Versions == [CORGiReg1 |-> 1, CORGiReg2 |-> 2, CORGiReg3 |-> 3, CORGiReg4 |-> 1, CORGiReg5 |-> 2, CORGiReg6 |-> 3]
Sections(version) ==
  IF version = 1 THEN <<"node count", "edge count", "query", "budget", "end">>
  ELSE <<"node count", "edge count", "definition count", "query", "budget", "end">>

\* Mutant of Protocol: the ported versions are not told from the others.
ProtocolMutant(token) ==
  /\ At("protocol") /\ Read(token)
  /\ IF token \notin DOMAIN Versions \/ (library /\ Versions[token] # 3) THEN Refuse
     ELSE /\ protocol' = [version |-> Versions[token], ported |-> FALSE]
          /\ Expect(Sections(protocol'.version))
          /\ UNCHANGED <<held, built, content>>

(* The versions 4 to 6 are 1 to 3 with ports; a library needs documents.     *)
Protocol(token) ==
  /\ At("protocol") /\ Read(token)
  /\ IF token \notin DOMAIN Versions \/ (library /\ Versions[token] # 3) THEN Refuse
     ELSE /\ protocol' = [version |-> Versions[token],
                          ported  |-> token \in {"CORGiReg4", "CORGiReg5", "CORGiReg6"}]
          /\ Expect(Sections(protocol'.version))
          /\ UNCHANGED <<held, built, content>>

(* A count announces that many records, the available flag of a definition   *)
(* the list of its nodes; later fields of a record are announced with them.  *)
Documented == protocol.version = 3
NodeFields == IF Documented THEN <<"node id", "node key", "node name", "node value", "document">>
              ELSE <<"node id", "node key", "node name">>
EdgeFields == IF protocol.ported THEN <<"from", "to", "input", "output", "edge">> ELSE <<"from", "to", "edge">>
Announced(count) ==
  CASE Field = "node count" -> Times(count, NodeFields)
    [] Field = "edge count" -> Times(count, EdgeFields)
    [] Field = "definition count" -> Times(count, <<"definition name", "available">>)
    [] Field = "id count" -> Times(count, <<"definition id">>)

Count(token) ==
  /\ Field \in {"node count", "edge count", "definition count", "id count"} /\ At(Field) /\ Read(token)
  /\ Number(token, TRUE, Expect(Announced(Numeral[token])) /\ UNCHANGED <<protocol, held, built, content>>)

(* Fields kept until their record is complete. *)
Hold(value) == Expect(<<>>) /\ held' = Append(held, value) /\ UNCHANGED <<protocol, built, content>>

NumberField(token) ==
  /\ Field \in {"node id", "from", "to", "input", "output"} /\ At(Field) /\ Read(token)
  /\ Number(token, Field \in {"input", "output"} => Numeral[token] <= MaxPort, Hold(<<Numeral[token]>>))

NameField(token) ==
  /\ Field \in {"node key", "definition name"} /\ At(Field) /\ Read(token)
  /\ HexText(token, Hex[token] \in Words, Hold(<<Hex[token]>>))

-----------------------------------------------------------------------------
(* ImportedGraph::addNode. *)
NodeName(token) ==
  /\ At("node name") /\ Read(token)
  /\ HexText(token, held[1][1] \notin DOMAIN nodes,
       /\ nodes' = With(nodes, held[1][1], [predicate |-> held[2][1], name |-> Hex[token]])
       /\ Expect(<<>>) /\ held' = IF Documented THEN <<held[1]>> ELSE <<>>
       /\ UNCHANGED <<protocol, built, documents, edges, connections, definitions, query>>)

(* readValue: a tag, then a payload or a collection one level deeper.  The    *)
(* value of a node or a rule is at depth 0.                                  *)
Push(value) == built' = Append(built, value)
ValueStep(fields) ==
  /\ IF inner = <<>> THEN inner' = fields /\ todo' = Tail(todo)
                     ELSE inner' = fields \o Tail(inner) /\ todo' = todo
  /\ UNCHANGED <<library, outcome, protocol, held, content>>

Value(token) ==
  LET depth == IF inner = <<>> THEN 0 ELSE Head(inner)[2] IN
  /\ At("node value") \/ At("rule") \/ Inside("value")
  /\ Read(token)
  /\ IF depth > MaxDepth \/ token \notin Tags THEN Refuse
     ELSE CASE token \in {"n", "m"} -> Push(<<token>>) /\ ValueStep(<<>>)
            [] token \in {"b", "u", "i", "d", "s"} -> ValueStep(<< <<token, 0>> >>) /\ UNCHANGED built
            [] token \in {"a", "o"} -> ValueStep(<< <<token, depth>> >>) /\ UNCHANGED built

Payload(token) ==
  LET reading == CASE Part \in {"b", "u"} -> Numeral
                   [] Part = "i" -> Signed
                   [] Part = "d" -> Finite
                   [] Part \in {"s", "value key"} -> Hex
      tag == IF Part = "value key" THEN "s" ELSE Part
  IN
  /\ \E part \in {"b", "u", "i", "d", "s", "value key"} : Inside(part)
  /\ Read(token)
  /\ IF token \in DOMAIN reading /\ (Part = "b" => reading[token] <= 1)
     THEN Push(<<tag, reading[token]>>) /\ ValueStep(<<>>)
     ELSE Refuse

Collection(token) ==
  LET depth == Head(inner)[2] IN
  /\ Inside("a") \/ Inside("o")
  /\ Read(token)
  /\ Number(token, Numeral[token] <= MaxCount,
       /\ ValueStep(Times(Numeral[token], (IF Part = "o" THEN << <<"value key", 0>> >> ELSE <<>>)
                                             \o << <<"value", depth + 1>> >>)
                      \o << <<"close " \o Part, Numeral[token]>> >>)
       /\ UNCHANGED built)

(* An array is its items, an object maps its keys, each given once.          *)
Close ==
  LET count == Head(inner)[2]
      below == SubSeq(built, 1, Len(built) - count * (IF Part = "close o" THEN 2 ELSE 1))
      items == SubSeq(built, Len(below) + 1, Len(built))
      keys  == {items[2 * k - 1][2] : k \in 1 .. count}
  IN
  /\ Inside("close a") \/ Inside("close o")
  /\ UNCHANGED <<script, text>>
  /\ CASE Part = "close a" -> built' = Append(below, <<"a", items>>) /\ ValueStep(<<>>)
       [] Part = "close o" /\ Cardinality(keys) = count ->
            /\ built' = Append(below, <<"o", {<<items[2 * k - 1][2], items[2 * k]>> : k \in 1 .. count}>>)
            /\ ValueStep(<<>>)
       [] OTHER -> Refuse

DocumentRead ==
  /\ At("document") /\ UNCHANGED <<script, text>>
  /\ documents' = With(documents, held[1][1], built[1])
  /\ Expect(<<>>) /\ held' = <<>> /\ built' = <<>>
  /\ UNCHANGED <<protocol, nodes, edges, connections, definitions, query>>

-----------------------------------------------------------------------------
Connection == <<held[1][1], held[2][1], IF protocol.ported THEN held[3][1] ELSE 0,
                                        IF protocol.ported THEN held[4][1] ELSE 0>>

\* Mutant of EdgeRead: the ends are not looked up.
EdgeReadMutant ==
  LET from == held[1][1]  to == held[2][1] IN
  /\ At("edge") /\ UNCHANGED <<script, text>>
  /\ edges' = edges \cup {<<from, to>>}
  /\ connections' = connections \cup {Connection}
  /\ Expect(<<>>) /\ held' = <<>>
  /\ UNCHANGED <<protocol, built, nodes, documents, definitions, query>>

(* ImportedGraph::addEdge: both ends are known; a port of 0 is no port.      *)
EdgeRead ==
  LET from == held[1][1]  to == held[2][1] IN
  /\ At("edge") /\ UNCHANGED <<script, text>>
  /\ IF {from, to} \subseteq DOMAIN nodes
     THEN /\ edges' = edges \cup {<<from, to>>}
          /\ connections' = connections \cup {Connection}
          /\ Expect(<<>>) /\ held' = <<>>
          /\ UNCHANGED <<protocol, built, nodes, documents, definitions, query>>
     ELSE Refuse

(* A definition: its name, whether the format has it, its nodes, and in      *)
(* version 3 a rule that filters them and where the rule comes from.         *)
Available(token) ==
  /\ At("available") /\ Read(token)
  /\ Number(token, Numeral[token] <= 1,
       /\ Expect(IF Numeral[token] = 0 THEN <<"unavailable">>
                 ELSE IF Documented THEN <<"id count", "rule", "source", "definition">>
                 ELSE <<"id count", "definition">>)
       /\ UNCHANGED <<protocol, held, built, content>>)

DefinitionId(token) ==
  /\ At("definition id") /\ Read(token)
  /\ Number(token, Numeral[token] \in DOMAIN nodes, Hold(<<Numeral[token]>>))

Source(token) ==
  /\ At("source") /\ Read(token)
  /\ HexText(token, TRUE, Expect(<<>>) /\ UNCHANGED <<protocol, held, built, content>>)

Ids == {held[k][1] : k \in 2 .. Len(held)}
Filtered == IF ~ Documented \/ built[1] = <<"n">> THEN Ids
            ELSE {n \in Ids : Meets(documents[n], built[1])}

\* Mutant of DefinitionRead: a name given again replaces the definition.
DefinitionReadMutant ==
  LET name == held[1][1] IN
  /\ Field \in {"definition", "unavailable"} /\ At(Field) /\ UNCHANGED <<script, text>>
  /\ IF Field = "definition" /\ Documented /\ built[1] # <<"n">> /\ ~ Compiles(built[1]) THEN Refuse
     ELSE /\ definitions' = With(definitions, name,
                               [available |-> Field = "definition",
                                ids |-> IF Field = "definition" THEN Filtered ELSE {}])
          /\ Expect(<<>>) /\ held' = <<>> /\ built' = <<>>
          /\ UNCHANGED <<protocol, nodes, documents, edges, connections, query>>

DefinitionRead ==
  LET name == held[1][1] IN
  /\ Field \in {"definition", "unavailable"} /\ At(Field) /\ UNCHANGED <<script, text>>
  /\ IF \/ name \in DOMAIN definitions
        \/ Field = "definition" /\ Documented /\ built[1] # <<"n">> /\ ~ Compiles(built[1])
     THEN Refuse
     ELSE /\ definitions' = With(definitions, name,
                               [available |-> Field = "definition",
                                ids |-> IF Field = "definition" THEN Filtered ELSE {}])
          /\ Expect(<<>>) /\ held' = <<>> /\ built' = <<>>
          /\ UNCHANGED <<protocol, nodes, documents, edges, connections, query>>

-----------------------------------------------------------------------------
(* The end of the request.  The library's definitions exclude others.        *)
Query(token) ==
  /\ At("query")
  /\ IF library /\ definitions # <<>> THEN Refuse /\ UNCHANGED <<script, text>>
     ELSE /\ Read(token)
          /\ HexText(token, Hex[token] # "",
               /\ query' = Hex[token] /\ Expect(<<>>)
               /\ UNCHANGED <<protocol, held, built, nodes, documents, edges, connections, definitions>>)

Budget(token) ==
  /\ At("budget") /\ Read(token)
  /\ Number(token, Numeral[token] # 0, Expect(<<>>) /\ UNCHANGED <<protocol, held, built, content>>)

End(token) ==
  /\ At("end") /\ Read(token)
  /\ IF token = Stop THEN outcome' = "read" /\ UNCHANGED <<library, todo, inner, protocol, held, built, content>>
     ELSE Refuse

Take(token) ==
  \/ Protocol(token) \/ Count(token) \/ NumberField(token) \/ NameField(token) \/ NodeName(token)
  \/ Value(token) \/ Payload(token) \/ Collection(token)
  \/ Available(token) \/ DefinitionId(token) \/ Source(token)
  \/ Query(token) \/ Budget(token) \/ End(token)
Next == (\E token \in Following : Take(token)) \/ Close \/ DocumentRead \/ EdgeRead \/ DefinitionRead

Spec == Init /\ [][Next]_vars

-----------------------------------------------------------------------------
TypeOK ==
  /\ outcome \in {"reading", "read", "refused"}
  /\ \A n \in DOMAIN nodes : nodes[n].predicate \in Words
  /\ DOMAIN documents \subseteq DOMAIN nodes

(* What was read is a graph the search can use: edges and the nodes of       *)
(* definitions are among the nodes, every edge has a connection and every    *)
(* connection an edge, documents, when there are any, cover the nodes, and   *)
(* an engine with its own library has them and no definitions of a request.  *)
ContentIsClosed ==
  /\ TypeOK
  /\ edges \subseteq (DOMAIN nodes) \X (DOMAIN nodes)
  /\ edges = {<<c[1], c[2]>> : c \in connections}
  /\ \A name \in DOMAIN definitions : definitions[name].ids \subseteq DOMAIN nodes
  /\ outcome = "read" => DOMAIN documents = IF Documented THEN DOMAIN nodes ELSE {}
  /\ outcome = "read" /\ library => definitions = <<>> /\ Documented
=============================================================================
