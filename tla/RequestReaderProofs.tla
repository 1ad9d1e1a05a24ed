-------------------------- MODULE RequestReaderProofs --------------------------
(***************************************************************************)
(* Whatever the text is, and however many nodes, edges and definitions it     *)
(* announces: what the reader has taken from it is always closed.            *)
(***************************************************************************)
EXTENDS RequestReader, SequenceTheorems, TLAPS

(* The fields of a request in the order in which todo may have them; those    *)
(* that a field announces are put between it and the next one.               *)
Fields == {"protocol", "node count", "node id", "node key", "node name", "node value", "document",
           "edge count", "from", "to", "input", "output", "edge",
           "definition count", "definition name", "available", "unavailable", "id count", "definition id",
           "rule", "source", "definition", "query", "budget", "end"}

AfterNode == {"node id", "edge count"}
AfterEdge == {"from", "definition count", "query"}
AfterDefinition == {"definition name", "query"}

After(field) ==
  CASE field = "node count" -> {"edge count"}
    [] field = "node id" -> {"node key"}
    [] field = "node key" -> {"node name"}
    [] field = "node name" -> IF Documented THEN {"node value"} ELSE AfterNode
    [] field = "node value" -> {"document"}
    [] field = "document" -> AfterNode
    [] field = "edge count" -> {"definition count", "query"}
    [] field = "from" -> {"to"}
    [] field = "to" -> IF protocol.ported THEN {"input"} ELSE {"edge"}
    [] field = "input" -> {"output"}
    [] field = "output" -> {"edge"}
    [] field = "edge" -> AfterEdge
    [] field = "definition count" -> {"query"}
    [] field = "definition name" -> {"available"}
    [] field \in {"available", "unavailable", "definition"} -> AfterDefinition
    [] field = "id count" -> {"rule", "definition"}
    [] field = "definition id" -> {"definition id", "rule", "definition"}
    [] field = "rule" -> {"source"}
    [] field = "source" -> {"definition"}
    [] field = "query" -> {"budget"}
    [] field = "budget" -> {"end"}
    [] OTHER -> {}

Chain(t) == \A i \in 1 .. Len(t) - 1 : t[i + 1] \in After(t[i])
IsPlan(t) == t \in Seq(Fields) /\ t # <<>> /\ Chain(t) /\ t[Len(t)] \in {"end", "protocol"}

(* What is held of a record when its next field is read. *)
Listed == held \in Seq(ToSet(held))
NoRecord == {"protocol", "node count", "node id", "edge count", "from", "definition count", "definition name",
             "query", "budget", "end"}
InDefinition == {"available", "unavailable", "id count", "definition id", "rule", "source", "definition"}

HeldFits(field) ==
  /\ field \in NoRecord => held = <<>>
  /\ field = "node key" => Len(held) = 1
  /\ field = "node name" => Len(held) = 2 /\ held[2][1] \in Words
  /\ field \in {"node value", "document"} => Documented /\ held[1][1] \in DOMAIN nodes
  /\ field = "available" => Len(held) = 1
  /\ field \in InDefinition => \A k \in 2 .. Len(held) : held[k][1] \in DOMAIN nodes

(* The node whose document is being read is the only one without.            *)
Waiting(field) == IF field \in {"node value", "document"} THEN {held[1][1]} ELSE {}
Covered(field) == DOMAIN documents = IF Documented THEN DOMAIN nodes \ Waiting(field) ELSE {}

Admitted(field) ==
  /\ field = "protocol" => nodes = <<>> /\ documents = <<>> /\ definitions = <<>> /\ protocol.version = 0
  /\ library /\ field # "protocol" => Documented
  /\ library /\ field \in {"budget", "end"} => definitions = <<>>
  /\ outcome = "read" => field = "end"

Closed ==
  /\ \A n \in DOMAIN nodes : nodes[n].predicate \in Words
  /\ edges \subseteq (DOMAIN nodes) \X (DOMAIN nodes)
  /\ edges = {<<c[1], c[2]>> : c \in connections}
  /\ \A name \in DOMAIN definitions : definitions[name].ids \subseteq DOMAIN nodes

Inv ==
  /\ outcome \in {"reading", "read", "refused"} /\ Listed /\ Closed
  /\ IsPlan(todo) /\ HeldFits(Head(todo)) /\ Covered(Head(todo)) /\ Admitted(Head(todo))

-----------------------------------------------------------------------------
LEMMA InitInv == Init => Inv
<1> SUFFICES ASSUME Init PROVE Inv
  OBVIOUS
<1>1. /\ todo = <<"protocol">> /\ held = <<>> /\ nodes = <<>> /\ documents = <<>> /\ definitions = <<>>
      /\ edges = {} /\ connections = {} /\ outcome = "reading" /\ protocol = [version |-> 0, ported |-> FALSE]
  BY DEF Init
<1>2. IsPlan(todo) /\ Head(todo) = "protocol"
  BY <1>1 DEF IsPlan, Chain, Fields
<1>3. Listed /\ Closed /\ HeldFits("protocol") /\ Covered("protocol") /\ Admitted("protocol")
  BY <1>1 DEF Listed, Closed, HeldFits, Covered, Waiting, Admitted, NoRecord, InDefinition, Documented, ToSet
<1> QED
  BY <1>1, <1>2, <1>3 DEF Inv

(* A step that reads inside a value, and one that refuses, leave all of it.   *)
LEMMA NothingTaken ==
  ASSUME Inv, outcome' \in {outcome, "refused"},
         UNCHANGED <<library, todo, protocol, held, nodes, documents, edges, connections, definitions>>
  PROVE  Inv'
<1>1. Documented' = Documented /\ Waiting(Head(todo))' = Waiting(Head(todo))
  BY DEF Documented, Waiting
<1>2. IsPlan(todo)'
  BY DEF Inv, IsPlan, Chain, After, Documented
<1>3. Listed' /\ Closed' /\ HeldFits(Head(todo))' /\ Covered(Head(todo))' /\ Admitted(Head(todo))'
  BY <1>1 DEF Inv, Listed, Closed, HeldFits, Covered, Admitted
<1> QED
  BY <1>2, <1>3 DEF Inv

(* The next field is one that may follow. *)
LEMMA Advance ==
  ASSUME Inv, Head(todo) \notin {"end", "protocol"}, todo' = Tail(todo), protocol' = protocol
  PROVE  IsPlan(todo)' /\ Head(todo)' \in After(Head(todo))
<1>1. todo \in Seq(Fields) /\ Len(todo) \in Nat \ {0} /\ todo[1] = Head(todo)
  BY DEF Inv, IsPlan
<1>2. Len(todo) > 1
  BY <1>1 DEF Inv, IsPlan
<1>3. /\ todo' \in Seq(Fields) /\ Len(todo') = Len(todo) - 1
      /\ \A i \in 1 .. Len(todo) - 1 : todo'[i] = todo[i + 1]
  BY <1>1, <1>2
<1>4. IsPlan(todo')
  <2>1. Chain(todo')
    <3> SUFFICES ASSUME NEW i \in 1 .. Len(todo') - 1 PROVE todo'[i + 1] \in After(todo'[i])
      BY DEF Chain
    <3>1. i + 1 \in 1 .. Len(todo) - 1 /\ todo'[i] = todo[i + 1] /\ todo'[i + 1] = todo[i + 2]
      BY <1>2, <1>3
    <3> QED
      BY <3>1 DEF Inv, IsPlan, Chain
  <2>2. todo'[Len(todo')] = todo[Len(todo)] /\ todo' # <<>>
    <3>1. Len(todo) - 1 \in 1 .. Len(todo) - 1 /\ (Len(todo) - 1) + 1 = Len(todo)
      BY <1>1, <1>2
    <3>2. todo'[Len(todo')] = todo[Len(todo)]
      BY <1>3, <3>1
    <3>3. Len(todo') # 0
      BY <1>1, <1>2, <1>3
    <3> QED
      BY <3>2, <3>3
  <2> QED
    BY <1>3, <2>1, <2>2 DEF Inv, IsPlan
<1>5. IsPlan(todo)'
  BY <1>4 DEF IsPlan, Chain, After, Documented
<1>6. Head(todo') = todo[2] /\ todo[2] \in After(todo[1])
  BY <1>2, <1>3 DEF Inv, IsPlan, Chain
<1> QED
  BY <1>1, <1>5, <1>6

(* The next field is the first one that was announced. *)
Block(fields) == fields \in Seq(Fields) /\ fields # <<>> /\ Chain(fields)

LEMMA Announce ==
  ASSUME Inv, Head(todo) \notin {"end", "protocol"}, NEW fields, Block(fields),
         After(Head(todo)) \subseteq After(fields[Len(fields)]),
         todo' = fields \o Tail(todo), protocol' = protocol
  PROVE  IsPlan(todo)' /\ Head(todo)' = fields[1]
<1> DEFINE n == Len(fields)
           rest == Tail(todo)
<1>1. todo \in Seq(Fields) /\ Len(todo) \in Nat \ {0} /\ todo[1] = Head(todo)
  BY DEF Inv, IsPlan
<1>2. Len(todo) > 1
  BY <1>1 DEF Inv, IsPlan
<1>3. rest \in Seq(Fields) /\ Len(rest) = Len(todo) - 1 /\ \A i \in 1 .. Len(todo) - 1 : rest[i] = todo[i + 1]
  BY <1>1, <1>2
<1>4. fields \in Seq(Fields) /\ n \in Nat \ {0}
  BY DEF Block
<1>5. /\ todo' \in Seq(Fields) /\ Len(todo') = n + Len(rest)
      /\ \A i \in 1 .. n : todo'[i] = fields[i]
      /\ \A i \in n + 1 .. n + Len(rest) : todo'[i] = rest[i - n]
  BY <1>3, <1>4
<1>6. Chain(todo')
  <2> SUFFICES ASSUME NEW i \in 1 .. Len(todo') - 1 PROVE todo'[i + 1] \in After(todo'[i])
    BY DEF Chain
  <2>1. CASE i < n
    <3>1. i \in 1 .. n - 1 /\ todo'[i] = fields[i] /\ todo'[i + 1] = fields[i + 1]
      BY <1>4, <1>5, <2>1
    <3> QED
      BY <3>1 DEF Block, Chain
  <2>2. CASE i = n
    <3>1. todo'[i] = fields[n] /\ todo'[i + 1] = rest[1] /\ rest[1] = todo[2]
      BY <1>2, <1>3, <1>4, <1>5, <2>2
    <3>2. todo[2] \in After(todo[1])
      BY <1>2 DEF Inv, IsPlan, Chain
    <3> QED
      BY <1>1, <3>1, <3>2
  <2>3. CASE i > n
    <3>1. /\ i - n + 1 \in 1 .. Len(todo) - 1
          /\ todo'[i] = todo[i - n + 1] /\ todo'[i + 1] = todo[i - n + 2]
      BY <1>2, <1>3, <1>4, <1>5, <2>3
    <3>2. todo[(i - n + 1) + 1] \in After(todo[i - n + 1])
      BY <3>1 DEF Inv, IsPlan, Chain
    <3>3. (i - n + 1) + 1 = i - n + 2
      BY <1>4
    <3> QED
      BY <3>1, <3>2, <3>3
  <2> QED
    BY <1>4, <2>1, <2>2, <2>3
<1>7. todo'[Len(todo')] = todo[Len(todo)] /\ todo' # <<>>
  BY <1>2, <1>3, <1>4, <1>5
<1>8. IsPlan(todo')
  BY <1>5, <1>6, <1>7 DEF Inv, IsPlan
<1>9. IsPlan(todo)'
  BY <1>8 DEF IsPlan, Chain, After, Documented
<1>10. Head(todo') = fields[1]
  BY <1>4, <1>5
<1> QED
  BY <1>9, <1>10

(* Records that are announced one after the other are a block as well.       *)
LEMMA TimesIsBlock ==
  ASSUME NEW n \in Nat \ {0}, NEW record, Block(record), Len(record) \in {1, 2, 3, 5},
         record[1] \in After(record[Len(record)])
  PROVE  /\ Block(Times(n, record)) /\ Times(n, record)[1] = record[1]
         /\ Times(n, record)[Len(Times(n, record))] = record[Len(record)]
<1> DEFINE w == Len(record)
           t == Times(n, record)
           at(k) == 1 + ((k - 1) % w)
<1>1. record \in Seq(Fields) /\ w \in {1, 2, 3, 5}
  BY DEF Block
<1>2. /\ n * w \in Nat \ {0} /\ \A k \in 1 .. n * w : at(k) \in 1 .. w
      /\ at(1) = 1 /\ at(n * w) = w
      /\ \A k \in 1 .. n * w - 1 : at(k + 1) = IF at(k) = w THEN 1 ELSE at(k) + 1
  BY <1>1
<1> HIDE DEF at
<1>3. t = [k \in 1 .. n * w |-> record[at(k)]]
  BY DEF Times, at
<1>4. t \in Seq(Fields) /\ Len(t) = n * w /\ \A k \in 1 .. n * w : t[k] = record[at(k)]
  <2>1. \A k \in 1 .. n * w : record[at(k)] \in Fields
    BY <1>1, <1>2
  <2>2. t \in [1 .. n * w -> Fields]
    BY <1>3, <2>1
  <2> QED
    BY <1>2, <1>3, <2>2, SeqDef
<1>5. Chain(t)
  <2> SUFFICES ASSUME NEW k \in 1 .. Len(t) - 1 PROVE t[k + 1] \in After(t[k])
    BY DEF Chain
  <2>1. k \in 1 .. n * w - 1 /\ k + 1 \in 1 .. n * w /\ k \in 1 .. n * w
    BY <1>2, <1>4
  <2>2. CASE at(k) = w
    BY <1>2, <1>4, <2>1, <2>2
  <2>3. CASE at(k) # w
    <3>1. at(k) \in 1 .. Len(record) - 1 /\ at(k + 1) = at(k) + 1
      BY <1>1, <1>2, <2>1, <2>3
    <3> QED
      BY <1>4, <2>1, <3>1 DEF Block, Chain
  <2> QED
    BY <2>2, <2>3
<1> QED
  BY <1>2, <1>4, <1>5 DEF Block

LEMMA ChainOf1 ==
  ASSUME NEW a \in Fields
  PROVE  Block(<<a>>) /\ Len(<<a>>) = 1 /\ <<a>>[1] = a
BY DEF Block, Chain

LEMMA ChainOf2 ==
  ASSUME NEW a \in Fields, NEW b \in Fields, b \in After(a)
  PROVE  Block(<<a, b>>) /\ Len(<<a, b>>) = 2 /\ <<a, b>>[1] = a /\ <<a, b>>[2] = b
BY DEF Block, Chain

LEMMA ChainOf3 ==
  ASSUME NEW a \in Fields, NEW b \in Fields, NEW c \in Fields, b \in After(a), c \in After(b)
  PROVE  Block(<<a, b, c>>) /\ Len(<<a, b, c>>) = 3 /\ <<a, b, c>>[1] = a /\ <<a, b, c>>[3] = c
BY DEF Block, Chain

LEMMA ChainOf4 ==
  ASSUME NEW a \in Fields, NEW b \in Fields, NEW c \in Fields, NEW d \in Fields,
         b \in After(a), c \in After(b), d \in After(c)
  PROVE  Block(<<a, b, c, d>>) /\ Len(<<a, b, c, d>>) = 4 /\ <<a, b, c, d>>[1] = a /\ <<a, b, c, d>>[4] = d
BY DEF Block, Chain

LEMMA ChainOf5 ==
  ASSUME NEW a \in Fields, NEW b \in Fields, NEW c \in Fields, NEW d \in Fields, NEW e \in Fields,
         b \in After(a), c \in After(b), d \in After(c), e \in After(d)
  PROVE  /\ Block(<<a, b, c, d, e>>) /\ Len(<<a, b, c, d, e>>) = 5
         /\ <<a, b, c, d, e>>[1] = a /\ <<a, b, c, d, e>>[5] = e
BY DEF Block, Chain

LEMMA ChainOf6 ==
  ASSUME NEW a \in Fields, NEW b \in Fields, NEW c \in Fields, NEW d \in Fields, NEW e \in Fields,
         NEW f \in Fields, b \in After(a), c \in After(b), d \in After(c), e \in After(d), f \in After(e)
  PROVE  /\ Block(<<a, b, c, d, e, f>>) /\ Len(<<a, b, c, d, e, f>>) = 6
         /\ <<a, b, c, d, e, f>>[1] = a /\ <<a, b, c, d, e, f>>[6] = f
BY DEF Block, Chain

LEMMA TuplesOf == ASSUME NEW S, NEW a \in S, NEW b \in S, NEW c \in S, NEW d \in S, NEW e \in S
                  PROVE  <<a, b, c, d, e>> \in Seq(S) /\ \A f \in S : <<a, b, c, d, e, f>> \in Seq(S)
OBVIOUS

LEMMA ChainInSet ==
  ASSUME NEW S, NEW t \in Seq(S), Chain(t)
  PROVE  \A i \in 1 .. Len(t) - 1 : t[i] \in S /\ t[i + 1] \in After(t[i])
<1>1. Len(t) \in Nat /\ \A i \in 1 .. Len(t) : t[i] \in S
  OBVIOUS
<1> QED
  BY <1>1 DEF Chain

(* What may follow a section's field does not depend on the version.         *)
LEMMA SectionsArePlan ==
  ASSUME NEW S, "node name" \notin S, "to" \notin S, S \subseteq Fields,
         NEW t \in Seq(S), Block(t), t[Len(t)] = "end", todo' = t
  PROVE  IsPlan(todo)'
<1>1. \A x, y : x \in S /\ y \in After(x) => y \in After(x)'
  BY DEF After, AfterNode, AfterEdge, AfterDefinition
<1>2. \A i \in 1 .. Len(t) - 1 : t[i] \in S /\ t[i + 1] \in After(t[i])
  BY ChainInSet DEF Block
<1>3. Chain(t)'
  BY <1>1, <1>2 DEF Chain
<1>4. Chain(todo)'
  BY <1>3 DEF Chain, After, Documented
<1> QED
  BY <1>4 DEF Block, IsPlan

LEMMA NoTimes == ASSUME NEW record, Len(record) \in Nat PROVE Times(0, record) = <<>>
BY DEF Times

-----------------------------------------------------------------------------
LEMMA AppendToHeld ==
  ASSUME Listed, NEW value, held' = Append(held, value)
  PROVE  /\ Listed'
         /\ held = <<>> => Len(held') = 1 /\ 2 .. Len(held') = {}
         /\ Len(held) = 1 => Len(held') = 2 /\ held'[2] = value
         /\ \A k \in 2 .. Len(held') : held'[k] = value \/ (k \in 2 .. Len(held) /\ held'[k] = held[k])
<1> DEFINE S == ToSet(held) \cup {value}
<1>1. held \in Seq(S) /\ Len(held) \in Nat
  <2>1. held \in Seq(ToSet(held))
    BY DEF Listed
  <2>2. \A k \in DOMAIN held : held[k] \in S
    BY DEF ToSet
  <2>3. held \in [1 .. Len(held) -> S] /\ Len(held) \in Nat
    BY <2>1, <2>2, LenProperties
  <2> QED
    BY <2>3, SeqDef
<1>2. /\ held' \in Seq(S) /\ Len(held') = Len(held) + 1
      /\ held'[Len(held) + 1] = value /\ \A k \in 1 .. Len(held) : held'[k] = held[k]
  BY <1>1
<1>3. PICK n \in Nat : held' \in [1 .. n -> S]
  BY <1>2, LenProperties
<1>4. held' \in [1 .. n -> ToSet(held')]
  BY <1>3 DEF ToSet
<1>5. Listed'
  BY <1>4, SeqDef DEF Listed
<1>6. held = <<>> => Len(held') = 1 /\ 2 .. Len(held') = {}
  BY <1>1, <1>2
<1>7. Len(held) = 1 => Len(held') = 2 /\ held'[2] = value
  BY <1>1, <1>2
<1>8. \A k \in 2 .. Len(held') : held'[k] = value \/ (k \in 2 .. Len(held) /\ held'[k] = held[k])
  BY <1>1, <1>2
<1> QED
  BY <1>5, <1>6, <1>7, <1>8

LEMMA NothingHeld == ASSUME held' = <<>> PROVE Listed'
BY DEF Listed, ToSet

LEMMA NothingExpected == ASSUME Inv, Expect(<<>>) PROVE todo' = Tail(todo) /\ UNCHANGED <<library, inner, outcome>>
<1>1. todo' = <<>> \o Tail(todo) /\ UNCHANGED <<library, inner, outcome>>
  BY DEF Expect
<1>2. Tail(todo) \in Seq(Fields)
  BY DEF Inv, IsPlan
<1> QED
  BY <1>1, <1>2, ConcatEmptySeq

(* A number or a name of a record is kept, its next field is in todo.        *)
LEMMA HoldKeeps ==
  ASSUME Inv, NEW value, Hold(value), outcome = "reading",
         Head(todo) \in {"node id", "node key", "from", "to", "input", "output", "definition name", "definition id"},
         Head(todo) = "node key" => value[1] \in Words,
         Head(todo) = "definition id" => value[1] \in DOMAIN nodes
  PROVE  Inv'
<1>1. /\ Expect(<<>>) /\ held' = Append(held, value)
      /\ UNCHANGED <<library, outcome, protocol, nodes, documents, edges, connections, definitions>>
  BY DEF Hold, Expect, content
<1>2. todo' = Tail(todo)
  BY <1>1, NothingExpected
<1>3. IsPlan(todo)' /\ Head(todo)' \in After(Head(todo))
  BY <1>1, <1>2, Advance
<1>4. /\ Listed'
      /\ held = <<>> => Len(held') = 1 /\ 2 .. Len(held') = {}
      /\ Len(held) = 1 => Len(held') = 2 /\ held'[2] = value
      /\ \A k \in 2 .. Len(held') : held'[k] = value \/ (k \in 2 .. Len(held) /\ held'[k] = held[k])
  BY <1>1, AppendToHeld DEF Inv
<1>5. HeldFits(Head(todo))'
  <2>1. CASE Head(todo) \in {"node id", "from", "to", "input", "output", "definition name"}
    <3>1. Head(todo) \in {"node id", "definition name"} => Len(held') = 1 /\ 2 .. Len(held') = {}
      BY <1>4 DEF Inv, HeldFits, NoRecord
    <3>2. /\ Head(todo)' \in {"node key", "to", "input", "edge", "output", "available"}
          /\ Head(todo)' \in {"node key", "available"} => Head(todo) \in {"node id", "definition name"}
      BY <1>3, <2>1 DEF After
    <3> QED
      BY <3>1, <3>2 DEF HeldFits, NoRecord, InDefinition
  <2>2. CASE Head(todo) = "node key"
    <3>1. Len(held') = 2 /\ held'[2] = value /\ value[1] \in Words
      BY <1>4, <2>2 DEF Inv, HeldFits
    <3>2. Head(todo)' = "node name"
      BY <1>3, <2>2 DEF After
    <3> QED
      BY <3>1, <3>2 DEF HeldFits, NoRecord, InDefinition
  <2>3. CASE Head(todo) = "definition id"
    <3>1. \A k \in 2 .. Len(held) : held[k][1] \in DOMAIN nodes
      BY <2>3 DEF Inv, HeldFits, InDefinition
    <3>2. \A k \in 2 .. Len(held') : held'[k][1] \in DOMAIN nodes
      BY <1>4, <2>3, <3>1
    <3>3. Head(todo)' \in {"definition id", "rule", "definition"}
      BY <1>3, <2>3 DEF After
    <3> QED
      BY <1>1, <3>2, <3>3 DEF HeldFits, NoRecord
  <2> QED
    BY <2>1, <2>2, <2>3
<1>6. Covered(Head(todo))'
  <2>1. Covered(Head(todo)) /\ Waiting(Head(todo)) = {} /\ Waiting(Head(todo))' = {}
    BY <1>3 DEF Inv, Waiting, After
  <2> QED
    BY <1>1, <2>1 DEF Covered, Documented
<1>7. Admitted(Head(todo))' /\ Closed'
  BY <1>1, <1>3 DEF Inv, Admitted, Closed, After, Documented
<1> QED
  BY <1>1, <1>3, <1>4, <1>5, <1>6, <1>7 DEF Inv

-----------------------------------------------------------------------------
(* Nothing but the plan changes: a field is passed over, or announces others. *)
LEMMA PassKeeps ==
  ASSUME Inv, outcome = "reading", todo' = Tail(todo),
         UNCHANGED <<library, outcome, protocol, held, nodes, documents, edges, connections, definitions>>,
         Head(todo) \in {"node count", "edge count", "definition count", "id count", "node value",
                         "rule", "source", "query", "budget"},
         Head(todo) = "query" /\ library => definitions = <<>>
  PROVE  Inv'
<1>1. IsPlan(todo)' /\ Head(todo)' \in After(Head(todo))
  BY Advance
<1>2. Listed' /\ Closed' /\ Documented' = Documented
  BY DEF Inv, Listed, Closed, Documented
<1>3. HeldFits(Head(todo))'
  BY <1>1, <1>2 DEF Inv, HeldFits, After, NoRecord, InDefinition
<1>4. Covered(Head(todo))'
  <2>1. Waiting(Head(todo))' = Waiting(Head(todo))
    BY <1>1 DEF Waiting, After
  <2> QED
    BY <1>2, <2>1 DEF Inv, Covered
<1>5. Admitted(Head(todo))'
  BY <1>1, <1>2 DEF Inv, Admitted, After
<1> QED
  BY <1>1, <1>2, <1>3, <1>4, <1>5 DEF Inv

LEMMA AnnounceKeeps ==
  ASSUME Inv, outcome = "reading", NEW fields, Block(fields),
         After(Head(todo)) \subseteq After(fields[Len(fields)]), todo' = fields \o Tail(todo),
         UNCHANGED <<library, outcome, protocol, held, nodes, documents, edges, connections, definitions>>,
         \/ Head(todo) = "node count" /\ fields[1] = "node id"
         \/ Head(todo) = "edge count" /\ fields[1] = "from"
         \/ Head(todo) = "definition count" /\ fields[1] = "definition name"
         \/ Head(todo) = "id count" /\ fields[1] = "definition id"
         \/ Head(todo) = "available" /\ fields[1] \in {"unavailable", "id count"}
  PROVE  Inv'
<1>1. IsPlan(todo)' /\ Head(todo)' = fields[1]
  BY Announce
<1>2. Listed' /\ Closed' /\ Documented' = Documented
  BY DEF Inv, Listed, Closed, Documented
<1>3. HeldFits(Head(todo))'
  BY <1>1, <1>2 DEF Inv, HeldFits, NoRecord, InDefinition
<1>4. Covered(Head(todo))'
  <2>1. Waiting(Head(todo))' = Waiting(Head(todo))
    BY <1>1 DEF Waiting
  <2> QED
    BY <1>2, <2>1 DEF Inv, Covered
<1>5. Admitted(Head(todo))'
  BY <1>1, <1>2 DEF Inv, Admitted
<1> QED
  BY <1>1, <1>2, <1>3, <1>4, <1>5 DEF Inv

LEMMA RefuseKeeps == ASSUME Inv, Refuse PROVE Inv'
BY NothingTaken DEF Refuse, content

-----------------------------------------------------------------------------
(* The actions, one by one. *)
LEMMA ProtocolKeeps == ASSUME Inv, NEW token, Protocol(token) PROVE Inv'
<1>1. Head(todo) = "protocol" /\ outcome = "reading"
  BY DEF Protocol, At, Field
<1>2. CASE Refuse
  BY <1>2, RefuseKeeps
<1>3. CASE ~ Refuse
  <2>0. /\ ~ (library /\ Versions[token] # 3)
        /\ protocol' = [version |-> Versions[token], ported |-> token \in {"CORGiReg4", "CORGiReg5", "CORGiReg6"}]
        /\ Expect(Sections(protocol'.version)) /\ UNCHANGED <<held, built, content>>
    BY <1>3 DEF Protocol
  <2>1. /\ todo' = Sections(protocol'.version) \o Tail(todo) /\ (library => protocol'.version = 3)
        /\ UNCHANGED <<library, outcome, held, nodes, documents, edges, connections, definitions>>
    BY <2>0 DEF Expect, content
  <2>2. Tail(todo) = <<>>
    <3>1. todo \in Seq(Fields) /\ Len(todo) \in Nat \ {0} /\ todo[1] = "protocol"
      BY <1>1 DEF Inv, IsPlan
    <3>2. ~ Len(todo) > 1
      <4> SUFFICES ASSUME Len(todo) > 1 PROVE FALSE
        OBVIOUS
      <4>1. todo[1 + 1] \in After(todo[1])
        BY <3>1 DEF Inv, IsPlan, Chain
      <4> QED
        BY <3>1, <4>1 DEF After
    <3> QED
      BY <3>1, <3>2
  <2> DEFINE names == {"node count", "edge count", "definition count", "query", "budget", "end"}
  <2>3. /\ Sections(protocol'.version) \in Seq(names) /\ Block(Sections(protocol'.version))
        /\ Sections(protocol'.version)[Len(Sections(protocol'.version))] = "end"
        /\ Sections(protocol'.version)[1] = "node count"
    <3>1. /\ "edge count" \in After("node count") /\ {"definition count", "query"} \subseteq After("edge count")
          /\ "query" \in After("definition count") /\ "budget" \in After("query") /\ "end" \in After("budget")
      BY DEF After
    <3>2. /\ names \subseteq Fields /\ "node count" \in names /\ "edge count" \in names
          /\ "definition count" \in names /\ "query" \in names /\ "budget" \in names /\ "end" \in names
      BY DEF Fields
    <3> HIDE DEF names
    <3>3. CASE protocol'.version = 1
      <4> DEFINE plan == <<"node count", "edge count", "query", "budget", "end">>
      <4>1. plan \in Seq(names) /\ Block(plan) /\ Len(plan) = 5 /\ plan[1] = "node count" /\ plan[5] = "end"
        <5>1. plan \in Seq(names)
          BY <3>2, TuplesOf, Zenon
        <5>2. /\ "node count" \in Fields /\ "edge count" \in Fields /\ "definition count" \in Fields
              /\ "query" \in Fields /\ "budget" \in Fields /\ "end" \in Fields
          BY <3>2
        <5>3. "query" \in After("edge count") /\ "definition count" \in After("edge count")
          BY <3>1
        <5>4. Block(plan) /\ Len(plan) = 5 /\ plan[1] = "node count" /\ plan[5] = "end"
          BY <3>1, <5>2, <5>3, ChainOf5, Zenon
        <5> QED
          BY <5>1, <5>4
      <4>2. Sections(protocol'.version) = plan
        BY <3>3 DEF Sections
      <4> HIDE DEF plan
      <4> QED
        BY <4>1, <4>2
    <3>4. CASE protocol'.version # 1
      <4> DEFINE plan == <<"node count", "edge count", "definition count", "query", "budget", "end">>
      <4>1. plan \in Seq(names) /\ Block(plan) /\ Len(plan) = 6 /\ plan[1] = "node count" /\ plan[6] = "end"
        <5>1. plan \in Seq(names)
          BY <3>2, TuplesOf, Zenon
        <5>2. /\ "node count" \in Fields /\ "edge count" \in Fields /\ "definition count" \in Fields
              /\ "query" \in Fields /\ "budget" \in Fields /\ "end" \in Fields
          BY <3>2
        <5>3. "query" \in After("edge count") /\ "definition count" \in After("edge count")
          BY <3>1
        <5>4. Block(plan) /\ Len(plan) = 6 /\ plan[1] = "node count" /\ plan[6] = "end"
          BY <3>1, <5>2, <5>3, ChainOf6, Zenon
        <5> QED
          BY <5>1, <5>4
      <4>2. Sections(protocol'.version) = plan
        BY <3>4 DEF Sections
      <4> HIDE DEF plan
      <4> QED
        BY <4>1, <4>2
    <3> QED
      BY <3>3, <3>4
  <2>4. IsPlan(todo)' /\ Head(todo)' = "node count"
    <3>1. todo' = Sections(protocol'.version)
      BY <2>1, <2>2, <2>3, ConcatEmptySeq
    <3>2. names \subseteq Fields /\ "node name" \notin names /\ "to" \notin names
      BY DEF Fields
    <3> HIDE DEF names
    <3>3. IsPlan(todo)'
      BY <2>3, <3>1, <3>2, SectionsArePlan
    <3>4. Head(todo)' = "node count"
      <4>1. Head(todo)' = todo'[1]
        OBVIOUS
      <4> QED
        BY <2>3, <3>1, <4>1, Zenon
    <3> QED
      BY <3>3, <3>4
  <2>5. held' = <<>> /\ nodes' = <<>> /\ documents' = <<>> /\ (library' => Documented')
    BY <1>1, <2>1 DEF Inv, HeldFits, NoRecord, Admitted, Documented
  <2>6. Listed' /\ Closed'
    BY <2>1 DEF Inv, Listed, Closed
  <2>7. HeldFits(Head(todo))'
    BY <2>4, <2>5 DEF HeldFits, NoRecord, InDefinition
  <2>8. Covered(Head(todo))'
    <3>1. DOMAIN <<>> = {}
      OBVIOUS
    <3>2. Waiting(Head(todo))' = {}
      BY <2>4 DEF Waiting
    <3> QED
      BY <2>5, <3>1, <3>2 DEF Covered
  <2>9. Admitted(Head(todo))'
    BY <1>1, <2>1, <2>4, <2>5 DEF Admitted
  <2> QED
    BY <1>1, <2>1, <2>4, <2>6, <2>7, <2>8, <2>9 DEF Inv
<1> QED
  BY <1>2, <1>3

(* What a count announces is a block that the next fields may follow.        *)
LEMMA RecordsAreAnnounced ==
  ASSUME Inv, Field \in {"node count", "edge count", "definition count", "id count"}, NEW n \in Nat \ {0}
  PROVE  /\ Block(Announced(n)) /\ After(Field) \subseteq After(Announced(n)[Len(Announced(n))])
         /\ Field = "node count" => Announced(n)[1] = "node id"
         /\ Field = "edge count" => Announced(n)[1] = "from"
         /\ Field = "definition count" => Announced(n)[1] = "definition name"
         /\ Field = "id count" => Announced(n)[1] = "definition id"
<1>1. CASE Field = "node count"
  <2>1. /\ Block(NodeFields) /\ Len(NodeFields) \in {3, 5} /\ NodeFields[1] = "node id"
        /\ NodeFields[Len(NodeFields)] = IF Documented THEN "document" ELSE "node name"
    <3>1. CASE Documented
      <4>1. /\ "node key" \in After("node id") /\ "node name" \in After("node key")
            /\ "node value" \in After("node name") /\ "document" \in After("node value")
        BY <3>1 DEF After
      <4> DEFINE record == <<"node id", "node key", "node name", "node value", "document">>
      <4>2. {"node id", "node key", "node name", "node value", "document"} \subseteq Fields
        BY DEF Fields
      <4>3. Block(record) /\ Len(record) = 5 /\ record[1] = "node id" /\ record[5] = "document"
        BY <4>1, <4>2, ChainOf5
      <4>4. NodeFields = record
        BY <3>1 DEF NodeFields
      <4> HIDE DEF record
      <4> QED
        BY <3>1, <4>3, <4>4
    <3>2. CASE ~ Documented
      <4>1. "node key" \in After("node id") /\ "node name" \in After("node key")
        BY DEF After
      <4> DEFINE record == <<"node id", "node key", "node name">>
      <4>2. {"node id", "node key", "node name"} \subseteq Fields
        BY DEF Fields
      <4>3. Block(record) /\ Len(record) = 3 /\ record[1] = "node id" /\ record[3] = "node name"
        BY <4>1, <4>2, ChainOf3
      <4>4. NodeFields = record
        BY <3>2 DEF NodeFields
      <4> HIDE DEF record
      <4> QED
        BY <3>2, <4>3, <4>4
    <3> QED
      BY <3>1, <3>2
  <2>2. /\ NodeFields[1] \in After(NodeFields[Len(NodeFields)])
        /\ After("node count") \subseteq After(NodeFields[Len(NodeFields)])
    BY <2>1 DEF After, AfterNode
  <2> QED
    BY <1>1, <2>1, <2>2, TimesIsBlock DEF Announced
<1>2. CASE Field = "edge count"
  <2>1. /\ Block(EdgeFields) /\ Len(EdgeFields) \in {3, 5} /\ EdgeFields[1] = "from"
        /\ EdgeFields[Len(EdgeFields)] = "edge"
    <3>1. CASE protocol.ported
      <4>1. /\ "to" \in After("from") /\ "input" \in After("to")
            /\ "output" \in After("input") /\ "edge" \in After("output")
        BY <3>1 DEF After
      <4> DEFINE record == <<"from", "to", "input", "output", "edge">>
      <4>2. {"from", "to", "input", "output", "edge"} \subseteq Fields
        BY DEF Fields
      <4>3. Block(record) /\ Len(record) = 5 /\ record[1] = "from" /\ record[5] = "edge"
        BY <4>1, <4>2, ChainOf5
      <4>4. EdgeFields = record
        BY <3>1 DEF EdgeFields
      <4> HIDE DEF record
      <4> QED
        BY <4>3, <4>4
    <3>2. CASE ~ protocol.ported
      <4>1. "to" \in After("from") /\ "edge" \in After("to")
        BY <3>2 DEF After
      <4> DEFINE record == <<"from", "to", "edge">>
      <4>2. {"from", "to", "edge"} \subseteq Fields
        BY DEF Fields
      <4>3. Block(record) /\ Len(record) = 3 /\ record[1] = "from" /\ record[3] = "edge"
        BY <4>1, <4>2, ChainOf3
      <4>4. EdgeFields = record
        BY <3>2 DEF EdgeFields
      <4> HIDE DEF record
      <4> QED
        BY <4>3, <4>4
    <3> QED
      BY <3>1, <3>2
  <2>2. EdgeFields[1] \in After("edge") /\ After("edge count") \subseteq After("edge")
    BY <2>1 DEF After, AfterEdge
  <2> QED
    BY <1>2, <2>1, <2>2, TimesIsBlock DEF Announced
<1>3. CASE Field = "definition count"
  <2> DEFINE record == <<"definition name", "available">>
  <2>1. Announced(n) = Times(n, record)
    BY <1>3 DEF Announced
  <2>2. Block(record) /\ Len(record) = 2 /\ record[1] = "definition name" /\ record[Len(record)] = "available"
    <3>1. "available" \in After("definition name")
      BY DEF After
    <3>2. {"definition name", "available"} \subseteq Fields
      BY DEF Fields
    <3> QED
      BY <3>1, <3>2, ChainOf2
  <2>3. "definition name" \in After("available") /\ After("definition count") \subseteq After("available")
    BY DEF After, AfterDefinition
  <2> HIDE DEF record
  <2> QED
    BY <1>3, <2>1, <2>2, <2>3, TimesIsBlock
<1>4. CASE Field = "id count"
  <2> DEFINE record == <<"definition id">>
  <2>1. Announced(n) = Times(n, record)
    BY <1>4 DEF Announced
  <2>2. Block(record) /\ Len(record) = 1 /\ record[1] = "definition id" /\ record[Len(record)] = "definition id"
    BY ChainOf1 DEF Fields
  <2>3. "definition id" \in After("definition id") /\ After("id count") \subseteq After("definition id")
    BY DEF After
  <2> HIDE DEF record
  <2> QED
    BY <1>4, <2>1, <2>2, <2>3, TimesIsBlock
<1> QED
  BY <1>1, <1>2, <1>3, <1>4

LEMMA CountKeeps == ASSUME Inv, NEW token, Count(token) PROVE Inv'
<1>1. /\ outcome = "reading" /\ Head(todo) = Field
      /\ Field \in {"node count", "edge count", "definition count", "id count"}
  BY DEF Count, At, Field
<1>2. CASE Refuse
  BY <1>2, RefuseKeeps
<1>3. CASE ~ Refuse
  <2> DEFINE n == Numeral[token]
  <2>1. n \in Nat /\ Expect(Announced(n)) /\ UNCHANGED <<protocol, held, built, content>>
    BY <1>3, NumeralAssumption DEF Count, Number
  <2>2. todo' = Announced(n) \o Tail(todo)
        /\ UNCHANGED <<library, outcome, protocol, held, nodes, documents, edges, connections, definitions>>
    BY <2>1 DEF Expect, content
  <2>3. CASE n = 0
    <3>1. Announced(0) = <<>>
      <4>1. Times(0, NodeFields) = <<>> /\ Times(0, EdgeFields) = <<>>
            /\ Times(0, <<"definition name", "available">>) = <<>> /\ Times(0, <<"definition id">>) = <<>>
        <5>1. Len(NodeFields) \in Nat /\ Len(EdgeFields) \in Nat
          BY DEF NodeFields, EdgeFields
        <5>2. Len(<<"definition name", "available">>) \in Nat /\ Len(<<"definition id">>) \in Nat
          OBVIOUS
        <5> QED
          BY <5>1, <5>2, NoTimes
      <4> QED
        BY <1>1, <4>1 DEF Announced
    <3>2. todo' = Tail(todo)
      BY <2>1, <2>3, <3>1, NothingExpected
    <3> QED
      BY <1>1, <2>2, <3>2, PassKeeps
  <2>4. CASE n # 0
    <3>1. n \in Nat \ {0}
      BY <2>1, <2>4
    <3> HIDE DEF n
    <3> QED
      BY <1>1, <2>2, <3>1, RecordsAreAnnounced, AnnounceKeeps
  <2> QED
    BY <2>3, <2>4
<1> QED
  BY <1>2, <1>3

LEMMA NumberFieldKeeps == ASSUME Inv, NEW token, NumberField(token) PROVE Inv'
<1>1. CASE Refuse
  BY <1>1, RefuseKeeps
<1>2. CASE ~ Refuse
  <2>1. outcome = "reading" /\ Head(todo) \in {"node id", "from", "to", "input", "output"} /\ Hold(<<Numeral[token]>>)
    BY <1>2 DEF NumberField, At, Field, Number
  <2> QED
    BY <2>1, HoldKeeps
<1> QED
  BY <1>1, <1>2

LEMMA NameFieldKeeps == ASSUME Inv, NEW token, NameField(token) PROVE Inv'
<1>1. CASE Refuse
  BY <1>1, RefuseKeeps
<1>2. CASE ~ Refuse
  <2>1. /\ outcome = "reading" /\ Head(todo) \in {"node key", "definition name"} /\ Hold(<<Hex[token]>>)
        /\ Hex[token] \in Words
    BY <1>2 DEF NameField, At, Field, HexText
  <2>2. <<Hex[token]>>[1] = Hex[token]
    OBVIOUS
  <2> QED
    BY <2>1, <2>2, HoldKeeps
<1> QED
  BY <1>1, <1>2

LEMMA DefinitionIdKeeps == ASSUME Inv, NEW token, DefinitionId(token) PROVE Inv'
<1>1. CASE Refuse
  BY <1>1, RefuseKeeps
<1>2. CASE ~ Refuse
  <2>1. /\ outcome = "reading" /\ Head(todo) = "definition id" /\ Hold(<<Numeral[token]>>)
        /\ Numeral[token] \in DOMAIN nodes
    BY <1>2 DEF DefinitionId, At, Field, Number
  <2>2. <<Numeral[token]>>[1] = Numeral[token]
    OBVIOUS
  <2> QED
    BY <2>1, <2>2, HoldKeeps
<1> QED
  BY <1>1, <1>2

LEMMA NodeNameKeeps == ASSUME Inv, NEW token, NodeName(token) PROVE Inv'
<1>1. CASE Refuse
  BY <1>1, RefuseKeeps
<1>2. CASE ~ Refuse
  <2> DEFINE id == held[1][1]
  <2>1. outcome = "reading" /\ Head(todo) = "node name"
    BY DEF NodeName, At, Field
  <2>2. /\ id \notin DOMAIN nodes /\ nodes' = With(nodes, id, [predicate |-> held[2][1], name |-> Hex[token]])
        /\ Expect(<<>>) /\ held' = IF Documented THEN <<held[1]>> ELSE <<>>
        /\ UNCHANGED <<protocol, documents, edges, connections, definitions>>
    BY <1>2 DEF NodeName, HexText
  <2>3. todo' = Tail(todo) /\ UNCHANGED <<library, outcome>>
    BY <2>2, NothingExpected
  <2>4. IsPlan(todo)' /\ Head(todo)' \in After("node name")
    BY <2>1, <2>2, <2>3, Advance
  <2>5. Documented' = Documented /\ Head(todo)' \in IF Documented THEN {"node value"} ELSE AfterNode
    BY <2>2, <2>4 DEF Documented, After
  <2>6. /\ DOMAIN nodes' = DOMAIN nodes \cup {id} /\ nodes'[id].predicate = held[2][1]
        /\ \A n \in DOMAIN nodes : nodes'[n] = nodes[n]
    <3> DEFINE node == [predicate |-> held[2][1], name |-> Hex[token]]
    <3>1. node.predicate = held[2][1] /\ nodes' = With(nodes, id, node)
      BY <2>2
    <3> HIDE DEF node, id
    <3>2. DOMAIN nodes' = DOMAIN nodes \cup {id} /\ nodes'[id] = node
          /\ \A n \in DOMAIN nodes : n # id => nodes'[n] = nodes[n]
      BY <3>1 DEF With
    <3> QED
      BY <2>2, <3>1, <3>2
  <2>7. held[2][1] \in Words
    BY <2>1 DEF Inv, HeldFits
  <2>8. Closed'
    BY <2>2, <2>6, <2>7 DEF Inv, Closed
  <2>9. Listed'
    <3>1. <<held[1]>> \in Seq(ToSet(<<held[1]>>)) /\ <<>> \in Seq(ToSet(<<>>))
      BY DEF ToSet
    <3> QED
      BY <2>2, <3>1 DEF Listed
  <2>10. Documented => held'[1][1] = id
    BY <2>2
  <2>11. HeldFits(Head(todo))'
    BY <2>2, <2>5, <2>6, <2>10 DEF HeldFits, NoRecord, InDefinition, AfterNode
  <2>12. Covered(Head(todo))'
    <3>1. DOMAIN documents = IF Documented THEN DOMAIN nodes ELSE {}
      BY <2>1 DEF Inv, Covered, Waiting
    <3>2. Waiting(Head(todo))' = IF Documented THEN {id} ELSE {}
      BY <2>5, <2>10 DEF Waiting, AfterNode
    <3> QED
      BY <2>2, <2>5, <2>6, <3>1, <3>2 DEF Covered
  <2>13. Admitted(Head(todo))'
    BY <2>1, <2>3, <2>5 DEF Inv, Admitted, AfterNode
  <2> QED
    BY <2>3, <2>4, <2>8, <2>9, <2>11, <2>12, <2>13 DEF Inv
<1> QED
  BY <1>1, <1>2

(* Inside a value only `inner` and `built` change; the value of a node or of  *)
(* a rule is a field that is passed over.                                    *)
LEMMA ValueKeeps == ASSUME Inv, NEW token, Value(token) PROVE Inv'
<1>1. CASE Refuse
  BY <1>1, RefuseKeeps
<1>2. CASE ~ Refuse
  <2>1. /\ outcome = "reading" /\ (inner = <<>> => Head(todo) \in {"node value", "rule"})
        /\ \E fields : ValueStep(fields)
    BY <1>2 DEF Value, At, Inside, Field, Tags
  <2>2. /\ todo' = IF inner = <<>> THEN Tail(todo) ELSE todo
        /\ UNCHANGED <<library, outcome, protocol, held, nodes, documents, edges, connections, definitions>>
    BY <2>1 DEF ValueStep, content
  <2> QED
    BY <2>1, <2>2, PassKeeps, NothingTaken
<1> QED
  BY <1>1, <1>2

LEMMA InsideKeeps ==
  ASSUME Inv, NEW token, Payload(token) \/ Collection(token) \/ Close
  PROVE  Inv'
<1>1. CASE Refuse
  BY <1>1, RefuseKeeps
<1>2. CASE ~ Refuse
  <2>1. inner # <<>> /\ \E fields : ValueStep(fields)
    <3>1. CASE Payload(token)
      BY <1>2, <3>1 DEF Payload, Inside, Number, HexText
    <3>2. CASE Collection(token)
      BY <1>2, <3>2 DEF Collection, Inside, Number
    <3>3. CASE Close
      BY <1>2, <3>3 DEF Close, Inside
    <3> QED
      BY <3>1, <3>2, <3>3
  <2>2. UNCHANGED <<library, outcome, todo, protocol, held, nodes, documents, edges, connections, definitions>>
    BY <2>1 DEF ValueStep, content
  <2> QED
    BY <2>2, NothingTaken
<1> QED
  BY <1>1, <1>2

LEMMA DocumentReadKeeps == ASSUME Inv, DocumentRead PROVE Inv'
<1> DEFINE id == held[1][1]
<1>1. outcome = "reading" /\ Head(todo) = "document"
  BY DEF DocumentRead, At, Field
<1>2. /\ documents' = With(documents, id, built[1]) /\ Expect(<<>>) /\ held' = <<>>
      /\ UNCHANGED <<protocol, nodes, edges, connections, definitions>>
  BY DEF DocumentRead
<1>3. todo' = Tail(todo) /\ UNCHANGED <<library, outcome>>
  BY <1>2, NothingExpected
<1>4. IsPlan(todo)' /\ Head(todo)' \in AfterNode
  <2>1. Head(todo)' \in After("document") /\ IsPlan(todo)'
    BY <1>1, <1>2, <1>3, Advance
  <2> QED
    BY <2>1 DEF After
<1>5. Documented /\ Documented' /\ id \in DOMAIN nodes
  BY <1>1, <1>2 DEF Inv, HeldFits, Documented
<1>6. Covered(Head(todo))'
  <2>1. DOMAIN documents = DOMAIN nodes \ {id}
    BY <1>1, <1>5 DEF Inv, Covered, Waiting
  <2>2. DOMAIN documents' = DOMAIN nodes
    <3> HIDE DEF id
    <3> QED
      BY <1>2, <1>5, <2>1 DEF With
  <2>3. Waiting(Head(todo))' = {}
    BY <1>4 DEF Waiting, AfterNode
  <2> QED
    BY <1>2, <1>5, <2>2, <2>3 DEF Covered
<1>7. Listed' /\ Closed'
  BY <1>2, NothingHeld DEF Inv, Closed
<1>8. HeldFits(Head(todo))'
  BY <1>2, <1>4 DEF HeldFits, NoRecord, InDefinition, AfterNode
<1>9. Admitted(Head(todo))'
  BY <1>1, <1>3, <1>4, <1>5 DEF Inv, Admitted, AfterNode
<1> QED
  BY <1>3, <1>4, <1>6, <1>7, <1>8, <1>9 DEF Inv

LEMMA EdgeReadKeeps == ASSUME Inv, EdgeRead PROVE Inv'
<1> DEFINE from == held[1][1]
           to == held[2][1]
<1>1. outcome = "reading" /\ Head(todo) = "edge"
  BY DEF EdgeRead, At, Field
<1>2. CASE Refuse
  BY <1>2, RefuseKeeps
<1>3. CASE ~ Refuse
  <2>1. /\ from \in DOMAIN nodes /\ to \in DOMAIN nodes
        /\ edges' = edges \cup {<<from, to>>} /\ connections' = connections \cup {Connection}
        /\ Expect(<<>>) /\ held' = <<>> /\ UNCHANGED <<protocol, nodes, documents, definitions>>
    BY <1>3 DEF EdgeRead
  <2>2. todo' = Tail(todo) /\ UNCHANGED <<library, outcome>>
    BY <2>1, NothingExpected
  <2>3. IsPlan(todo)' /\ Head(todo)' \in AfterEdge
    <3>1. Head(todo)' \in After("edge") /\ IsPlan(todo)'
      BY <1>1, <2>1, <2>2, Advance
    <3> QED
      BY <3>1 DEF After
  <2>4. Connection[1] = from /\ Connection[2] = to
    BY DEF Connection
  <2>5. Closed'
    <3> HIDE DEF from, to
    <3>1. edges' \subseteq (DOMAIN nodes) \X (DOMAIN nodes)
      BY <2>1 DEF Inv, Closed
    <3>2. edges' = {<<c[1], c[2]>> : c \in connections'}
      BY <2>1, <2>4 DEF Inv, Closed
    <3> QED
      BY <2>1, <3>1, <3>2 DEF Inv, Closed
  <2>6. Listed' /\ Documented' = Documented
    BY <2>1, NothingHeld DEF Documented
  <2>7. HeldFits(Head(todo))'
    BY <2>1, <2>3 DEF HeldFits, NoRecord, InDefinition, AfterEdge
  <2>8. Covered(Head(todo))'
    <3>1. Waiting(Head(todo)) = {} /\ Waiting(Head(todo))' = {}
      BY <1>1, <2>3 DEF Waiting, AfterEdge
    <3> QED
      BY <2>1, <2>6, <3>1 DEF Inv, Covered
  <2>9. Admitted(Head(todo))'
    BY <1>1, <2>2, <2>3, <2>6 DEF Inv, Admitted, AfterEdge
  <2> QED
    BY <2>2, <2>3, <2>5, <2>6, <2>7, <2>8, <2>9 DEF Inv
<1> QED
  BY <1>2, <1>3

LEMMA AvailableKeeps == ASSUME Inv, NEW token, Available(token) PROVE Inv'
<1>1. outcome = "reading" /\ Head(todo) = "available"
  BY DEF Available, At, Field
<1>2. CASE Refuse
  BY <1>2, RefuseKeeps
<1>3. CASE ~ Refuse
  <2> DEFINE fields == IF Numeral[token] = 0 THEN <<"unavailable">>
                       ELSE IF Documented THEN <<"id count", "rule", "source", "definition">>
                       ELSE <<"id count", "definition">>
  <2>1. Expect(fields) /\ UNCHANGED <<protocol, held, built, content>>
    BY <1>3 DEF Available, Number
  <2>2. Block(fields) /\ fields[1] \in {"unavailable", "id count"} /\ fields[Len(fields)] \in {"unavailable", "definition"}
    <3>1. /\ "rule" \in After("id count") /\ "definition" \in After("id count")
          /\ "source" \in After("rule") /\ "definition" \in After("source")
      BY DEF After
    <3>2. /\ "unavailable" \in Fields /\ "id count" \in Fields /\ "definition" \in Fields
          /\ "rule" \in Fields /\ "source" \in Fields
      BY DEF Fields
    <3>3. CASE Numeral[token] = 0
      <4> DEFINE list == <<"unavailable">>
      <4>1. Block(list) /\ Len(list) = 1 /\ list[1] = "unavailable"
        BY <3>2, ChainOf1, Zenon
      <4>2. fields = list
        BY <3>3
      <4> HIDE DEF list, fields
      <4> QED
        BY <4>1, <4>2
    <3>4. CASE Numeral[token] # 0 /\ Documented
      <4> DEFINE list == <<"id count", "rule", "source", "definition">>
      <4>1. Block(list) /\ Len(list) = 4 /\ list[1] = "id count" /\ list[4] = "definition"
        BY <3>1, <3>2, ChainOf4, Zenon
      <4>2. fields = list
        BY <3>4
      <4> HIDE DEF list, fields
      <4> QED
        BY <4>1, <4>2
    <3>5. CASE Numeral[token] # 0 /\ ~ Documented
      <4> DEFINE list == <<"id count", "definition">>
      <4>1. Block(list) /\ Len(list) = 2 /\ list[1] = "id count" /\ list[2] = "definition"
        BY <3>1, <3>2, ChainOf2, Zenon
      <4>2. fields = list
        BY <3>5
      <4> HIDE DEF list, fields
      <4> QED
        BY <4>1, <4>2
    <3> QED
      BY <3>3, <3>4, <3>5
  <2>3. After("available") \subseteq After("unavailable") /\ After("available") \subseteq After("definition")
    BY DEF After
  <2> HIDE DEF fields
  <2>4. After(Head(todo)) \subseteq After(fields[Len(fields)])
    BY <1>1, <2>2, <2>3
  <2>5. /\ todo' = fields \o Tail(todo)
        /\ UNCHANGED <<library, outcome, protocol, held, nodes, documents, edges, connections, definitions>>
    BY <2>1 DEF Expect, content
  <2> QED
    BY <1>1, <2>2, <2>4, <2>5, AnnounceKeeps
<1> QED
  BY <1>2, <1>3

(* The nodes a rule leaves in a definition are among those it was given.      *)
LEMMA FilteredAreNodes ==
  ASSUME \A k \in 2 .. Len(held) : held[k][1] \in DOMAIN nodes
  PROVE  Filtered \subseteq DOMAIN nodes
<1>1. Ids \subseteq DOMAIN nodes
  BY DEF Ids
<1> QED
  BY <1>1 DEF Filtered

LEMMA DefinitionReadKeeps == ASSUME Inv, DefinitionRead PROVE Inv'
<1> DEFINE name == held[1][1]
           ids  == IF Field = "definition" THEN Filtered ELSE {}
<1>1. outcome = "reading" /\ Head(todo) \in {"definition", "unavailable"}
  BY DEF DefinitionRead, At, Field
<1>2. CASE Refuse
  BY <1>2, RefuseKeeps
<1>3. CASE ~ Refuse
  <2>1. /\ definitions' = With(definitions, name, [available |-> Field = "definition", ids |-> ids])
        /\ Expect(<<>>) /\ held' = <<>> /\ UNCHANGED <<protocol, nodes, documents, edges, connections>>
    BY <1>3 DEF DefinitionRead
  <2>2. todo' = Tail(todo) /\ UNCHANGED <<library, outcome>>
    BY <2>1, NothingExpected
  <2>3. IsPlan(todo)' /\ Head(todo)' \in AfterDefinition
    <3>1. Head(todo)' \in After(Head(todo)) /\ IsPlan(todo)'
      BY <1>1, <2>1, <2>2, Advance
    <3> QED
      BY <1>1, <3>1 DEF After
  <2>4. ids \subseteq DOMAIN nodes
    <3>1. \A k \in 2 .. Len(held) : held[k][1] \in DOMAIN nodes
      BY <1>1 DEF Inv, HeldFits, InDefinition
    <3> QED
      BY <3>1, FilteredAreNodes
  <2>5. Closed'
    <3> DEFINE definition == [available |-> Field = "definition", ids |-> ids]
    <3>1. definition.ids = ids /\ definitions' = With(definitions, name, definition)
      BY <2>1
    <3> HIDE DEF definition, ids, name
    <3>2. \A d \in DOMAIN definitions' : definitions'[d].ids \subseteq DOMAIN nodes
      BY <2>4, <3>1 DEF With, Inv, Closed
    <3> QED
      BY <2>1, <3>2 DEF Inv, Closed
  <2>6. Listed' /\ Documented' = Documented
    BY <2>1, NothingHeld DEF Documented
  <2>7. HeldFits(Head(todo))'
    BY <2>1, <2>3 DEF HeldFits, NoRecord, InDefinition, AfterDefinition
  <2>8. Covered(Head(todo))'
    <3>1. Waiting(Head(todo)) = {} /\ Waiting(Head(todo))' = {}
      BY <1>1, <2>3 DEF Waiting, AfterDefinition
    <3> QED
      BY <2>1, <2>6, <3>1 DEF Inv, Covered
  <2>9. Admitted(Head(todo))'
    BY <1>1, <2>2, <2>3, <2>6 DEF Inv, Admitted, AfterDefinition
  <2> QED
    BY <2>2, <2>3, <2>5, <2>6, <2>7, <2>8, <2>9 DEF Inv
<1> QED
  BY <1>2, <1>3

LEMMA SourceKeeps == ASSUME Inv, NEW token, Source(token) PROVE Inv'
<1>1. CASE Refuse
  BY <1>1, RefuseKeeps
<1>2. CASE ~ Refuse
  <2>1. outcome = "reading" /\ Head(todo) = "source" /\ Expect(<<>>) /\ UNCHANGED <<protocol, held, built, content>>
    BY <1>2 DEF Source, At, Field, HexText
  <2> QED
    BY <2>1, NothingExpected, PassKeeps DEF content
<1> QED
  BY <1>1, <1>2

LEMMA QueryKeeps == ASSUME Inv, NEW token, Query(token) PROVE Inv'
<1>1. CASE Refuse
  BY <1>1, RefuseKeeps
<1>2. CASE ~ Refuse
  <2>1. /\ outcome = "reading" /\ Head(todo) = "query" /\ (library => definitions = <<>>) /\ Expect(<<>>)
        /\ UNCHANGED <<protocol, held, built, nodes, documents, edges, connections, definitions>>
    BY <1>2 DEF Query, At, Field, HexText
  <2> QED
    BY <2>1, NothingExpected, PassKeeps
<1> QED
  BY <1>1, <1>2

LEMMA BudgetKeeps == ASSUME Inv, NEW token, Budget(token) PROVE Inv'
<1>1. CASE Refuse
  BY <1>1, RefuseKeeps
<1>2. CASE ~ Refuse
  <2>1. outcome = "reading" /\ Head(todo) = "budget" /\ Expect(<<>>) /\ UNCHANGED <<protocol, held, built, content>>
    BY <1>2 DEF Budget, At, Field, Number
  <2> QED
    BY <2>1, NothingExpected, PassKeeps DEF content
<1> QED
  BY <1>1, <1>2

LEMMA EndKeeps == ASSUME Inv, NEW token, End(token) PROVE Inv'
<1>1. CASE Refuse
  BY <1>1, RefuseKeeps
<1>2. CASE ~ Refuse
  <2>1. /\ Head(todo) = "end" /\ outcome' = "read"
        /\ UNCHANGED <<library, todo, protocol, held, nodes, documents, edges, connections, definitions>>
    BY <1>2 DEF End, At, Field, content
  <2>2. Documented' = Documented /\ Waiting(Head(todo))' = Waiting(Head(todo))
    BY <2>1 DEF Documented, Waiting
  <2>3. IsPlan(todo)'
    BY <2>1, <2>2 DEF Inv, IsPlan, Chain, After
  <2>4. Listed' /\ Closed' /\ HeldFits(Head(todo))' /\ Covered(Head(todo))'
    BY <2>1, <2>2 DEF Inv, Listed, Closed, HeldFits, Covered
  <2>5. Admitted(Head(todo))'
    BY <2>1, <2>2 DEF Inv, Admitted
  <2> QED
    BY <2>1, <2>3, <2>4, <2>5 DEF Inv
<1> QED
  BY <1>1, <1>2

-----------------------------------------------------------------------------
LEMMA NextKeeps == ASSUME Inv, [Next]_vars PROVE Inv'
<1>1. CASE UNCHANGED vars
  BY <1>1, NothingTaken DEF vars, content
<1>2. ASSUME NEW token \in Following, Take(token) PROVE Inv'
  <2>1. CASE Protocol(token)
    BY <2>1, ProtocolKeeps
  <2>2. CASE Count(token)
    BY <2>2, CountKeeps
  <2>3. CASE NumberField(token)
    BY <2>3, NumberFieldKeeps
  <2>4. CASE NameField(token)
    BY <2>4, NameFieldKeeps
  <2>5. CASE NodeName(token)
    BY <2>5, NodeNameKeeps
  <2>6. CASE Value(token)
    BY <2>6, ValueKeeps
  <2>7. CASE Payload(token) \/ Collection(token)
    BY <2>7, InsideKeeps
  <2>8. CASE Available(token)
    BY <2>8, AvailableKeeps
  <2>9. CASE DefinitionId(token)
    BY <2>9, DefinitionIdKeeps
  <2>10. CASE Source(token)
    BY <2>10, SourceKeeps
  <2>11. CASE Query(token)
    BY <2>11, QueryKeeps
  <2>12. CASE Budget(token)
    BY <2>12, BudgetKeeps
  <2>13. CASE End(token)
    BY <2>13, EndKeeps
  <2> QED
    BY <1>2, <2>1, <2>2, <2>3, <2>4, <2>5, <2>6, <2>7, <2>8, <2>9, <2>10, <2>11, <2>12, <2>13 DEF Take
<1>3. CASE Close
  BY <1>3, InsideKeeps
<1>4. CASE DocumentRead
  BY <1>4, DocumentReadKeeps
<1>5. CASE EdgeRead
  BY <1>5, EdgeReadKeeps
<1>6. CASE DefinitionRead
  BY <1>6, DefinitionReadKeeps
<1> QED
  BY <1>1, <1>2, <1>3, <1>4, <1>5, <1>6 DEF Next

(* In every state of the reader, whatever the text: the field to read next    *)
(* may follow the one before, and what is held fits it (matchRequest).        *)
THEOREM ReaderInvariant == Spec => []Inv
<1> QED
  BY InitInv, NextKeeps, PTL DEF Spec

(* What was read is a graph the search can use, whatever the text: edges and  *)
(* the nodes of definitions are nodes of the graph, edges and connections     *)
(* correspond, a request that was read to its end has a document of every     *)
(* node or of none, and has no definitions when the engine has a library.     *)
THEOREM ReadIsClosed == Spec => []ContentIsClosed
<1>1. Inv => ContentIsClosed
  <2> SUFFICES ASSUME Inv PROVE ContentIsClosed
    OBVIOUS
  <2>1. TypeOK
    BY DEF Inv, Closed, Covered, TypeOK
  <2>2. outcome = "read" => Head(todo) = "end" /\ Waiting(Head(todo)) = {}
    BY DEF Inv, Admitted, Waiting
  <2>3. outcome = "read" => DOMAIN documents = IF Documented THEN DOMAIN nodes ELSE {}
    BY <2>2 DEF Inv, Covered
  <2>4. outcome = "read" /\ library => definitions = <<>> /\ Documented
    BY <2>2 DEF Inv, Admitted
  <2> QED
    BY <2>1, <2>3, <2>4 DEF Inv, Closed, ContentIsClosed
<1> QED
  BY <1>1, ReaderInvariant, PTL
=============================================================================
