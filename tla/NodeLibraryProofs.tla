--------------------------- MODULE NodeLibraryProofs ---------------------------
(***************************************************************************)
(* Whatever files, formats and keys an invocation has: definitions get into  *)
(* the library unchanged, and every key of the pattern gets the nodes it     *)
(* says.                                                                     *)
(***************************************************************************)
EXTENDS NodeLibrary, SequenceTheorems, TLAPS

(* Files that were opened are in the library or still wait for it, and what   *)
(* is in the library was in one of them.                                     *)
Stored(document) == document.name \in DOMAIN library /\ library[document.name] = document

Loading ==
  /\ case \in Cases /\ IsList(locations) /\ IsList(pending)
  /\ ToSet(pending) \subseteq UNION {ToSet(Opened(l)) : l \in ToSet(case.locations)}
  /\ ToSet(locations) \subseteq ToSet(case.locations)
  /\ \A name \in DOMAIN library : library[name].name = name /\ Valid(library[name]) /\ library[name] \in Given
  /\ \A l \in ToSet(case.locations) :
       l \in ToSet(locations) \/ \A file \in ToSet(Opened(l)) : file \in ToSet(pending) \/ Stored(file.document)

(* What each stage leaves to the next one. *)
Resolved == memberships = [name \in Mapped |-> Members(library[name])]
Checked  == \A key \in case.keys : key.name \in DOMAIN library => Available(key.name)

Meeting(key) == {n \in NamedNodes(key.name) :
                   \A i \in DOMAIN key.conditions : Holds(case.documents[n], Rule(key, key.conditions[i]))}
Raw   == {case.documents[n].op : n \in DOMAIN case.documents}
Named ==
  /\ narrowed \subseteq {key \in case.keys : key.conditions # <<>>}
  /\ DOMAIN predicates = {Plain(name) : name \in Raw \cup DOMAIN memberships} \cup narrowed
  /\ \A name \in Raw \cup DOMAIN memberships : predicates[Plain(name)] = NamedNodes(name)
  /\ \A key \in narrowed : predicates[key] = Meeting(key)

Stages ==
  /\ stage \in {"loading", "resolved", "checked", "named", "ready", "refused"}
  /\ stage \in {"resolved", "checked", "named", "ready"} => locations = <<>> /\ pending = <<>> /\ Resolved
  /\ stage \in {"checked", "named", "ready"} => Checked
  /\ stage \in {"named", "ready"} => Named
  /\ stage = "ready" => \A key \in case.keys : key.conditions # <<>> => key \in narrowed
  /\ stage = "loading" => memberships = <<>>
  /\ memberships = <<>> \/ Resolved
  /\ stage \in {"loading", "resolved", "checked", "refused"} => predicates = <<>> /\ narrowed = {}

Inv == Loading /\ Stages

-----------------------------------------------------------------------------
LEMMA HeadAndTail ==
  ASSUME NEW s, IsList(s), s # <<>>
  PROVE  Head(s) \in ToSet(s) /\ ToSet(s) = {Head(s)} \cup ToSet(Tail(s)) /\ IsList(Tail(s))
<1>1. s \in Seq(ToSet(s)) /\ Len(s) \in Nat \ {0} /\ DOMAIN s = 1 .. Len(s) /\ Head(s) = s[1]
  BY DEF IsList
<1>2. Tail(s) \in Seq(ToSet(s)) /\ DOMAIN Tail(s) = 1 .. Len(s) - 1 /\ \A k \in 1 .. Len(s) - 1 : Tail(s)[k] = s[k + 1]
  BY <1>1
<1>3. Head(s) \in ToSet(s)
  BY <1>1 DEF ToSet
<1>4. ToSet(Tail(s)) \subseteq ToSet(s)
  BY <1>1, <1>2 DEF ToSet
<1>5. ASSUME NEW x \in ToSet(s), x # Head(s) PROVE x \in ToSet(Tail(s))
  <2>1. PICK k \in 1 .. Len(s) : x = s[k]
    BY <1>1 DEF ToSet
  <2>2. k - 1 \in 1 .. Len(s) - 1 /\ x = Tail(s)[k - 1]
    BY <1>1, <1>2, <1>5, <2>1
  <2> QED
    BY <1>2, <2>2 DEF ToSet
<1>6. IsList(Tail(s))
  <2>1. PICK n \in Nat : Tail(s) \in [1 .. n -> ToSet(s)]
    BY <1>2, LenProperties
  <2>2. Tail(s) \in [1 .. n -> ToSet(Tail(s))]
    BY <2>1 DEF ToSet
  <2> QED
    BY <2>2, SeqDef DEF IsList
<1> QED
  BY <1>3, <1>4, <1>5, <1>6

LEMMA NothingListed == IsList(<<>>) /\ ToSet(<<>>) = {}
BY DEF IsList, ToSet

LEMMA InitInv == Init => Inv
<1> SUFFICES ASSUME Init PROVE Inv
  OBVIOUS
<1>1. case \in Cases /\ IsCase(case) /\ locations = case.locations /\ pending = <<>>
  BY CasesAssumption DEF Init
<1>2. library = <<>> /\ DOMAIN library = {} /\ stage = "loading" /\ predicates = <<>> /\ narrowed = {} /\ memberships = <<>>
  BY DEF Init
<1>3. Loading
  BY <1>1, <1>2, NothingListed DEF Loading, IsCase
<1>4. Stages
  BY <1>2 DEF Stages
<1> QED
  BY <1>3, <1>4 DEF Inv

LEMMA RefuseKeeps == Inv /\ stage \in {"loading", "resolved"} /\ Refuse => Inv'
<1> SUFFICES ASSUME Inv, stage \in {"loading", "resolved"}, Refuse PROVE Inv'
  OBVIOUS
<1>1. UNCHANGED <<case, locations, pending, library, memberships, predicates, narrowed>> /\ stage' = "refused"
  BY DEF Refuse
<1>2. Loading'
  BY <1>1 DEF Inv, Loading, Stored, Given
<1>3. memberships' = <<>> \/ Resolved'
  BY <1>1 DEF Inv, Stages, Resolved, Mapped, Members
<1> QED
  BY <1>1, <1>2, <1>3 DEF Inv, Stages

LEMMA OpenLocationKeeps == Inv /\ OpenLocation => Inv'
<1> SUFFICES ASSUME Inv, OpenLocation PROVE Inv'
  OBVIOUS
<1> DEFINE files == Opened(Head(locations))
<1>1. stage = "loading" /\ pending = <<>> /\ locations # <<>>
  BY DEF OpenLocation
<1>2. CASE Refuse
  BY <1>1, <1>2, RefuseKeeps
<1>3. CASE pending' = files /\ locations' = Tail(locations)
             /\ UNCHANGED <<case, stage, library, memberships, predicates, narrowed>>
  <2>1. /\ Head(locations) \in ToSet(locations) /\ IsList(locations')
        /\ ToSet(locations) = {Head(locations)} \cup ToSet(locations')
    BY <1>1, <1>3, HeadAndTail DEF Inv, Loading
  <2>2. Head(locations) \in ToSet(case.locations) /\ IsCase(case)
    BY <2>1, CasesAssumption DEF Inv, Loading
  <2>3. IsList(pending') /\ ToSet(pending') = ToSet(files)
    BY <1>3, <2>2 DEF IsCase
  <2>4. ASSUME NEW l \in ToSet(case.locations), l \notin ToSet(locations'), NEW file \in ToSet(Opened(l))
        PROVE  file \in ToSet(pending') \/ Stored(file.document)
    <3>1. CASE l = Head(locations)
      BY <2>3, <3>1
    <3>2. CASE l # Head(locations)
      BY <1>1, <2>1, <2>4, <3>2, NothingListed DEF Inv, Loading
    <3> QED
      BY <3>1, <3>2
  <2>5. Loading'
    BY <1>3, <2>1, <2>2, <2>3, <2>4 DEF Inv, Loading, Stored, Given
  <2>6. Stages'
    BY <1>1, <1>3 DEF Inv, Stages
  <2> QED
    BY <2>5, <2>6 DEF Inv
<1> QED
  BY <1>2, <1>3 DEF OpenLocation

LEMMA LoadFileKeeps == Inv /\ LoadFile => Inv'
<1> SUFFICES ASSUME Inv, LoadFile PROVE Inv'
  OBVIOUS
<1> DEFINE file == Head(pending)
<1>1. stage = "loading" /\ pending # <<>>
  BY DEF LoadFile
<1>2. CASE Refuse
  BY <1>1, <1>2, RefuseKeeps
<1>3. CASE /\ Valid(file.document) /\ file.document.name \notin DOMAIN library
           /\ library' = With(library, file.document.name, file.document) /\ pending' = Tail(pending)
           /\ UNCHANGED <<case, stage, locations, memberships, predicates, narrowed>>
  <2>1. file \in ToSet(pending) /\ IsList(pending') /\ ToSet(pending) = {file} \cup ToSet(pending')
    BY <1>1, <1>3, HeadAndTail DEF Inv, Loading
  <2>2. file.document \in Given
    BY <2>1 DEF Inv, Loading, Given
  <2>3. /\ DOMAIN library' = DOMAIN library \cup {file.document.name}
        /\ library'[file.document.name] = file.document
        /\ \A name \in DOMAIN library : library'[name] = library[name]
    BY <1>3 DEF With
  <2>4. file.document.name \in DOMAIN library' /\ \A d : Stored(d) => Stored(d)'
    BY <1>3, <2>3 DEF Stored
  <2>5. \A name \in DOMAIN library' : library'[name].name = name /\ Valid(library'[name]) /\ library'[name] \in Given
    BY <1>3, <2>2, <2>3 DEF Inv, Loading
  <2>6. ASSUME NEW l \in ToSet(case.locations), l \notin ToSet(locations), NEW f \in ToSet(Opened(l))
        PROVE  f \in ToSet(pending') \/ Stored(f.document)'
    <3>1. CASE f = file
      BY <2>3, <3>1 DEF Stored
    <3>2. CASE f # file
      BY <1>1, <2>1, <2>4, <2>6, <3>2 DEF Inv, Loading
    <3> QED
      BY <3>1, <3>2
  <2>7. Loading'
    BY <1>3, <2>1, <2>5, <2>6 DEF Inv, Loading, Given
  <2>8. Stages'
    BY <1>1, <1>3 DEF Inv, Stages
  <2> QED
    BY <2>7, <2>8 DEF Inv
<1> QED
  BY <1>2, <1>3 DEF LoadFile

LEMMA ResolveKeeps == Inv /\ Resolve => Inv'
<1> SUFFICES ASSUME Inv, Resolve PROVE Inv'
  OBVIOUS
<1>1. stage = "loading" /\ pending = <<>> /\ locations = <<>>
  BY DEF Resolve
<1>2. CASE Refuse
  BY <1>1, <1>2, RefuseKeeps
<1>3. CASE /\ memberships' = [name \in Mapped |-> Members(library[name])] /\ stage' = "resolved"
           /\ UNCHANGED <<case, locations, pending, library, predicates, narrowed>>
  <2>1. Loading'
    BY <1>3 DEF Inv, Loading, Stored, Given
  <2>2. Resolved'
    BY <1>3 DEF Resolved, Mapped, Members
  <2>3. Stages'
    BY <1>1, <1>3, <2>2 DEF Inv, Stages
  <2> QED
    BY <2>1, <2>3 DEF Inv
<1> QED
  BY <1>2, <1>3 DEF Resolve

LEMMA CheckKeysKeeps == Inv /\ CheckKeys => Inv'
<1> SUFFICES ASSUME Inv, CheckKeys PROVE Inv'
  OBVIOUS
<1>1. stage = "resolved"
  BY DEF CheckKeys
<1>2. CASE Refuse
  BY <1>1, <1>2, RefuseKeeps
<1>3. CASE /\ ~ \E key \in case.keys : key.name \in DOMAIN library /\ ~ Available(key.name)
           /\ stage' = "checked" /\ UNCHANGED <<case, locations, pending, library, memberships, predicates, narrowed>>
  <2>1. Loading'
    BY <1>3 DEF Inv, Loading, Stored, Given
  <2>2. Resolved' /\ Checked'
    BY <1>1, <1>3 DEF Inv, Stages, Resolved, Mapped, Members, Checked, Available
  <2>3. Stages'
    BY <1>1, <1>3, <2>2 DEF Inv, Stages
  <2> QED
    BY <2>1, <2>3 DEF Inv
<1> QED
  BY <1>2, <1>3 DEF CheckKeys

LEMMA NamePredicatesKeeps == Inv /\ NamePredicates => Inv'
<1> SUFFICES ASSUME Inv, NamePredicates PROVE Inv'
  OBVIOUS
<1>1. /\ stage = "checked" /\ stage' = "named"
      /\ UNCHANGED <<case, locations, pending, library, memberships, narrowed>>
      /\ predicates' = [key \in {Plain(name) : name \in Raw \cup DOMAIN memberships} |-> NamedNodes(key.name)]
  BY DEF NamePredicates, Raw
<1>2. Loading'
  BY <1>1 DEF Inv, Loading, Stored, Given
<1>3. Resolved' /\ Checked'
  BY <1>1 DEF Inv, Stages, Resolved, Mapped, Members, Checked, Available
<1>4. narrowed' = {}
  BY <1>1 DEF Inv, Stages
<1>5. Raw' = Raw /\ \A name : NamedNodes(name)' = NamedNodes(name)
  BY <1>1 DEF Raw, NamedNodes, Available, RawNodes
<1>6. \A name \in Raw \cup DOMAIN memberships : predicates'[Plain(name)] = NamedNodes(name)
  BY <1>1 DEF Plain
<1>7. Named'
  BY <1>1, <1>4, <1>5, <1>6 DEF Named
<1>8. Stages'
  BY <1>1, <1>3, <1>7 DEF Inv, Stages
<1> QED
  BY <1>2, <1>8 DEF Inv

(* A name without a predicate of its own has no nodes.                       *)
LEMMA BaseIsNamed == ASSUME Inv, stage = "named", NEW key \in case.keys PROVE Base(key) = NamedNodes(key.name)
<1>1. Named
  BY DEF Inv, Stages
<1>2. CASE key.name \in Raw \cup DOMAIN memberships
  BY <1>1, <1>2 DEF Named, Base
<1>3. CASE key.name \notin Raw \cup DOMAIN memberships
  <2>1. NamedNodes(key.name) = {}
    BY <1>3 DEF NamedNodes, Available, RawNodes, Raw
  <2>2. Plain(key.name) \notin DOMAIN predicates
    BY <1>1, <1>3 DEF Named, Plain
  <2> QED
    BY <2>1, <2>2 DEF Base
<1> QED
  BY <1>2, <1>3

LEMMA MeetingStays ==
  ASSUME UNCHANGED <<case, library, memberships>>
  PROVE  /\ Raw' = Raw /\ (\A name : NamedNodes(name)' = NamedNodes(name))
         /\ \A key : Meeting(key)' = Meeting(key)
<1>1. Raw' = Raw /\ \A name : NamedNodes(name)' = NamedNodes(name)
  BY DEF Raw, NamedNodes, Available, RawNodes
<1>2. \A key, condition : Rule(key, condition)' = Rule(key, condition)
  BY DEF Rule, KeyPath
<1>3. ASSUME NEW key PROVE Meeting(key)' = Meeting(key)
  BY <1>1, <1>2 DEF Meeting
<1> QED
  BY <1>1, <1>3

LEMMA NarrowKeeps == ASSUME Inv, NEW key \in case.keys, Narrow(key) PROVE Inv'
<1>1. /\ stage = "named" /\ key.conditions # <<>> /\ narrowed' = narrowed \cup {key}
      /\ UNCHANGED <<case, stage, locations, pending, library, memberships>>
      /\ predicates' = With(predicates, key,
           {n \in Base(key) : \A i \in DOMAIN key.conditions : Holds(case.documents[n], Rule(key, key.conditions[i]))})
  BY DEF Narrow
<1>2. Loading'
  BY <1>1 DEF Inv, Loading, Stored, Given
<1>3. Resolved' /\ Checked'
  BY <1>1 DEF Inv, Stages, Resolved, Mapped, Members, Checked, Available
<1>4. Named
  BY <1>1 DEF Inv, Stages
<1>5. /\ Raw' = Raw /\ (\A name : NamedNodes(name)' = NamedNodes(name))
      /\ \A k : Meeting(k)' = Meeting(k)
  BY <1>1, MeetingStays
<1>6. /\ DOMAIN predicates' = DOMAIN predicates \cup {key} /\ predicates'[key] = Meeting(key)
      /\ \A k \in DOMAIN predicates \ {key} : predicates'[k] = predicates[k]
  BY <1>1, BaseIsNamed DEF With, Meeting
<1>7. \A name : Plain(name) # key
  BY <1>1 DEF Plain
<1>8. Named'
  BY <1>1, <1>4, <1>5, <1>6, <1>7 DEF Named
<1>9. Stages'
  BY <1>1, <1>3, <1>8 DEF Inv, Stages
<1> QED
  BY <1>2, <1>9 DEF Inv

LEMMA SearchKeeps == Inv /\ Search => Inv'
<1> SUFFICES ASSUME Inv, Search PROVE Inv'
  OBVIOUS
<1>1. /\ stage = "named" /\ stage' = "ready" /\ \A key \in case.keys : key.conditions # <<>> => key \in narrowed
      /\ UNCHANGED <<case, locations, pending, library, memberships, predicates, narrowed>>
  BY DEF Search
<1>2. Loading'
  BY <1>1 DEF Inv, Loading, Stored, Given
<1>3. Resolved' /\ Checked'
  BY <1>1 DEF Inv, Stages, Resolved, Mapped, Members, Checked, Available
<1>4. Named'
  BY <1>1, MeetingStays DEF Inv, Stages, Named
<1>5. Stages'
  BY <1>1, <1>3, <1>4 DEF Inv, Stages
<1> QED
  BY <1>2, <1>5 DEF Inv

LEMMA NextKeeps == Inv /\ [Next]_vars => Inv'
<1> SUFFICES ASSUME Inv, [Next]_vars PROVE Inv'
  OBVIOUS
<1>1. CASE UNCHANGED vars
  <2>1. Loading'
    BY <1>1 DEF Inv, Loading, Stored, Given, vars
  <2>2. Resolved' <=> Resolved
    BY <1>1 DEF Resolved, Mapped, Members, vars
  <2>3. Checked' <=> Checked
    BY <1>1 DEF Checked, Available, vars
  <2>4. Named' <=> Named
    BY <1>1, MeetingStays DEF Named, vars
  <2>5. Stages'
    BY <1>1, <2>2, <2>3, <2>4 DEF Inv, Stages, vars
  <2> QED
    BY <2>1, <2>5 DEF Inv
<1> QED
  BY <1>1, OpenLocationKeeps, LoadFileKeeps, ResolveKeeps, CheckKeysKeeps, NamePredicatesKeeps, NarrowKeeps, SearchKeeps
     DEF Next

THEOREM LibraryInvariant == Spec => []Inv
BY InitInv, NextKeeps, PTL DEF Spec

-----------------------------------------------------------------------------
(* NodeLibrary::add and addInlineNodePredicates: definitions are entered      *)
(* once and valid, no predicate has a node that is not in the graph.         *)
THEOREM TypeCorrect == Spec => []TypeOK
<1>1. Inv => TypeOK
  <2> SUFFICES ASSUME Inv PROVE TypeOK
    OBVIOUS
  <2>1. DOMAIN memberships \subseteq Mapped /\ \A name \in DOMAIN memberships : memberships[name] \subseteq DOMAIN case.documents
    BY DEF Inv, Stages, Resolved, Members
  <2>2. \A name : NamedNodes(name) \subseteq DOMAIN case.documents
    BY <2>1 DEF NamedNodes, Available, RawNodes
  <2>3. \A key \in DOMAIN predicates : predicates[key] \subseteq DOMAIN case.documents
    <3>1. CASE predicates = <<>>
      BY <3>1
    <3>2. CASE Named
      BY <2>2, <3>2 DEF Named, Meeting
    <3> QED
      BY <3>1, <3>2 DEF Inv, Stages
  <2> QED
    BY <2>1, <2>3 DEF TypeOK, Inv, Loading, Stages, Named
<1> QED
  BY LibraryInvariant, <1>1, PTL

(* The entry that keyPath finds for a spelling is the only one that has it.   *)
LEMMA EntryOfSpelling ==
  ASSUME NEW matching, Unambiguous(matching), NEW i \in DOMAIN matching, NEW spelling \in Spellings(matching[i])
  PROVE  {k \in DOMAIN matching : spelling \in Spellings(matching[k])} = {i}
BY DEF Unambiguous

(* doc/node-library.md: every listed spelling of a canonical key leads to the *)
(* path that the key itself has in the selected format.                      *)
THEOREM EverySpellingAgrees == Spec => []SpellingsAgree
<1>1. Inv => SpellingsAgree
  <2> SUFFICES ASSUME Inv, NEW name \in DOMAIN library, NEW entry \in ToSet(library[name].matching),
                      NEW spelling \in Spellings(entry)
               PROVE  KeyPath(library[name], spelling, case.format) =
                        IF \E f \in {case.format, "json"} : f \in DOMAIN entry.paths
                        THEN entry.paths[IF case.format \in DOMAIN entry.paths THEN case.format ELSE "json"]
                        ELSE Attribute(entry.key)
    BY DEF SpellingsAgree
  <2> DEFINE matching == library[name].matching
             listed   == {k \in DOMAIN matching : spelling \in Spellings(matching[k])}
  <2>1. Unambiguous(matching)
    BY DEF Inv, Loading, Valid
  <2>2. PICK i \in DOMAIN matching : entry = matching[i]
    BY DEF ToSet
  <2>3. listed = {i}
    BY <2>1, <2>2, EntryOfSpelling
  <2>4. i = CHOOSE k \in listed : \A j \in listed : k <= j
    BY <2>3
  <2>5. listed # {} /\ entry = matching[CHOOSE k \in listed : \A j \in listed : k <= j]
    BY <2>2, <2>3, <2>4
  <2> QED
    BY <2>5 DEF KeyPath
<1> QED
  BY LibraryInvariant, <1>1, PTL

(* matchRequest: in the end a key of the pattern has the nodes whose          *)
(* operation and fields it asks for, and never those of an operation that     *)
(* only shares its name with a definition.                                   *)
THEOREM KeysAreExact == Spec => []PredicatesAreExact
<1>1. Inv => PredicatesAreExact
  <2> SUFFICES ASSUME Inv, Ready, NEW key \in case.keys
               PROVE  /\ key.name \in DOMAIN library => case.format \in DOMAIN library[key.name].formats
                      /\ (IF key \in DOMAIN predicates THEN predicates[key] ELSE {})
                           = {n \in DOMAIN case.documents : Satisfies(n, key)}
    BY DEF PredicatesAreExact
  <2>1. Resolved /\ Checked /\ Named /\ (key.conditions # <<>> => key \in narrowed)
    BY DEF Inv, Stages, Ready
  <2>2. key = [name |-> key.name, conditions |-> key.conditions]
    BY CasesAssumption DEF Inv, Loading, IsCase
  <2>3. Available(key.name) <=> key.name \in DOMAIN library
    BY <2>1 DEF Resolved, Checked, Available, Mapped
  <2>4. key.name \in DOMAIN library => case.format \in DOMAIN library[key.name].formats
    BY <2>1, <2>3 DEF Resolved, Available, Mapped
  <2>5. Meeting(key) = {n \in DOMAIN case.documents : Satisfies(n, key)}
    BY <2>1, <2>3 DEF Meeting, NamedNodes, RawNodes, Available, Resolved, Members, Satisfies
  <2>6. CASE key.conditions # <<>>
    BY <2>1, <2>4, <2>5, <2>6 DEF Named
  <2>7. CASE key.conditions = <<>>
    <3>1. key = Plain(key.name) /\ Meeting(key) = NamedNodes(key.name) /\ key \notin narrowed
      BY <2>1, <2>2, <2>7 DEF Plain, Meeting, Named
    <3>2. CASE key.name \in Raw \cup DOMAIN memberships
      BY <2>1, <2>4, <2>5, <3>1, <3>2 DEF Named
    <3>3. CASE key.name \notin Raw \cup DOMAIN memberships
      <4>1. NamedNodes(key.name) = {}
        BY <3>3 DEF NamedNodes, Available, RawNodes, Raw
      <4>2. key \notin DOMAIN predicates
        BY <2>1, <3>1, <3>3 DEF Named, Plain
      <4> QED
        BY <2>4, <2>5, <3>1, <4>1, <4>2
    <3> QED
      BY <3>2, <3>3
  <2> QED
    BY <2>6, <2>7
<1> QED
  BY LibraryInvariant, <1>1, PTL

(* NodeLibrary::load: an invocation that gets to its search has every given   *)
(* definition in its library, as it was given.                               *)
THEOREM GivenFilesAreKept == Spec => []LibraryIsWhole
<1>1. Inv => (Ready => \A document \in Given : document.name \in DOMAIN library /\ library[document.name] = document)
  <2> SUFFICES ASSUME Inv, Ready, NEW l \in ToSet(case.locations), NEW file \in ToSet(Opened(l))
               PROVE  Stored(file.document)
    BY DEF Given, Stored
  <2>1. locations = <<>> /\ pending = <<>>
    BY DEF Inv, Stages, Ready
  <2> QED
    BY <2>1, NothingListed DEF Inv, Loading
<1> QED
  BY LibraryInvariant, TypeCorrect, <1>1, PTL DEF LibraryIsWhole

(* generatedOperation: a node with the operation that generation writes for a *)
(* definition is one of its nodes.                                           *)
THEOREM GenerationAgrees == Spec => []GeneratedIsMatched
<1>1. Inv => GeneratedIsMatched
  <2> SUFFICES ASSUME Inv, Ready, NEW name \in DOMAIN library, NEW op \in Generated(library[name], case.format),
                      NEW n \in DOMAIN case.documents, case.documents[n].op = op
               PROVE  n \in memberships[name]
    BY DEF GeneratedIsMatched
  <2> DEFINE mapping == library[name].formats[case.format]
  <2>1. case.format \in DOMAIN library[name].formats /\ mapping.where = NoRule /\ op = Head(mapping.types)
    BY DEF Generated
  <2>2. PICK l \in ToSet(case.locations) : \E file \in ToSet(Opened(l)) : library[name] = file.document
    BY DEF Inv, Loading, Given
  <2>3. IsList(mapping.types)
    BY <2>1, <2>2, CasesAssumption DEF Inv, Loading, IsCase
  <2>4. mapping.types # <<>>
    BY <2>1 DEF Inv, Loading, Valid
  <2>5. op \in ToSet(mapping.types)
    BY <2>1, <2>3, <2>4, HeadAndTail
  <2>6. memberships[name] = Members(library[name])
    BY <2>1 DEF Inv, Stages, Ready, Resolved, Mapped
  <2> QED
    BY <2>1, <2>5, <2>6 DEF Members, Holds
<1> QED
  BY LibraryInvariant, <1>1, PTL
=============================================================================
