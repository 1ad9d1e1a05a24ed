------------------------------ MODULE NodeLibrary ------------------------------
(***************************************************************************)
(* NodeLibrary.cpp, and the part of matchRequest that turns definitions into *)
(* node predicates: files of definitions are loaded, the definitions are     *)
(* resolved for the selected input format, and the keys of the pattern get   *)
(* the sets of nodes they accept.                                            *)
(*                                                                          *)
(* A path is a sequence of segments; a mapping that is an attribute name is  *)
(* the path <<"attributes", name>>.  The document of a node is its op and    *)
(* the values at the paths it has; a rule asks for a value at a path.  The   *)
(* operations of the model have no punctuation: each is its own raw key.     *)
(***************************************************************************)
EXTENDS Naturals, Sequences, SequencesExt, FiniteSets

CONSTANTS Names,     \* what predicateName accepts
          Indices,   \* segments that are array indices
          Cases      \* the invocations: [locations, format, documents, keys]

VARIABLES case,
          stage,        \* where the invocation is
          locations,    \* the ones not opened yet
          pending,      \* files of the open location
          library,      \* definitions by name
          memberships,  \* its nodes, per definition with a mapping for the format
          predicates,   \* per key: the nodes it accepts
          narrowed      \* inline keys done

vars == <<case, stage, locations, pending, library, memberships, predicates, narrowed>>

NoRule   == [path |-> <<>>, value |-> "any"]
BadRule  == [path |-> <<>>, value |-> "invalid"]

-----------------------------------------------------------------------------
(* fromDocument.  A definition is [version, name, openmath, matching,        *)
(* formats]: matching lists [key, paths], the canonical key and its paths by *)
(* format, in key order; formats gives [types, where] by format.             *)
Aliases(entry) == {Last(entry.paths[f]) : f \in DOMAIN entry.paths} \ Indices
Spellings(entry) == {entry.key} \cup Aliases(entry)

\* Mutant of Unambiguous: canonical keys are not entered among the aliases.
UnambiguousMutant(matching) ==
  \A i, j \in DOMAIN matching : i # j => Aliases(matching[i]) \cap Aliases(matching[j]) = {}

Unambiguous(matching) ==
  \A i, j \in DOMAIN matching : i # j => Spellings(matching[i]) \cap Spellings(matching[j]) = {}

Valid(document) ==
  /\ document.version \in 1 .. 4 /\ document.name \in Names
  /\ document.openmath => document.version >= 3
  /\ document.matching # <<>> => document.version >= 4
  /\ \A entry \in ToSet(document.matching) : Spellings(entry) \subseteq Names
  /\ Unambiguous(document.matching)
  /\ DOMAIN document.formats # {}
  /\ \A format \in DOMAIN document.formats :
       /\ document.formats[format].types # <<>>
       /\ document.formats[format].where # NoRule => document.version >= 2

(* keyPath: the first entry with that spelling, in the selected format, else *)
(* in json, else under its canonical name; an unlisted key is an attribute.  *)
Attribute(key) == <<"attributes", key>>

KeyPath(definition, key, format) ==
  LET listed == {i \in DOMAIN definition.matching : key \in Spellings(definition.matching[i])}
      entry  == definition.matching[CHOOSE i \in listed : \A j \in listed : i <= j]
  IN  CASE listed = {}                   -> Attribute(key)
        [] listed # {} /\ format \in DOMAIN entry.paths -> entry.paths[format]
        [] listed # {} /\ format \notin DOMAIN entry.paths /\ "json" \in DOMAIN entry.paths -> entry.paths["json"]
        [] OTHER                         -> Attribute(entry.key)

(* compileNodeRule on an equality: a missing field is equal to nothing. *)
Holds(document, rule) ==
  rule = NoRule \/ (rule.path \in DOMAIN document.fields /\ document.fields[rule.path] = rule.value)

(* generatedOperation: the first op_type; a condition cannot be generated.   *)
\* Mutant of Generated: the condition is ignored.
GeneratedMutant(definition, format) ==
  IF format \in DOMAIN definition.formats THEN {Head(definition.formats[format].types)} ELSE {}

Generated(definition, format) ==
  IF format \in DOMAIN definition.formats /\ definition.formats[format].where = NoRule
  THEN {Head(definition.formats[format].types)} ELSE {}

-----------------------------------------------------------------------------
Refuse == stage' = "refused" /\ UNCHANGED <<case, locations, pending, library, memberships, predicates, narrowed>>

Init ==
  /\ case \in Cases
  /\ stage = "loading" /\ locations = case.locations /\ pending = <<>>
  /\ library = <<>> /\ memberships = <<>> /\ predicates = <<>> /\ narrowed = {}

(* load: a directory stands for its .json files, of which it must have one.  *)
Opened(location) ==
  IF location.directory THEN SelectSeq(location.files, LAMBDA file : file.json) ELSE location.files

(* Locations, files and types come in order; a key has no other parts.       *)
IsList(s) == s \in Seq(ToSet(s))
IsCase(c) ==
  /\ IsList(c.locations)
  /\ \A l \in ToSet(c.locations) :
       /\ IsList(Opened(l))
       /\ \A file \in ToSet(Opened(l)) : \A f \in DOMAIN file.document.formats :
            IsList(file.document.formats[f].types)
  /\ \A key \in c.keys : key = [name |-> key.name, conditions |-> key.conditions]

ASSUME CasesAssumption == \A c \in Cases : IsCase(c)

OpenLocation ==
  /\ stage = "loading" /\ pending = <<>> /\ locations # <<>>
  /\ LET files == Opened(Head(locations)) IN
     IF files = <<>> \/ ~ Head(files).json THEN Refuse
     ELSE /\ pending' = files /\ locations' = Tail(locations)
          /\ UNCHANGED <<case, stage, library, memberships, predicates, narrowed>>

With(function, key, value) ==
  [k \in DOMAIN function \cup {key} |-> IF k = key THEN value ELSE function[k]]

\* Mutant of LoadFile: a later definition replaces an earlier one.
LoadFileMutant ==
  /\ stage = "loading" /\ pending # <<>>
  /\ LET file == Head(pending) IN
     IF ~ file.readable \/ ~ Valid(file.document) THEN Refuse
     ELSE /\ library' = With(library, file.document.name, file.document) /\ pending' = Tail(pending)
          /\ UNCHANGED <<case, stage, locations, memberships, predicates, narrowed>>

(* loadFile and add: a name is defined once. *)
LoadFile ==
  /\ stage = "loading" /\ pending # <<>>
  /\ LET file == Head(pending) IN
     IF ~ file.readable \/ ~ Valid(file.document) \/ file.document.name \in DOMAIN library THEN Refuse
     ELSE /\ library' = With(library, file.document.name, file.document) /\ pending' = Tail(pending)
          /\ UNCHANGED <<case, stage, locations, memberships, predicates, narrowed>>

(* resolve: the nodes whose op is one of op_types and that meet the `where`  *)
(* of the selected format, which must compile even without such a node.      *)
Members(definition) ==
  LET mapping == definition.formats[case.format]
  IN  {n \in DOMAIN case.documents : /\ case.documents[n].op \in ToSet(mapping.types)
                                     /\ Holds(case.documents[n], mapping.where)}
Mapped == {name \in DOMAIN library : case.format \in DOMAIN library[name].formats}

Resolve ==
  /\ stage = "loading" /\ pending = <<>> /\ locations = <<>>
  /\ IF \E name \in Mapped : library[name].formats[case.format].where = BadRule THEN Refuse
     ELSE /\ memberships' = [name \in Mapped |-> Members(library[name])]
          /\ stage' = "resolved"
          /\ UNCHANGED <<case, locations, pending, library, predicates, narrowed>>

-----------------------------------------------------------------------------
Available(name) == name \in DOMAIN memberships
RawNodes(op) == {n \in DOMAIN case.documents : case.documents[n].op = op}

(* A key of the pattern, inline or not, whose definition has no mapping for  *)
(* the selected format is an error.                                          *)
CheckKeys ==
  /\ stage = "resolved"
  /\ IF \E key \in case.keys : key.name \in DOMAIN library /\ ~ Available(key.name) THEN Refuse
     ELSE stage' = "checked" /\ UNCHANGED <<case, locations, pending, library, memberships, predicates, narrowed>>

Plain(name) == [name |-> name, conditions |-> <<>>]
NamedNodes(name) == IF Available(name) THEN memberships[name] ELSE RawNodes(name)

\* Mutant of NamePredicates: the raw operations are entered after the definitions.
NamePredicatesMutant ==
  /\ stage = "checked"
  /\ LET raw     == {case.documents[n].op : n \in DOMAIN case.documents}
     IN  predicates' = [key \in {Plain(name) : name \in raw \cup DOMAIN memberships} |->
                          IF key.name \in raw THEN RawNodes(key.name) ELSE memberships[key.name]]
  /\ stage' = "named" /\ UNCHANGED <<case, locations, pending, library, memberships, narrowed>>

(* A predicate for every operation of the graph, replaced by the definition  *)
(* of the same name where there is one (addDefinitionPredicates).            *)
NamePredicates ==
  /\ stage = "checked"
  /\ LET raw     == {case.documents[n].op : n \in DOMAIN case.documents}
     IN  predicates' = [key \in {Plain(name) : name \in raw \cup DOMAIN memberships} |-> NamedNodes(key.name)]
  /\ stage' = "named" /\ UNCHANGED <<case, locations, pending, library, memberships, narrowed>>

(* addInlineNodePredicates: one key with conditions.  Its own test for a     *)
(* mapping repeats CheckKeys.                                                *)
Rule(key, condition) ==
  [path  |-> IF key.name \in DOMAIN library THEN KeyPath(library[key.name], condition.key, case.format)
             ELSE Attribute(condition.key),
   value |-> condition.value]

Base(key) == IF Plain(key.name) \in DOMAIN predicates THEN predicates[Plain(key.name)] ELSE {}

Narrow(key) ==
  /\ stage = "named" /\ key \notin narrowed /\ key.conditions # <<>>
  /\ predicates' = With(predicates, key,
       {n \in Base(key) : \A i \in DOMAIN key.conditions : Holds(case.documents[n], Rule(key, key.conditions[i]))})
  /\ narrowed' = narrowed \cup {key}
  /\ UNCHANGED <<case, stage, locations, pending, library, memberships>>

Search ==
  /\ stage = "named" /\ \A key \in case.keys : key.conditions # <<>> => key \in narrowed
  /\ stage' = "ready"
  /\ UNCHANGED <<case, locations, pending, library, memberships, predicates, narrowed>>

Next == OpenLocation \/ LoadFile \/ Resolve \/ CheckKeys \/ NamePredicates \/ (\E key \in case.keys : Narrow(key)) \/ Search
Spec == Init /\ [][Next]_vars

-----------------------------------------------------------------------------
Ready == stage = "ready"

TypeOK ==
  /\ stage \in {"loading", "resolved", "checked", "named", "ready", "refused"}
  /\ \A name \in DOMAIN library : library[name].name = name /\ Valid(library[name])
  /\ DOMAIN memberships \subseteq Mapped
  /\ \A key \in DOMAIN predicates : predicates[key] \subseteq DOMAIN case.documents
  /\ narrowed \subseteq case.keys

(* "Every listed spelling can be used with every mapped input format", and   *)
(* aliases of two canonical keys are rejected (doc/node-library.md): in one  *)
(* library all spellings of a canonical key lead to one path, the canonical  *)
(* key's own mapping, whatever else is mapped.                               *)
SpellingsAgree ==
  \A name \in DOMAIN library : \A entry \in ToSet(library[name].matching) : \A spelling \in Spellings(entry) :
    KeyPath(library[name], spelling, case.format) =
      IF \E f \in {case.format, "json"} : f \in DOMAIN entry.paths
      THEN entry.paths[IF case.format \in DOMAIN entry.paths THEN case.format ELSE "json"]
      ELSE Attribute(entry.key)

(* What the pattern's keys accept in the end is what they say: a defined     *)
(* name its op_types and condition, another name the operation itself, and   *)
(* an inline key the nodes of its name that meet every condition.  A pattern *)
(* that names a definition without a mapping for the format is not answered, *)
(* least of all from an operation that happens to have its name.             *)
Satisfies(node, key) ==
  LET document == case.documents[node] IN
  /\ IF key.name \in DOMAIN library
     THEN LET mapping == library[key.name].formats[case.format]
          IN  document.op \in ToSet(mapping.types) /\ Holds(document, mapping.where)
     ELSE document.op = key.name
  /\ \A i \in DOMAIN key.conditions : Holds(document, Rule(key, key.conditions[i]))
PredicatesAreExact ==
  Ready => \A key \in case.keys :
             /\ key.name \in DOMAIN library => case.format \in DOMAIN library[key.name].formats
             /\ (IF key \in DOMAIN predicates THEN predicates[key] ELSE {})
                  = {n \in DOMAIN case.documents : Satisfies(n, key)}

(* A library holds valid definitions only, each under its name, and none of  *)
(* the given files is lost or replaced on the way: "The                      *)
(* same file given twice" is an error, and so are two files with one name.   *)
Given == UNION {{file.document : file \in ToSet(Opened(l))} : l \in ToSet(case.locations)}
LibraryIsWhole ==
  /\ TypeOK
  /\ Ready => \A document \in Given : document.name \in DOMAIN library /\ library[document.name] = document

(* A graph generated from a definition is matched by it: the operation that  *)
(* generation writes, with no attribute, is one the definition accepts.      *)
GeneratedIsMatched ==
  Ready => \A name \in DOMAIN library : \A op \in Generated(library[name], case.format) :
             \A n \in DOMAIN case.documents : case.documents[n].op = op => n \in memberships[name]
=============================================================================
