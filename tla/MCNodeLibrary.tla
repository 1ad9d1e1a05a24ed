----------------------------- MODULE MCNodeLibrary -----------------------------
EXTENDS NodeLibrary, TLC

MCNames   == {"a", "b", "c", "D", "E"}
MCIndices == {"[0]"}

Places == {Attribute("a"), Attribute("b"), Attribute("c"), <<"s", "[0]">>, <<"s", "a">>}
MCFormats == {"json", "onnx"}
NoPaths == [f \in {} |-> <<>>]

(* Node k has the value "1" at the k-th place only; then every place, the    *)
(* other operation, and an operation with the name of a definition.          *)
Placed(S, op) == [op |-> op, fields |-> [p \in Places |-> IF p \in S THEN "1" ELSE "0"]]
Bare(op) == [op |-> op, fields |-> [p \in {} |-> "0"]]
Listed == SetToSeq(Places)
MCDocuments == [k \in 1 .. 5 |-> Placed({Listed[k]}, "P")] @@ (6 :> Placed(Places, "Q"))
                 @@ (7 :> Placed(Places, "D")) @@ (8 :> Bare("P"))

Mapping(types, where) == [types |-> types, where |-> where]
Definition(version, name, openmath, matching, formats) ==
  [version |-> version, name |-> name, openmath |-> openmath, matching |-> matching, formats |-> formats]
Both(mapping) == [f \in MCFormats |-> mapping]
P == Mapping(<<"P">>, NoRule)

Entries(key) == {[key |-> key, paths |-> paths] : paths \in UNION {[fs -> Places] : fs \in SUBSET MCFormats}}
Matchings == {<<>>} \cup {<<e>> : e \in Entries("a") \cup Entries("b")}
                    \cup {<<d, e>> : d \in Entries("a"), e \in Entries("b")}

File(document) == [json |-> TRUE, readable |-> TRUE, document |-> document]
One(document)  == [directory |-> FALSE, files |-> <<File(document)>>]
Inline(name, key) == [name |-> name, conditions |-> <<[key |-> key, value |-> "1"]>>]
Two(name, k, l) == [name |-> name, conditions |-> <<[key |-> k, value |-> "1"], [key |-> l, value |-> "0"]>>]

Case(places, format, keys) == [locations |-> places, format |-> format, documents |-> MCDocuments, keys |-> keys]

MatchingCases ==
  {Case(<<One(Definition(4, "D", FALSE, matching, Both(P)))>>, format,
        {Inline("D", "a"), Inline("D", "c"), Two("D", "b", "c")})
     : matching \in Matchings, format \in {"json", "onnx"}}

AtB(value) == [path |-> Attribute("b"), value |-> value]
Documents == {
  Definition(1, "D", FALSE, <<>>, Both(P)),
  Definition(1, "D", FALSE, <<>>, "json" :> P),
  Definition(1, "E", FALSE, <<>>, Both(Mapping(<<"Q", "P">>, NoRule))),
  Definition(2, "E", FALSE, <<>>, "onnx" :> Mapping(<<"P">>, AtB("1")) @@ "json" :> Mapping(<<"P">>, BadRule)),
  Definition(1, "E", FALSE, <<>>, Both(Mapping(<<"P">>, AtB("1")))),
  Definition(3, "D", TRUE, <<>>, Both(Mapping(<<"P">>, AtB("1")))),
  Definition(2, "D", TRUE, <<>>, Both(P)),
  Definition(3, "D", FALSE, <<[key |-> "a", paths |-> NoPaths]>>, Both(P)),
  Definition(5, "D", FALSE, <<>>, Both(P)),
  Definition(4, "D", FALSE, <<[key |-> "a-b", paths |-> NoPaths]>>, Both(P)),
  Definition(1, "D", FALSE, <<>>, [f \in {} |-> P]),
  Definition(1, "D", FALSE, <<>>, Both(Mapping(<<>>, NoRule)))}
Files == {File(d) : d \in Documents} \cup {[File(CHOOSE d \in Documents : Valid(d)) EXCEPT !.readable = FALSE],
                                            [File(CHOOSE d \in Documents : Valid(d)) EXCEPT !.json = FALSE]}
Locations == {[directory |-> FALSE, files |-> <<f>>] : f \in Files}
               \cup {[directory |-> TRUE, files |-> fs] : fs \in {<<>>} \cup {<<f, g>> : f, g \in Files}}

LoadCases ==
  {Case(places, format, keys) :
     places \in {<<>>} \cup {<<l>> : l \in Locations} \cup {<<l, m>> : l, m \in {l \in Locations : ~ l.directory}},
     format \in MCFormats \cup {"stablehlo"},
     keys \in {{Plain("D"), Plain("E"), Inline("P", "b")}, {Plain("E"), Two("D", "a", "c")}, {Plain("P")}}}

MCCases == MatchingCases \cup LoadCases
=============================================================================
