----------------------- MODULE RandomExpressionGenerator -----------------------
(***************************************************************************)
(* RandomExpressionGenerator::allExpr: paths are drawn, the parser reads     *)
(* them, and they are drawn again until it accepts their boundaries.  What   *)
(* pick() returns is any choice.                                             *)
(***************************************************************************)
EXTENDS PatternParser

CONSTANTS Words,      \* the keys that are drawn
          MaxDepth,   \* allExpr's argument
          Repeats,    \* the quantifiers that are drawn
          MaxSize,    \* bound: expressions in a sequence, 1 to 3 (3 in the code)
          LaterSize,  \* bound: the same, in the paths after the first
          MaxTokens,  \* bound: tokens of a sequence
          MaxPaths    \* bound: paths in a text, 3 in the code

VARIABLES wanted,   \* paths to draw
          drawn     \* paths in the text so far

generatorVars == <<vars, wanted, drawn>>

Written(type) == Token(type, "")
Unnumbered(arrow) == Token(arrow, 0)

(* sequence: one to three expressions with arrows between them; it is        *)
(* reversed when these are PREC.                                            *)
Arrowed(arrow, e, rest) == e \o <<Unnumbered(arrow)>> \o rest
FollowedBy(arrow, expressions, rests) == {Arrowed(arrow, e, rest) : e \in expressions, rest \in rests}
Bodies(arrow, expressions, size) ==
  LET pairs   == FollowedBy(arrow, expressions, expressions)
      triples == FollowedBy(arrow, expressions, pairs)
  IN  expressions \cup (IF size > 1 THEN pairs ELSE {}) \cup (IF size > 2 THEN triples ELSE {})

\* Mutant of Bounded: a boundary is written at the end in either direction.
BoundedMutant(arrow, body) == body \o <<Unnumbered(arrow), Written("END")>>

Bounded(arrow, body) == IF arrow = "PREC" THEN <<Written("END"), Unnumbered(arrow)>> \o body
                                          ELSE body \o <<Unnumbered(arrow), Written("END")>>

SequencesOver(expressions, size) ==
  LET short == {e \in expressions : Len(e) <= MaxTokens}
      all(arrow) == LET bodies == Bodies(arrow, short, size)
                    IN  bodies \cup {Bounded(arrow, body) : body \in bodies}
  IN  {s \in all("NEXT") \cup all("PREC") : Len(s) <= MaxTokens}

(* exp: the texts it can return, with groups nested up to depth. *)
Leaves == {<<w>> : w \in Words} \cup {<<w, r>> : w \in {w \in Words : w.type = "KEY"}, r \in Repeats}
InGroup(body, r) == Append(<<Written("LPAREN")>> \o body \o <<Written("RPAREN")>>, r)
Grouped(bodies) == {InGroup(body, r) : body \in bodies, r \in Repeats}
Expressions[depth \in 0 .. MaxDepth] ==
  Leaves \cup (IF depth = 0 THEN {} ELSE Grouped(SequencesOver(Expressions[depth - 1], MaxSize)))

FirstPaths == SequencesOver(Expressions[MaxDepth], MaxSize)
LaterPaths == SequencesOver(Expressions[MaxDepth], LaterSize)

-----------------------------------------------------------------------------
GeneratorInit ==
  /\ text = <<>> /\ position = 0 /\ stack = <<>> /\ value = NoTree /\ outcome = "drawing" /\ results = <<>>
  /\ wanted \in 1 .. MaxPaths /\ drawn = 0

DrawPath ==
  /\ outcome = "drawing" /\ drawn < wanted
  /\ \E path \in (IF drawn = 0 THEN FirstPaths ELSE LaterPaths) :
       text' = text \o (IF drawn = 0 THEN <<>> ELSE <<Written("SEP")>>) \o path
  /\ drawn' = drawn + 1
  /\ UNCHANGED <<position, stack, value, outcome, results, wanted>>

(* A parser for the text, which is complete. *)
ReadDrawn ==
  /\ outcome = "drawing" /\ drawn = wanted
  /\ text' = Append(text, Stop)
  /\ position' = 1 /\ stack' = <<Call("allExpr")>> /\ outcome' = "parsing"
  /\ UNCHANGED <<value, results, wanted, drawn>>

Read == (Descend \/ Finish) /\ UNCHANGED <<wanted, drawn>>

(* invalid_argument is caught, a syntax error is not. *)
DrawAgain ==
  /\ outcome = "refused"
  /\ text' = <<>> /\ position' = 0 /\ outcome' = "drawing" /\ results' = <<>> /\ value' = NoTree
  /\ \E paths \in 1 .. MaxPaths : wanted' = paths
  /\ drawn' = 0
  /\ UNCHANGED stack

GeneratorNext == DrawPath \/ ReadDrawn \/ Read \/ DrawAgain
GeneratorSpec == GeneratorInit /\ [][GeneratorNext]_generatorVars

-----------------------------------------------------------------------------
(* allExpr never throws: what it draws is a text of the language, groups and *)
(* boundaries in either direction included, so that the parser can refuse it *)
(* for its boundaries only, which are drawn again.                           *)
DrawnIsRead == wanted # 0 => outcome # "error"
=============================================================================
