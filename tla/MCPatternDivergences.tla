------------------------- MODULE MCPatternDivergences -------------------------
(* What documents and comments say of the parser and the compiler, where the *)
(* code does something else (README, "Divergences").                         *)
EXTENDS PatternParser, PatternMeaning, PatternRules

Mark(type) == Token(type, "")
KeyToken   == Token("KEY", KEY("A"))
MCArrows == {KeyToken, Token("NEXT", 0), Token("PREC", 0), Mark("END")}
MCGroup  == {KeyToken, Token("CKEY", CKEY("D", 1, FALSE, FALSE)), Token("NEXT", 0),
             Mark("LPAREN"), Mark("RPAREN"), Mark("QOM")}

MCGrammar  == Levels(FALSE)
Documented == UNION {Prefixes(Append(s.text, Stop)) : s \in QueriesOf(Levels(TRUE))}

-----------------------------------------------------------------------------
(* "Distances beyond kLimit make that side unbounded" (Transition.hpp): the   *)
(* distance to an anchor in an accepted pattern is no reason to refuse it.   *)
FarAnchorsCompile ==
  outcome = "parsed" => \A rising \in BOOLEAN : Interpret(value, rising).ok

(* "exp ('->' (seq | '$') ...", where seq may be "'$' '<-' rseq"             *)
(* (doc/pattern-language.md): a sentence of that grammar is no syntax error.  *)
DocumentedGrammarIsRead == outcome = "error" => text \notin Documented

(* "The parser refuses ... patterns where that can never hold"               *)
(* (doc/pattern-language.md): an accepted path of plain keys and arrows has a *)
(* reading on some chain.                                                    *)
Chain(n) == [nodes |-> 1 .. n, edges |-> {<<i, i + 1>> : i \in 1 .. n - 1}, ports |-> {},
             satisfies |-> [i \in 1 .. n |-> {"A"}]]
BoundariesCanHold ==
  outcome = "parsed" =>
    \E n \in 1 .. MaxLength : \E start \in 1 .. n : Meaning(Chain(n), value, start, 0) # {}
=============================================================================
