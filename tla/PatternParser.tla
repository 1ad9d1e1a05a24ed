---------------------------- MODULE PatternParser ----------------------------
(***************************************************************************)
(* PartitionGraphParser: recursive descent with one token of look-ahead over *)
(* the tokens of PartitionGraphLexer.  The call stack is explicit: a frame   *)
(* says where its function goes on and what it has built so far (kept).      *)
(* The text is any sequence of tokens; it is chosen token by token as the    *)
(* lexer is asked for them, up to MaxLength tokens.                          *)
(***************************************************************************)
EXTENDS PatternGrammar

CONSTANTS Grammar,     \* the levels of the grammar, 1 .. MaxLength
          Accepts(_),  \* whether a tree passes the checks of PatternRules
          MaxParses    \* bound: calls of parse on one parser

ASSUME GrammarAssumption == \A n \in 1 .. MaxLength : Grammar[n] = Level(Grammar, n, FALSE)
ASSUME ParsesAssumption == MaxParses \in Nat \ {0}

VARIABLES text,      \* the tokens of the query that were asked for so far
          position,  \* the current one
          stack,     \* the active functions, the innermost first
          value,     \* the tree the last function returned
          outcome,   \* of this call of parse
          results    \* of the calls that ended: the outcome and the tree

vars == <<text, position, stack, value, outcome, results>>

current == text[position]
At(type) == current.type = type

(* getNextToken; an unknown character or an unclosed condition is BAD. *)
Following == CASE position < Len(text) -> {text[position + 1]}
               [] position = Len(text) /\ Len(text) < MaxLength -> Tokens \cup {Stop}
               [] OTHER -> {Stop}
ReadToken ==
  \E token \in Following :
    /\ text' = IF position < Len(text) THEN text ELSE Append(text, token)
    /\ position' = position + 1
    /\ outcome' = IF token.type = "BAD" THEN "error" ELSE outcome

Frame(at, kept, port) == [at |-> at, kept |-> kept, port |-> port]
Call(function) == Frame(function, <<>>, 0)
Top  == Head(stack)
Active(at) == outcome = "parsing" /\ stack # <<>> /\ Top.at = at

(* The steps of a function: it takes the current token, calls, or returns.   *)
Take(frames) == ReadToken /\ stack' = frames \o Tail(stack) /\ UNCHANGED <<value, results>>
TakeAndReturn(tree) == ReadToken /\ stack' = Tail(stack) /\ value' = tree /\ UNCHANGED results
Enter(frames) == stack' = frames \o Tail(stack) /\ UNCHANGED <<text, position, value, outcome, results>>
Return(tree) == stack' = Tail(stack) /\ value' = tree /\ UNCHANGED <<text, position, outcome, results>>
Fail == outcome' = "error" /\ UNCHANGED <<text, position, stack, value, results>>

Init ==
  /\ text \in {<<token>> : token \in Tokens \cup {Stop}}
  /\ position = 1
  /\ stack = <<Call("allExpr")>>
  /\ value = NoTree
  /\ outcome = IF text[1].type = "BAD" THEN "error" ELSE "parsing"
  /\ results = <<>>

-----------------------------------------------------------------------------
(* constructAstExp: a key with its quantifier, an anchor, or a group. *)
Exp ==
  /\ Active("exp")
  /\ \/ At("KEY") /\ Take(<<Frame("exp.quantifier", <<current.content>>, 0)>>)
     \/ At("CKEY") /\ TakeAndReturn(current.content)
     \/ At("SCKEY") /\ TakeAndReturn(current.content)
     \/ ~ (At("KEY") \/ At("CKEY") \/ At("SCKEY")) /\ Enter(<<Call("domain")>>)

ExpQuantifier ==
  /\ Active("exp.quantifier")
  /\ IF current.type \in DOMAIN Symbol
     THEN TakeAndReturn(QUANTIFIED(Top.kept[1], Symbol[current.type]))
     ELSE Return(Top.kept[1])

(* constructAstSeq. *)
SeqStart ==
  /\ Active("seq")
  /\ IF At("END") THEN Take(<<Call("seq.boundary")>>)
     ELSE Enter(<<Call("exp"), Call("seq.exp")>>)

SeqBoundary ==
  /\ Active("seq.boundary")
  /\ IF At("PREC") THEN Take(<<Call("rseq"), Frame("prec", <<END>>, current.content)>>) ELSE Fail

SeqExp ==
  /\ Active("seq.exp")
  /\ \/ At("NEXT") /\ Take(<<Frame("seq.next", <<value>>, current.content)>>)
     \/ At("PREC") /\ Take(<<Call("rseq"), Frame("prec", <<value>>, current.content)>>)
     \/ ~ (At("NEXT") \/ At("PREC")) /\ Return(value)

\* Mutant of SeqNext: a boundary after an arrow starts a sequence of its own.
SeqNextMutant ==
  /\ Active("seq.next")
  /\ Enter(<<Call("seq"), Frame("next", Top.kept, Top.port)>>)

SeqNext ==
  /\ Active("seq.next")
  /\ IF At("END") THEN TakeAndReturn(NEXT(Top.kept[1], END, Top.port))
     ELSE Enter(<<Call("seq"), Frame("next", Top.kept, Top.port)>>)

(* constructAstRseq. *)
Rseq == Active("rseq") /\ Enter(<<Call("exp"), Call("rseq.exp")>>)

RseqExp ==
  /\ Active("rseq.exp")
  /\ IF At("PREC") THEN Take(<<Frame("rseq.prec", <<value>>, current.content)>>) ELSE Return(value)

RseqPrec ==
  /\ Active("rseq.prec")
  /\ IF At("END") THEN TakeAndReturn(PREC(Top.kept[1], END, Top.port))
     ELSE Enter(<<Call("rseq"), Frame("prec", Top.kept, Top.port)>>)

(* The right operand of an arrow has been built. *)
Arrow ==
  \/ Active("next") /\ Return(NEXT(Top.kept[1], value, Top.port))
  \/ Active("prec") /\ Return(PREC(Top.kept[1], value, Top.port))

(* constructAstDomain: parentheses, alternatives, and the quantifier that a  *)
(* group without alternatives must have.                                     *)
Domain ==
  /\ Active("domain")
  /\ IF At("LPAREN") THEN Take(<<Call("alternative")>>) ELSE Fail

BeginAlternative ==
  /\ Active("alternative")
  /\ IF current.type \in {"ALT", "RPAREN", "STOP"} THEN Fail
     ELSE Enter(<<Call("seq"), Frame("domain.more", Top.kept, 0)>>)

\* Mutant of DomainMore: the loop over the branches only ends at a parenthesis.
DomainMoreMutantEndless ==
  /\ Active("domain.more")
  /\ LET branches == Append(Top.kept, value) IN
     \/ At("ALT") /\ Take(<<Frame("alternative", branches, 0)>>)
     \/ At("RPAREN") /\ Take(<<Frame("domain.quantifier", branches, 0)>>)

DomainMore ==
  /\ Active("domain.more")
  /\ LET branches == Append(Top.kept, value) IN
     \/ At("ALT") /\ Take(<<Frame("alternative", branches, 0)>>)
     \/ At("RPAREN") /\ Take(<<Frame("domain.quantifier", branches, 0)>>)
     \/ ~ (At("ALT") \/ At("RPAREN")) /\ Fail

DomainQuantifier ==
  /\ Active("domain.quantifier")
  /\ LET group == GROUP(Top.kept) IN
     \/ current.type \in DOMAIN Symbol /\ TakeAndReturn(QUANTIFIED(group, Symbol[current.type]))
     \/ current.type \notin DOMAIN Symbol /\ Len(Top.kept) > 1 /\ Return(group)
     \/ current.type \notin DOMAIN Symbol /\ Len(Top.kept) = 1 /\ Fail

(* constructAstAllExpr: paths up to the end of the text. *)
AllExpr == Active("allExpr") /\ Enter(<<Call("seq"), Call("allExpr.path")>>)

AllExprPath ==
  /\ Active("allExpr.path")
  /\ \/ At("SEP") /\ Take(<<Frame("allExpr.more", <<value>>, 0)>>)
     \/ At("STOP") /\ Return(value)
     \/ ~ (At("SEP") \/ At("STOP")) /\ Fail

AllExprMore ==
  /\ Active("allExpr.more")
  /\ IF At("STOP") THEN Return(Top.kept[1])
     ELSE Enter(<<Call("allExpr"), Frame("sep", Top.kept, 0)>>)

Separate == Active("sep") /\ Return(SEP(Top.kept[1], value))

-----------------------------------------------------------------------------
(* The end of parse: the parser goes back to the first token, then the tree  *)
(* is checked; a refused pattern is an invalid_argument.                     *)
Finish ==
  /\ outcome = "parsing" /\ stack = <<>>
  /\ position' = 1
  /\ outcome' = IF Accepts(value) THEN "parsed" ELSE "refused"
  /\ results' = Append(results, [outcome |-> outcome', tree |-> value])
  /\ UNCHANGED <<text, stack, value>>

(* The same parser is asked again, as interpret() called twice does. *)
ParseAgain ==
  /\ outcome \in {"parsed", "refused"} /\ Len(results) < MaxParses
  /\ outcome' = "parsing"
  /\ stack' = <<Call("allExpr")>>
  /\ UNCHANGED <<text, position, value, results>>

Descend == \/ Exp \/ ExpQuantifier \/ SeqStart \/ SeqBoundary \/ SeqExp \/ SeqNext \/ Rseq \/ RseqExp \/ RseqPrec
           \/ Arrow \/ Domain \/ BeginAlternative \/ DomainMore \/ DomainQuantifier
           \/ AllExpr \/ AllExprPath \/ AllExprMore \/ Separate
Next == Descend \/ Finish \/ ParseAgain

(* One thread runs the parser to its end. *)
Spec == Init /\ [][Next]_vars /\ WF_vars(Descend \/ Finish)

-----------------------------------------------------------------------------
(* Between two steps of the parser. *)
TypeOK ==
  /\ outcome = "parsing" => position \in DOMAIN text
  /\ Len(results) <= MaxParses
  /\ \A frame \in ToSet(stack) :
       /\ frame.at \in {"exp.quantifier", "seq.next", "rseq.prec", "next", "prec", "sep", "allExpr.more"}
            => Len(frame.kept) = 1
       /\ frame.at = "domain.quantifier" => frame.kept # <<>>
       /\ \A k \in DOMAIN frame.kept : frame.kept[k] # NoTree

Language == QueriesOf(Grammar)
Viable   == UNION {Prefixes(Append(s.text, Stop)) : s \in Language}

(* The text is one that the lexer gives token by token; those that           *)
(* RandomExpressionGenerator draws may be longer.                            *)
Lexed == Len(text) <= MaxLength + 1 /\ ToSet(text) \subseteq Tokens \cup {Stop}

(* A text that parse accepts, or refuses for its boundaries or alternatives, *)
(* is a sentence of the grammar, and its tree is the tree of that sentence;  *)
(* parse fails only on the first token that no sentence has there, so that   *)
(* every sentence is read to its end: the one token of look-ahead, the early *)
(* return after a boundary and the loop over alternatives never mix up       *)
(* operands, nor refuse what they should read.  The grammar is that of       *)
(* doc/pattern-language.md without its sentences in which a path goes on     *)
(* after "-> $", like A->$<-B: those parse refuses (PatternGrammar, loose).  *)
ParseIsExact ==
  Lexed => /\ TypeOK
           /\ \A k \in DOMAIN results : Sentence(Front(text), results[k].tree) \in Language
           /\ outcome = "error" => text \notin Viable
=============================================================================
