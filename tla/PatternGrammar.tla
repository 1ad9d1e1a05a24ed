---------------------------- MODULE PatternGrammar ----------------------------
(***************************************************************************)
(* The sentences of the pattern language: what the parser is checked against *)
(* and where the patterns of the other checks come from.                     *)
(***************************************************************************)
EXTENDS PatternTree, Integers, SequencesExt

CONSTANTS Tokens,      \* what the lexer can return before the end of the text
          MaxLength    \* bound: tokens of a text before its end

Token(type, content) == [type |-> type, content |-> content]
Stop == Token("STOP", "")
Symbol == [QOM |-> "+", QZM |-> "*", QZO |-> "?"]

Keys  == {"KEY", "CKEY", "SCKEY"}
Marks == {"QOM", "QZM", "QZO", "LPAREN", "RPAREN", "SEP", "END", "ALT", "BAD"}

(* A key carries its leaf of the tree and an arrow its port. *)
ASSUME TokensAssumption ==
  /\ \A t \in Tokens :
       /\ t = Token(t.type, t.content)
       /\ t.type \in Keys \cup {"NEXT", "PREC"} \cup Marks
       /\ t.type \in Keys => t.content.op \in {"KEY", "CKEY"}
       /\ t.type \in Marks => t.content = ""
  /\ MaxLength \in Nat \ {0}

-----------------------------------------------------------------------------
(***************************************************************************)
(* The grammar of doc/pattern-language.md, with the alternatives described   *)
(* there, as sets of sentences: a sentence is a text and its tree.  Level n  *)
(* has the sentences of n tokens of each nonterminal; `plain` is a seq that  *)
(* does not begin with a boundary, `list` the inside of parentheses.         *)
(*                                                                          *)
(* With loose, any seq may follow an arrow, as the document says.  Without,  *)
(* a boundary that follows -> ends the path, as in the code (the early       *)
(* return of parseSeq): A->$<-B is then no sentence, though the document     *)
(* derives it (README, "Divergences"; PatternParser_documented.cfg).         *)
(***************************************************************************)
Sentence(words, tree) == [text |-> words, tree |-> tree]
TokensOf(types) == {t \in Tokens : t.type \in types}
QuantifierTokens == TokensOf({"QOM", "QZM", "QZO"})

Alone(types) == {Sentence(<<t>>, t.content) : t \in TokensOf(types)}
Boundary     == {Sentence(<<t>>, END) : t \in TokensOf({"END"})}

Quantified(body, q) == Sentence(Append(body.text, q), QUANTIFIED(body.tree, Symbol[q.type]))
InParentheses(l) == Sentence(<<Token("LPAREN", "")>> \o l.text \o <<Token("RPAREN", "")>>, GROUP(l.tree))
RepeatedKeys     == {Quantified(k, q) : k \in Alone({"KEY"}), q \in QuantifierTokens}
Repetitions(groups) == {Quantified(g, q) : g \in groups, q \in QuantifierTokens}
Groups(lists)    == {InParentheses(l) : l \in lists}
Alternatives(lists) == {l \in lists : Len(l.tree) > 1}

Around(l, t, r) == l.text \o <<t>> \o r.text
Chained(l, t, r) ==
  Sentence(Around(l, t, r), IF t.type = "NEXT" THEN NEXT(l.tree, r.tree, t.content)
                                               ELSE PREC(l.tree, r.tree, t.content))
Links(type, lefts, rights) == {Chained(l, t, r) : l \in lefts, t \in TokensOf({type}), r \in rights}
Branches(lists, seqs) ==
  {Sentence(Around(l, t, r), Append(l.tree, r.tree)) : l \in lists, t \in TokensOf({"ALT"}), r \in seqs}
Queries(seqs, queries) ==
  {Sentence(Around(l, t, r), SEP(l.tree, r.tree)) : l \in seqs, t \in TokensOf({"SEP"}), r \in queries}
Separated(seqs) == {Sentence(Append(s.text, t), s.tree) : s \in seqs, t \in TokensOf({"SEP"})}

NoSentences == [exp |-> {}, plain |-> {}, seq |-> {}, rseq |-> {}, list |-> {}, query |-> {}]

(* The nonterminals of level n over the levels below it. *)
Lower(levels, n, k) == IF k \in 1 .. n - 1 THEN levels[k] ELSE NoSentences
Splits(n) == 1 .. n - 2
ExpAt(levels, n) ==
  (IF n = 1 THEN Alone(Keys) ELSE {})
    \cup (IF n = 2 THEN RepeatedKeys ELSE {})
    \cup Repetitions(Groups(Lower(levels, n, n - 3).list))
    \cup Groups(Alternatives(Lower(levels, n, n - 2).list))
BackwardsAt(levels, n, exp) ==
  exp \cup UNION {Links("PREC", Lower(levels, n, i).exp, Lower(levels, n, n - 1 - i).rseq) : i \in Splits(n)}
PlainAt(levels, n, loose, backwards) ==
  LET after(s) == IF loose THEN s.seq ELSE s.plain
  IN  backwards
        \cup Links("NEXT", Lower(levels, n, n - 2).exp, Boundary)
        \cup UNION {Links("NEXT", Lower(levels, n, i).exp, after(Lower(levels, n, n - 1 - i))) : i \in Splits(n)}
RseqAt(levels, n, backwards) == backwards \cup Links("PREC", Lower(levels, n, n - 2).exp, Boundary)
SeqAt(levels, n, plain) == plain \cup Links("PREC", Boundary, Lower(levels, n, n - 2).rseq)
ListAt(levels, n, seq) ==
  {Sentence(s.text, <<s.tree>>) : s \in seq}
    \cup UNION {Branches(Lower(levels, n, i).list, Lower(levels, n, n - 1 - i).seq) : i \in Splits(n)}
QueryAt(levels, n, seq) ==
  seq \cup Separated(Lower(levels, n, n - 1).seq)
      \cup UNION {Queries(Lower(levels, n, i).seq, Lower(levels, n, n - 1 - i).query) : i \in Splits(n)}

Level(levels, n, loose) ==
  LET exp       == ExpAt(levels, n)
      backwards == BackwardsAt(levels, n, exp)
      plain     == PlainAt(levels, n, loose, backwards)
      seq       == SeqAt(levels, n, plain)
  IN  [exp |-> exp, plain |-> plain, seq |-> seq, rseq |-> RseqAt(levels, n, backwards),
       list |-> ListAt(levels, n, seq), query |-> QueryAt(levels, n, seq)]

Levels(loose) == FoldLeft(LAMBDA l, n : Append(l, Level(l, n, loose)), <<>>, [n \in 1 .. MaxLength |-> n])
QueriesOf(levels) == UNION {levels[n].query : n \in 1 .. MaxLength}
=============================================================================
