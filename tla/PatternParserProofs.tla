------------------------- MODULE PatternParserProofs -------------------------
(***************************************************************************)
(* Theorems about PatternParser for every set of tokens and every length:    *)
(* the recursive descent reads the sentences of the grammar and nothing     *)
(* else, and what RandomExpressionGenerator draws is one of them.           *)
(* The grammar is turned into spans of a word, which the productions join    *)
(* (soundness) and cut (completeness); the stack of the parser is read as a  *)
(* path of such spans, down to the start of the word and on to its end.      *)
(***************************************************************************)
EXTENDS RandomExpressionGenerator, SequenceTheorems, WellFoundedInduction, TLAPS

-----------------------------------------------------------------------------
(* A nonempty set of naturals has a least element. *)
LEMMA Least ==
  ASSUME NEW S, S \subseteq Nat, S # {}
  PROVE  \E x \in S : \A y \in S : x <= y
<1> DEFINE R == {ss \in Nat \X Nat : ss[1] < ss[2]}
<1>1. IsWellFoundedOn(R, Nat)
  BY NatLessThanWellFounded DEF OpToRel
<1>2. PICK x \in S : \A y \in S : ~ (<<y, x>> \in R)
  <2> HIDE DEF R
  <2>1. QED
    BY <1>1, WFMin
<1>3. ASSUME NEW y \in S PROVE x <= y
  <2>1. ~ (<<y, x>> \in R)
    BY <1>2
  <2>2. ~ (y < x)
    BY <2>1
  <2>3. QED
    BY <2>2
<1>4. QED
  BY <1>3

-----------------------------------------------------------------------------
(* The grammar, one nonterminal at a time.                                  *)
Nonterminals == {"exp", "plain", "seq", "rseq", "list", "query"}

(* What GrammarAssumption says of each nonterminal of a level. *)
LEMMA LevelOf ==
  ASSUME NEW n \in 1 .. MaxLength
  PROVE  /\ Grammar[n].exp = ExpAt(Grammar, n)
         /\ Grammar[n].plain = PlainAt(Grammar, n, FALSE, BackwardsAt(Grammar, n, Grammar[n].exp))
         /\ Grammar[n].seq = SeqAt(Grammar, n, Grammar[n].plain)
         /\ Grammar[n].rseq = RseqAt(Grammar, n, BackwardsAt(Grammar, n, Grammar[n].exp))
         /\ Grammar[n].list = ListAt(Grammar, n, Grammar[n].seq)
         /\ Grammar[n].query = QueryAt(Grammar, n, Grammar[n].seq)
<1>1. Grammar[n] = Level(Grammar, n, FALSE)
  BY GrammarAssumption
<1>2. /\ Grammar[n].exp = ExpAt(Grammar, n)
      /\ Grammar[n].plain = PlainAt(Grammar, n, FALSE, BackwardsAt(Grammar, n, Grammar[n].exp))
      /\ Grammar[n].seq = SeqAt(Grammar, n, Grammar[n].plain)
  BY <1>1 DEF Level
<1>3. /\ Grammar[n].rseq = RseqAt(Grammar, n, BackwardsAt(Grammar, n, Grammar[n].exp))
      /\ Grammar[n].list = ListAt(Grammar, n, Grammar[n].seq)
      /\ Grammar[n].query = QueryAt(Grammar, n, Grammar[n].seq)
  BY <1>1 DEF Level
<1>4. QED
  BY <1>2, <1>3

(* A sentence of a lower level, which exists from 1 on. *)
LEMMA LowerOf ==
  ASSUME NEW n \in 1 .. MaxLength, NEW k \in Int, NEW nt \in Nonterminals, NEW s
  PROVE  s \in Lower(Grammar, n, k)[nt] <=> k \in 1 .. n - 1 /\ s \in Grammar[k][nt]
  BY DEF Lower, NoSentences, Nonterminals

(* A sentence is built by one of the productions of its nonterminal. *)
LEMMA ExpCases ==
  ASSUME NEW n \in 1 .. MaxLength, NEW s
  PROVE  s \in Grammar[n].exp <=>
           \/ n = 1 /\ \E t \in TokensOf(Keys) : s = Sentence(<<t>>, t.content)
           \/ n = 2 /\ \E t \in TokensOf({"KEY"}), q \in QuantifierTokens : s = Quantified(Sentence(<<t>>, t.content), q)
           \/ n > 3 /\ \E l \in Grammar[n - 3].list, q \in QuantifierTokens : s = Quantified(InParentheses(l), q)
           \/ n > 2 /\ \E l \in Grammar[n - 2].list : Len(l.tree) > 1 /\ s = InParentheses(l)
<1> DEFINE three == Lower(Grammar, n, n - 3).list
           two == Lower(Grammar, n, n - 2).list
<1>1. \A l : l \in three <=> n > 3 /\ l \in Grammar[n - 3].list
  BY LowerOf DEF Nonterminals
<1>2. \A l : l \in two <=> n > 2 /\ l \in Grammar[n - 2].list
  BY LowerOf DEF Nonterminals
<1>3. Grammar[n].exp = ExpAt(Grammar, n)
  BY LevelOf
<1>4. s \in ExpAt(Grammar, n) <=>
        \/ n = 1 /\ s \in Alone(Keys)
        \/ n = 2 /\ s \in RepeatedKeys
        \/ s \in Repetitions(Groups(three))
        \/ s \in Groups(Alternatives(two))
  BY DEF ExpAt
<1> HIDE DEF three, two
<1>5. s \in Repetitions(Groups(three)) <=> \E l \in three, q \in QuantifierTokens : s = Quantified(InParentheses(l), q)
  BY DEF Repetitions, Groups
<1>6. s \in Groups(Alternatives(two)) <=> \E l \in two : Len(l.tree) > 1 /\ s = InParentheses(l)
  BY DEF Groups, Alternatives
<1>7. s \in Alone(Keys) <=> \E t \in TokensOf(Keys) : s = Sentence(<<t>>, t.content)
  BY DEF Alone
<1>8. s \in RepeatedKeys
        <=> \E t \in TokensOf({"KEY"}), q \in QuantifierTokens : s = Quantified(Sentence(<<t>>, t.content), q)
  <2>1. s \in RepeatedKeys <=> \E k \in Alone({"KEY"}), q \in QuantifierTokens : s = Quantified(k, q)
    BY DEF RepeatedKeys
  <2>2. \A k : k \in Alone({"KEY"}) <=> \E t \in TokensOf({"KEY"}) : k = Sentence(<<t>>, t.content)
    BY DEF Alone
  <2>3. QED
    BY <2>1, <2>2, Zenon
<1>9. (\E l \in three, q \in QuantifierTokens : s = Quantified(InParentheses(l), q))
        <=> n > 3 /\ \E l \in Grammar[n - 3].list, q \in QuantifierTokens : s = Quantified(InParentheses(l), q)
  BY <1>1, Zenon
<1>10. (\E l \in two : Len(l.tree) > 1 /\ s = InParentheses(l))
        <=> n > 2 /\ \E l \in Grammar[n - 2].list : Len(l.tree) > 1 /\ s = InParentheses(l)
  BY <1>2, Zenon
<1>11. QED
  BY <1>3, <1>4, <1>5, <1>6, <1>7, <1>8, <1>9, <1>10

(* A link is built of its two sides and an arrow. *)
LEMMA LinkCases ==
  ASSUME NEW type, NEW lefts, NEW rights, NEW s
  PROVE  s \in Links(type, lefts, rights) <=> \E l \in lefts, t \in TokensOf({type}), r \in rights : s = Chained(l, t, r)
  BY DEF Links

(* A boundary is one END. *)
LEMMA BoundaryCases ==
  ASSUME NEW s
  PROVE  s \in Boundary <=> \E t \in TokensOf({"END"}) : s = Sentence(<<t>>, END)
  BY DEF Boundary

(* Both sides of a split are lower levels. *)
LEMMA SplitOf ==
  ASSUME NEW n \in 1 .. MaxLength, NEW i \in Splits(n), NEW nt \in Nonterminals
  PROVE  Lower(Grammar, n, i)[nt] = Grammar[i][nt] /\ Lower(Grammar, n, n - 1 - i)[nt] = Grammar[n - 1 - i][nt]
  BY DEF Lower, Splits

(* The expressions and the chains of PREC. *)
LEMMA BackwardsCases ==
  ASSUME NEW n \in 1 .. MaxLength, NEW s
  PROVE  s \in BackwardsAt(Grammar, n, Grammar[n].exp) <=>
           \/ s \in Grammar[n].exp
           \/ \E i \in Splits(n) : s \in Links("PREC", Grammar[i].exp, Grammar[n - 1 - i].rseq)
<1>1. \A i \in Splits(n) : Lower(Grammar, n, i).exp = Grammar[i].exp /\ Lower(Grammar, n, n - 1 - i).rseq = Grammar[n - 1 - i].rseq
  BY SplitOf DEF Nonterminals
<1>2. s \in BackwardsAt(Grammar, n, Grammar[n].exp) <=>
        \/ s \in Grammar[n].exp
        \/ \E i \in Splits(n) : s \in Links("PREC", Lower(Grammar, n, i).exp, Lower(Grammar, n, n - 1 - i).rseq)
  BY DEF BackwardsAt
<1>3. QED
  BY <1>1, <1>2, Zenon

(* The sequences that do not begin with a boundary. *)
LEMMA PlainCases ==
  ASSUME NEW n \in 1 .. MaxLength, NEW s
  PROVE  s \in Grammar[n].plain <=>
           \/ s \in Grammar[n].exp
           \/ \E i \in Splits(n) : s \in Links("PREC", Grammar[i].exp, Grammar[n - 1 - i].rseq)
           \/ n > 2 /\ s \in Links("NEXT", Grammar[n - 2].exp, Boundary)
           \/ \E i \in Splits(n) : s \in Links("NEXT", Grammar[i].exp, Grammar[n - 1 - i].plain)
<1>1. \A i \in Splits(n) : Lower(Grammar, n, i).exp = Grammar[i].exp /\ Lower(Grammar, n, n - 1 - i).plain = Grammar[n - 1 - i].plain
  BY SplitOf DEF Nonterminals
<1>2. s \in Grammar[n].plain <=>
        \/ s \in BackwardsAt(Grammar, n, Grammar[n].exp)
        \/ s \in Links("NEXT", Lower(Grammar, n, n - 2).exp, Boundary)
        \/ \E i \in Splits(n) : s \in Links("NEXT", Lower(Grammar, n, i).exp, Lower(Grammar, n, n - 1 - i).plain)
  BY LevelOf DEF PlainAt
<1>3. s \in Links("NEXT", Lower(Grammar, n, n - 2).exp, Boundary)
        <=> n > 2 /\ s \in Links("NEXT", Grammar[n - 2].exp, Boundary)
  <2>1. \A l : l \in Lower(Grammar, n, n - 2).exp <=> n > 2 /\ l \in Grammar[n - 2].exp
    BY LowerOf DEF Nonterminals
  <2>2. QED
    BY <2>1 DEF Links
<1>4. QED
  BY <1>1, <1>2, <1>3, BackwardsCases, Zenon

(* The sequences after a PREC: they may end at a boundary. *)
LEMMA RseqCases ==
  ASSUME NEW n \in 1 .. MaxLength, NEW s
  PROVE  s \in Grammar[n].rseq <=>
           \/ s \in Grammar[n].exp
           \/ \E i \in Splits(n) : s \in Links("PREC", Grammar[i].exp, Grammar[n - 1 - i].rseq)
           \/ n > 2 /\ s \in Links("PREC", Grammar[n - 2].exp, Boundary)
<1>1. s \in Grammar[n].rseq <=>
        \/ s \in BackwardsAt(Grammar, n, Grammar[n].exp)
        \/ s \in Links("PREC", Lower(Grammar, n, n - 2).exp, Boundary)
  BY LevelOf DEF RseqAt
<1>2. \A l : l \in Lower(Grammar, n, n - 2).exp <=> n > 2 /\ l \in Grammar[n - 2].exp
  BY LowerOf DEF Nonterminals
<1>3. s \in Links("PREC", Lower(Grammar, n, n - 2).exp, Boundary)
        <=> n > 2 /\ s \in Links("PREC", Grammar[n - 2].exp, Boundary)
  BY <1>2 DEF Links
<1>4. QED
  BY <1>1, <1>3, BackwardsCases, Zenon

(* All sequences: the plain ones, and those from a boundary. *)
LEMMA SeqCases ==
  ASSUME NEW n \in 1 .. MaxLength, NEW s
  PROVE  s \in Grammar[n].seq <=>
           \/ s \in Grammar[n].plain
           \/ n > 2 /\ s \in Links("PREC", Boundary, Grammar[n - 2].rseq)
<1>1. s \in Grammar[n].seq <=>
        \/ s \in Grammar[n].plain
        \/ s \in Links("PREC", Boundary, Lower(Grammar, n, n - 2).rseq)
  BY LevelOf DEF SeqAt
<1>2. \A l : l \in Lower(Grammar, n, n - 2).rseq <=> n > 2 /\ l \in Grammar[n - 2].rseq
  BY LowerOf DEF Nonterminals
<1>3. s \in Links("PREC", Boundary, Lower(Grammar, n, n - 2).rseq)
        <=> n > 2 /\ s \in Links("PREC", Boundary, Grammar[n - 2].rseq)
  BY <1>2 DEF Links
<1>4. QED
  BY <1>1, <1>3, Zenon

(* The insides of parentheses: one sequence, or one more. *)
LEMMA ListCases ==
  ASSUME NEW n \in 1 .. MaxLength, NEW s
  PROVE  s \in Grammar[n].list <=>
           \/ \E u \in Grammar[n].seq : s = Sentence(u.text, <<u.tree>>)
           \/ \E i \in Splits(n) : \E l \in Grammar[i].list, t \in TokensOf({"ALT"}), r \in Grammar[n - 1 - i].seq :
                 s = Sentence(Around(l, t, r), Append(l.tree, r.tree))
<1>1. \A i \in Splits(n) : Lower(Grammar, n, i).list = Grammar[i].list /\ Lower(Grammar, n, n - 1 - i).seq = Grammar[n - 1 - i].seq
  BY SplitOf DEF Nonterminals
<1>2. s \in Grammar[n].list <=>
        \/ \E u \in Grammar[n].seq : s = Sentence(u.text, <<u.tree>>)
        \/ \E i \in Splits(n) : s \in Branches(Lower(Grammar, n, i).list, Lower(Grammar, n, n - 1 - i).seq)
  <2>1. s \in Grammar[n].list <=> s \in ListAt(Grammar, n, Grammar[n].seq)
    BY LevelOf
  <2> DEFINE seqs == Grammar[n].seq
  <2> HIDE DEF seqs
  <2>2. s \in ListAt(Grammar, n, seqs) <=>
          \/ s \in {Sentence(u.text, <<u.tree>>) : u \in seqs}
          \/ s \in UNION {Branches(Lower(Grammar, n, i).list, Lower(Grammar, n, n - 1 - i).seq) : i \in Splits(n)}
    BY DEF ListAt
  <2>3. s \in {Sentence(u.text, <<u.tree>>) : u \in seqs} <=> \E u \in seqs : s = Sentence(u.text, <<u.tree>>)
    OBVIOUS
  <2>4. s \in UNION {Branches(Lower(Grammar, n, i).list, Lower(Grammar, n, n - 1 - i).seq) : i \in Splits(n)}
          <=> \E i \in Splits(n) : s \in Branches(Lower(Grammar, n, i).list, Lower(Grammar, n, n - 1 - i).seq)
    OBVIOUS
  <2>5. QED
    BY <2>1, <2>2, <2>3, <2>4 DEF seqs
<1>3. \A i \in Splits(n) :
        s \in Branches(Grammar[i].list, Grammar[n - 1 - i].seq) <=>
          \E l \in Grammar[i].list, t \in TokensOf({"ALT"}), r \in Grammar[n - 1 - i].seq :
            s = Sentence(Around(l, t, r), Append(l.tree, r.tree))
  BY DEF Branches
<1>4. QED
  BY <1>1, <1>2, <1>3, Zenon

(* The queries: a sequence, with more behind a SEP, or with a SEP at its    *)
(* end.                                                                     *)
LEMMA QueryCases ==
  ASSUME NEW n \in 1 .. MaxLength, NEW s
  PROVE  s \in Grammar[n].query <=>
           \/ s \in Grammar[n].seq
           \/ \E i \in Splits(n) : \E l \in Grammar[i].seq, t \in TokensOf({"SEP"}), r \in Grammar[n - 1 - i].query :
                 s = Sentence(Around(l, t, r), SEP(l.tree, r.tree))
           \/ n > 1 /\ \E u \in Grammar[n - 1].seq, t \in TokensOf({"SEP"}) : s = Sentence(Append(u.text, t), u.tree)
<1>1. \A i \in Splits(n) : Lower(Grammar, n, i).seq = Grammar[i].seq /\ Lower(Grammar, n, n - 1 - i).query = Grammar[n - 1 - i].query
  BY SplitOf DEF Nonterminals
<1>2. s \in Grammar[n].query <=>
        \/ s \in Grammar[n].seq
        \/ \E i \in Splits(n) : s \in Queries(Lower(Grammar, n, i).seq, Lower(Grammar, n, n - 1 - i).query)
        \/ \E u \in Lower(Grammar, n, n - 1).seq, t \in TokensOf({"SEP"}) : s = Sentence(Append(u.text, t), u.tree)
  <2>1. s \in Grammar[n].query <=> s \in QueryAt(Grammar, n, Grammar[n].seq)
    BY LevelOf
  <2> DEFINE seqs == Grammar[n].seq
  <2> HIDE DEF seqs
  <2>2. s \in QueryAt(Grammar, n, seqs) <=>
          \/ s \in seqs
          \/ s \in UNION {Queries(Lower(Grammar, n, i).seq, Lower(Grammar, n, n - 1 - i).query) : i \in Splits(n)}
          \/ s \in Separated(Lower(Grammar, n, n - 1).seq)
    BY DEF QueryAt
  <2>3. s \in Separated(Lower(Grammar, n, n - 1).seq)
          <=> \E u \in Lower(Grammar, n, n - 1).seq, t \in TokensOf({"SEP"}) : s = Sentence(Append(u.text, t), u.tree)
    BY DEF Separated
  <2>4. s \in UNION {Queries(Lower(Grammar, n, i).seq, Lower(Grammar, n, n - 1 - i).query) : i \in Splits(n)}
          <=> \E i \in Splits(n) : s \in Queries(Lower(Grammar, n, i).seq, Lower(Grammar, n, n - 1 - i).query)
    OBVIOUS
  <2>5. QED
    BY <2>1, <2>2, <2>3, <2>4 DEF seqs
<1>3. \A i \in Splits(n) :
        s \in Queries(Grammar[i].seq, Grammar[n - 1 - i].query) <=>
          \E l \in Grammar[i].seq, t \in TokensOf({"SEP"}), r \in Grammar[n - 1 - i].query :
            s = Sentence(Around(l, t, r), SEP(l.tree, r.tree))
  BY DEF Queries
<1>4. \A u : u \in Lower(Grammar, n, n - 1).seq <=> n > 1 /\ u \in Grammar[n - 1].seq
  BY LowerOf DEF Nonterminals
<1>5. QED
  BY <1>1, <1>2, <1>3, <1>4, Zenon

-----------------------------------------------------------------------------
(* What every sentence looks like: the tokens of its text, how many, the    *)
(* first one, and the kind of tree.                                         *)
Alphabet == Tokens \cup {Stop, Token("LPAREN", ""), Token("RPAREN", "")}
Letters  == {t \in Alphabet : t.type \notin {"STOP", "BAD"}}
SeqTrees == {s.tree : s \in UNION {Grammar[k].seq : k \in 1 .. MaxLength}}

(* What every sentence of n tokens looks like, and its tree. *)
ProperText(n, nt, s) ==
  /\ s.text \in Seq(Letters) /\ Len(s.text) = n
  /\ nt \in {"exp", "plain", "rseq"} => s.text[1].type # "END"

ProperTree(nt, s) ==
  /\ nt = "list" => s.tree \in Seq(SeqTrees) /\ s.tree # <<>>
  /\ nt # "list" => s.tree # NoTree
  /\ nt = "exp" => s.tree # END

Proper(n) == \A nt \in Nonterminals : \A s \in Grammar[n][nt] : ProperText(n, nt, s) /\ ProperTree(nt, s)

(* A token that a production names is a letter. *)
LEMMA TokenIsLetter ==
  ASSUME NEW types, NEW t \in TokensOf(types), "BAD" \notin types
  PROVE  t \in Letters /\ t.type \in types
  BY TokensAssumption DEF TokensOf, Letters, Alphabet, Keys, Marks

(* The type of a token, whatever its content. *)
LEMMA TokenType == \A type, content : Token(type, content).type = type
  BY DEF Token

(* MaxLength is positive. *)
LEMMA LengthBound == MaxLength \in Nat \ {0}
  BY TokensAssumption

(* The two parentheses are letters. *)
LEMMA ParensAreLetters == Token("LPAREN", "") \in Letters /\ Token("RPAREN", "") \in Letters
  BY DEF Letters, Alphabet, Token

(* A text around a token: its length, its tokens and the first one. *)
LEMMA AroundProper ==
  ASSUME NEW L, NEW u \in Seq(L), NEW t \in L, NEW v \in Seq(L)
  PROVE  /\ u \o <<t>> \o v \in Seq(L)
         /\ Len(u \o <<t>> \o v) = Len(u) + 1 + Len(v)
         /\ \A i \in 1 .. Len(u) : (u \o <<t>> \o v)[i] = u[i]
         /\ (u \o <<t>> \o v)[Len(u) + 1] = t
         /\ \A i \in 1 .. Len(v) : (u \o <<t>> \o v)[Len(u) + 1 + i] = v[i]
<1> DEFINE one == <<t>>
<1>1. one \in Seq(L) /\ Len(one) = 1 /\ one[1] = t
  OBVIOUS
<1> HIDE DEF one
<1> DEFINE left == u \o one
<1>2. left \in Seq(L) /\ Len(left) = Len(u) + 1 /\ (\A i \in 1 .. Len(u) : left[i] = u[i]) /\ left[Len(u) + 1] = t
  <2>1. /\ left \in Seq(L) /\ Len(left) = Len(u) + Len(one)
        /\ \A i \in 1 .. Len(u) + Len(one) : left[i] = IF i <= Len(u) THEN u[i] ELSE one[i - Len(u)]
    BY <1>1, ConcatProperties
  <2>2. Len(u) \in Nat
    OBVIOUS
  <2>3. QED
    BY <1>1, <2>1, <2>2
<1> HIDE DEF left
<1>3. /\ left \o v \in Seq(L) /\ Len(left \o v) = Len(left) + Len(v)
      /\ \A i \in 1 .. Len(left) + Len(v) : (left \o v)[i] = IF i <= Len(left) THEN left[i] ELSE v[i - Len(left)]
  BY <1>2, ConcatProperties
<1>4. Len(u) \in Nat /\ Len(v) \in Nat
  OBVIOUS
<1>5. \A i \in 1 .. Len(v) : (left \o v)[Len(u) + 1 + i] = v[i]
  BY <1>2, <1>3, <1>4
<1>6. \A i \in 1 .. Len(u) + 1 : (left \o v)[i] = left[i]
  BY <1>2, <1>3, <1>4
<1>7. QED
  BY <1>2, <1>3, <1>4, <1>5, <1>6 DEF left, one

(* ... when they are sentences. *)
LEMMA ProperAround ==
  ASSUME NEW i \in Nat \ {0}, NEW j \in Nat \ {0}, NEW l, NEW r, NEW t \in Letters,
         l.text \in Seq(Letters), Len(l.text) = i, r.text \in Seq(Letters), Len(r.text) = j
  PROVE  /\ Around(l, t, r) \in Seq(Letters)
         /\ Len(Around(l, t, r)) = i + 1 + j
         /\ Around(l, t, r)[1] = l.text[1]
<1> DEFINE u == l.text
           v == r.text
<1>1. u \in Seq(Letters) /\ v \in Seq(Letters) /\ Len(u) = i /\ Len(v) = j
  OBVIOUS
<1> HIDE DEF u, v
<1>2. /\ u \o <<t>> \o v \in Seq(Letters)
      /\ Len(u \o <<t>> \o v) = Len(u) + 1 + Len(v)
      /\ \A k \in 1 .. Len(u) : (u \o <<t>> \o v)[k] = u[k]
  <2>1. ASSUME NEW p \in Seq(Letters), NEW q \in Seq(Letters)
        PROVE  /\ p \o <<t>> \o q \in Seq(Letters)
               /\ Len(p \o <<t>> \o q) = Len(p) + 1 + Len(q)
               /\ \A k \in 1 .. Len(p) : (p \o <<t>> \o q)[k] = p[k]
    BY AroundProper
  <2>2. QED
    BY <1>1, <2>1
<1>3. (u \o <<t>> \o v)[1] = u[1]
  BY <1>1, <1>2
<1>4. QED
  BY <1>1, <1>2, <1>3 DEF u, v, Around

(* A text and one more letter. *)
LEMMA ProperAppend ==
  ASSUME NEW i \in Nat \ {0}, NEW u \in Seq(Letters), NEW t \in Letters, Len(u) = i
  PROVE  /\ Append(u, t) \in Seq(Letters)
         /\ Len(Append(u, t)) = i + 1
         /\ Append(u, t)[1] = u[1]
  BY AppendProperties

(* A link of two proper sides is proper. *)
LEMMA ProperLink ==
  ASSUME NEW n \in 1 .. MaxLength, NEW i \in Splits(n), NEW l, NEW r, NEW type \in {"NEXT", "PREC"}, NEW t \in TokensOf({type}),
         l.text \in Seq(Letters), Len(l.text) = i, r.text \in Seq(Letters), Len(r.text) = n - 1 - i,
         NEW nt \in Nonterminals \ {"list", "exp"}, nt \in {"exp", "plain", "rseq"} => l.text[1].type # "END"
  PROVE  ProperText(n, nt, Chained(l, t, r)) /\ ProperTree(nt, Chained(l, t, r))
<1>1. i \in Nat \ {0} /\ n - 1 - i \in Nat \ {0} /\ n = i + 1 + (n - 1 - i)
  BY LengthBound DEF Splits
<1>2. t \in Letters /\ t.type = type
  BY TokenIsLetter
<1>3. /\ Around(l, t, r) \in Seq(Letters)
      /\ Len(Around(l, t, r)) = i + 1 + (n - 1 - i)
      /\ Around(l, t, r)[1] = l.text[1]
  <2> DEFINE j == n - 1 - i
  <2>1. j \in Nat \ {0} /\ i \in Nat \ {0} /\ t \in Letters /\ Len(r.text) = j
    BY <1>1, <1>2
  <2> HIDE DEF j
  <2>2. /\ Around(l, t, r) \in Seq(Letters)
        /\ Len(Around(l, t, r)) = i + 1 + j
        /\ Around(l, t, r)[1] = l.text[1]
    BY <2>1, ProperAround
  <2>3. QED
    BY <2>2 DEF j
<1>4. Chained(l, t, r).text = Around(l, t, r)
  BY DEF Chained, Sentence
<1>5. ProperText(n, nt, Chained(l, t, r))
  BY <1>1, <1>3, <1>4 DEF ProperText
<1>6. Chained(l, t, r).tree # NoTree
  BY DEF Chained, Sentence, NEXT, PREC, NoTree
<1>7. QED
  BY <1>5, <1>6 DEF ProperTree

(* Parentheses around a list, with a quantifier or without. *)
LEMMA ProperGroup ==
  ASSUME NEW k \in Nat \ {0}, NEW l, l.text \in Seq(Letters), Len(l.text) = k
  PROVE  /\ InParentheses(l).text \in Seq(Letters)
         /\ Len(InParentheses(l).text) = k + 2
         /\ InParentheses(l).text[1] = Token("LPAREN", "")
         /\ InParentheses(l).text[k + 2] = Token("RPAREN", "")
         /\ \A i \in 1 .. k : InParentheses(l).text[1 + i] = l.text[i]
<1> DEFINE u == l.text
           open == Token("LPAREN", "")
           close == Token("RPAREN", "")
           left == <<open>> \o u
<1>1. u \in Seq(Letters) /\ Len(u) = k /\ open \in Letters /\ close \in Letters
  BY ParensAreLetters
<1> HIDE DEF u, open, close
<1>2. <<open>> \in Seq(Letters) /\ Len(<<open>>) = 1 /\ <<open>>[1] = open
  BY <1>1
<1>3. /\ left \in Seq(Letters) /\ Len(left) = 1 + k
      /\ \A i \in 1 .. 1 + k : left[i] = IF i <= 1 THEN <<open>>[i] ELSE u[i - 1]
  <2> DEFINE one == <<open>>
  <2>1. one \in Seq(Letters) /\ Len(one) = 1
    BY <1>2
  <2> HIDE DEF one
  <2>2. /\ one \o u \in Seq(Letters) /\ Len(one \o u) = Len(one) + Len(u)
        /\ \A i \in 1 .. Len(one) + Len(u) : (one \o u)[i] = IF i <= Len(one) THEN one[i] ELSE u[i - Len(one)]
    BY <1>1, <2>1, ConcatProperties
  <2>3. QED
    BY <1>1, <2>1, <2>2 DEF one
<1>4. left[1] = open /\ \A i \in 1 .. k : left[1 + i] = u[i]
  BY <1>2, <1>3
<1> HIDE DEF left
<1> DEFINE none == << >>
<1>5. /\ left \o <<close>> \in Seq(Letters)
      /\ Len(left \o <<close>>) = k + 2
      /\ \A i \in 1 .. k + 1 : (left \o <<close>>)[i] = left[i]
      /\ (left \o <<close>>)[k + 2] = close
  <2> DEFINE one == <<close>>
  <2>1. one \in Seq(Letters) /\ Len(one) = 1 /\ one[1] = close
    BY <1>1
  <2> HIDE DEF one
  <2>2. /\ left \o one \in Seq(Letters) /\ Len(left \o one) = Len(left) + Len(one)
        /\ \A i \in 1 .. Len(left) + Len(one) : (left \o one)[i] = IF i <= Len(left) THEN left[i] ELSE one[i - Len(left)]
    BY <1>3, <2>1, ConcatProperties
  <2>3. QED
    <3>1. Len(left) = k + 1 /\ Len(one) = 1 /\ \A i \in 1 .. k + 1 : i \in 1 .. k + 2 /\ i <= k + 1
      BY <1>3, <2>1
    <3>2. k + 2 \in 1 .. k + 2 /\ ~ (k + 2 <= k + 1) /\ k + 2 - (k + 1) = 1 /\ (k + 1) + 1 = k + 2
      OBVIOUS
    <3>3. (left \o one)[k + 2] = close
      BY <2>1, <2>2, <3>1, <3>2
    <3>4. QED
      BY <2>2, <3>1, <3>2, <3>3 DEF one
<1>6. InParentheses(l).text = left \o <<close>>
  BY DEF InParentheses, Sentence, left, u, open, close
<1>7. 1 \in 1 .. k + 1 /\ \A i \in 1 .. k : 1 + i \in 1 .. k + 1
  OBVIOUS
<1>8. (left \o <<close>>)[1] = open /\ \A i \in 1 .. k : (left \o <<close>>)[1 + i] = u[i]
  BY <1>4, <1>5, <1>7
<1>9. QED
  BY <1>5, <1>6, <1>8 DEF u, open, close

(* Both sides of a split have at least one token, and fewer than the whole. *)
LEMMA SplitBounds ==
  ASSUME NEW n \in 1 .. MaxLength, NEW i \in Splits(n)
  PROVE  i \in 1 .. n - 1 /\ n - 1 - i \in 1 .. n - 1 /\ i \in Nat \ {0} /\ n - 1 - i \in Nat \ {0}
  BY LengthBound DEF Splits

(* One level, when those below it are proper. *)
LEMMA ProperExp ==
  ASSUME NEW n \in 1 .. MaxLength, \A k \in 1 .. n - 1 : Proper(k), NEW s \in Grammar[n].exp
  PROVE  ProperText(n, "exp", s) /\ ProperTree("exp", s)
<1> USE DEF Nonterminals
<1>1. CASE n = 1 /\ \E t \in TokensOf(Keys) : s = Sentence(<<t>>, t.content)
  <2>1. PICK t \in TokensOf(Keys) : s = Sentence(<<t>>, t.content)
    BY <1>1
  <2>2. t \in Letters /\ t.type \in Keys /\ t.content.op \in {"KEY", "CKEY"}
    BY TokenIsLetter, TokensAssumption DEF Keys, TokensOf
  <2>3. s.text = <<t>> /\ s.tree = t.content
    BY <2>1 DEF Sentence
  <2>4. s.text \in Seq(Letters) /\ Len(s.text) = 1 /\ s.text[1] = t
    BY <2>2, <2>3
  <2>5. s.tree # NoTree /\ s.tree # END
    BY <2>2, <2>3 DEF NoTree, END
  <2>6. QED
    BY <1>1, <2>2, <2>4, <2>5 DEF ProperText, ProperTree, Keys
<1>2. CASE n = 2 /\ \E t \in TokensOf({"KEY"}), q \in QuantifierTokens : s = Quantified(Sentence(<<t>>, t.content), q)
  <2>1. PICK t \in TokensOf({"KEY"}), q \in QuantifierTokens : s = Quantified(Sentence(<<t>>, t.content), q)
    BY <1>2
  <2>2. t \in Letters /\ t.type = "KEY" /\ q \in Letters
    BY TokenIsLetter DEF QuantifierTokens
  <2>3. s.text = Append(<<t>>, q) /\ s.tree # NoTree /\ s.tree # END
    BY <2>1 DEF Sentence, Quantified, QUANTIFIED, NoTree, END
  <2>4. Append(<<t>>, q) \in Seq(Letters) /\ Len(Append(<<t>>, q)) = 2 /\ Append(<<t>>, q)[1] = t
    BY <2>2
  <2>5. QED
    BY <1>2, <2>2, <2>3, <2>4 DEF ProperText, ProperTree
<1>3. CASE n > 3 /\ \E l \in Grammar[n - 3].list, q \in QuantifierTokens : s = Quantified(InParentheses(l), q)
  <2>1. PICK l \in Grammar[n - 3].list, q \in QuantifierTokens : s = Quantified(InParentheses(l), q)
    BY <1>3
  <2>2. n - 3 \in 1 .. n - 1 /\ n - 3 \in Nat \ {0} /\ (n - 3) + 2 \in Nat \ {0} /\ (n - 3) + 2 + 1 = n
    BY <1>3, LengthBound
  <2>3. l.text \in Seq(Letters) /\ Len(l.text) = n - 3
    BY <2>2 DEF Proper, ProperText
  <2>4. /\ InParentheses(l).text \in Seq(Letters)
        /\ Len(InParentheses(l).text) = (n - 3) + 2
        /\ InParentheses(l).text[1] = Token("LPAREN", "")
    BY <2>2, <2>3, ProperGroup
  <2>5. q \in Letters
    BY TokenIsLetter DEF QuantifierTokens
  <2>6. s.text = Append(InParentheses(l).text, q) /\ s.tree # NoTree /\ s.tree # END
    BY <2>1 DEF Sentence, Quantified, QUANTIFIED, NoTree, END
  <2>7. s.text \in Seq(Letters) /\ Len(s.text) = (n - 3) + 2 + 1 /\ s.text[1] = Token("LPAREN", "")
    <3> DEFINE m == (n - 3) + 2
               u == InParentheses(l).text
    <3>1. m \in Nat \ {0} /\ u \in Seq(Letters) /\ Len(u) = m
      BY <2>2, <2>4
    <3> HIDE DEF m, u
    <3>2. Append(u, q) \in Seq(Letters) /\ Len(Append(u, q)) = m + 1 /\ Append(u, q)[1] = u[1]
      BY <2>5, <3>1, ProperAppend
    <3>3. QED
      BY <2>4, <2>6, <3>2 DEF m, u
  <2>8. s.text[1].type = "LPAREN" /\ Len(s.text) = n
    BY <2>2, <2>7, TokenType
  <2>9. QED
    BY <2>6, <2>7, <2>8 DEF ProperText, ProperTree
<1>4. CASE n > 2 /\ \E l \in Grammar[n - 2].list : Len(l.tree) > 1 /\ s = InParentheses(l)
  <2>1. PICK l \in Grammar[n - 2].list : s = InParentheses(l)
    BY <1>4
  <2>2. n - 2 \in 1 .. n - 1 /\ n - 2 \in Nat \ {0} /\ (n - 2) + 2 = n
    BY <1>4, LengthBound
  <2>3. l.text \in Seq(Letters) /\ Len(l.text) = n - 2
    BY <2>2 DEF Proper, ProperText
  <2>4. /\ s.text \in Seq(Letters)
        /\ Len(s.text) = n
        /\ s.text[1] = Token("LPAREN", "")
    BY <2>1, <2>2, <2>3, ProperGroup
  <2>5. s.tree # NoTree /\ s.tree # END
    BY <2>1 DEF Sentence, InParentheses, GROUP, NoTree, END
  <2>6. s.text[1].type = "LPAREN"
    BY <2>4, TokenType
  <2>7. QED
    BY <2>4, <2>5, <2>6 DEF ProperText, ProperTree
<1>5. QED
  BY <1>1, <1>2, <1>3, <1>4, ExpCases

(* A link between what is proper. *)
AllProper(sentences, n) == \A l \in sentences : l.text \in Seq(Letters) /\ Len(l.text) = n
Unbounded(sentences) == \A l \in sentences : l.text[1].type # "END"

(* Every link of two proper sets is proper. *)
LEMMA ProperLinks ==
  ASSUME NEW n \in 1 .. MaxLength, NEW i \in Splits(n), NEW type \in {"NEXT", "PREC"}, NEW lefts, NEW rights,
         AllProper(lefts, i), AllProper(rights, n - 1 - i), NEW nt \in Nonterminals \ {"list", "exp"},
         nt \in {"plain", "rseq"} => Unbounded(lefts),
         NEW s \in Links(type, lefts, rights)
  PROVE  ProperText(n, nt, s) /\ ProperTree(nt, s)
<1>1. PICK l \in lefts, t \in TokensOf({type}), r \in rights : s = Chained(l, t, r)
  BY LinkCases
<1>2. nt \in {"exp", "plain", "rseq"} => l.text[1].type # "END"
  BY <1>1 DEF Unbounded
<1>3. l.text \in Seq(Letters) /\ Len(l.text) = i /\ r.text \in Seq(Letters) /\ Len(r.text) = n - 1 - i
  BY <1>1 DEF AllProper
<1>4. ProperText(n, nt, Chained(l, t, r)) /\ ProperTree(nt, Chained(l, t, r))
  BY <1>1, <1>2, <1>3, ProperLink
<1>5. QED
  BY <1>1, <1>4

(* A boundary is one letter END. *)
LEMMA ProperBoundary ==
  ASSUME NEW e \in Boundary
  PROVE  e.text \in Seq(Letters) /\ Len(e.text) = 1 /\ e.text[1].type = "END" /\ e.tree = END
<1>1. PICK t \in TokensOf({"END"}) : e = Sentence(<<t>>, END)
  BY BoundaryCases
<1>2. t \in Letters /\ t.type = "END"
  BY TokenIsLetter
<1>3. e.text = <<t>> /\ e.tree = END
  BY <1>1 DEF Sentence
<1>4. QED
  BY <1>2, <1>3

(* What the levels below give to a link. *)
LEMMA SidesProper ==
  ASSUME NEW n \in 1 .. MaxLength, \A k \in 1 .. n - 1 : Proper(k), NEW i \in 1 .. n - 1, NEW nt \in Nonterminals
  PROVE  AllProper(Grammar[i][nt], i) /\ (nt \in {"exp", "plain", "rseq"} => Unbounded(Grammar[i][nt]))
  BY DEF Proper, ProperText, AllProper, Unbounded

(* Boundary, as a side of a link. *)
LEMMA BoundaryProper == AllProper(Boundary, 1)
  BY ProperBoundary DEF AllProper

(* The chains of PREC are proper. *)
LEMMA ProperBackwards ==
  ASSUME NEW n \in 1 .. MaxLength, \A k \in 1 .. n - 1 : Proper(k), NEW s, NEW nt \in {"plain", "rseq"},
         \/ s \in Grammar[n].exp
         \/ \E i \in Splits(n) : s \in Links("PREC", Grammar[i].exp, Grammar[n - 1 - i].rseq)
  PROVE  ProperText(n, nt, s) /\ ProperTree(nt, s)
<1>1. CASE s \in Grammar[n].exp
  <2>1. ProperText(n, "exp", s) /\ ProperTree("exp", s)
    BY <1>1, ProperExp
  <2>2. QED
    BY <2>1 DEF ProperText, ProperTree
<1>2. ASSUME NEW i \in Splits(n), s \in Links("PREC", Grammar[i].exp, Grammar[n - 1 - i].rseq)
      PROVE  ProperText(n, nt, s) /\ ProperTree(nt, s)
  <2>1. i \in 1 .. n - 1 /\ n - 1 - i \in 1 .. n - 1
    BY SplitBounds
  <2>2. AllProper(Grammar[i].exp, i) /\ Unbounded(Grammar[i].exp) /\ AllProper(Grammar[n - 1 - i].rseq, n - 1 - i)
    BY <2>1, SidesProper DEF Nonterminals
  <2>3. QED
    BY <1>2, <2>2, ProperLinks DEF Nonterminals
<1>3. QED
  BY <1>1, <1>2

(* ... so are the plain sequences, which do not begin with END, ... *)
LEMMA ProperPlain ==
  ASSUME NEW n \in 1 .. MaxLength, \A k \in 1 .. n - 1 : Proper(k), NEW s \in Grammar[n].plain
  PROVE  ProperText(n, "plain", s) /\ ProperTree("plain", s)
<1>1. CASE \/ s \in Grammar[n].exp
           \/ \E i \in Splits(n) : s \in Links("PREC", Grammar[i].exp, Grammar[n - 1 - i].rseq)
  BY <1>1, ProperBackwards
<1>2. CASE n > 2 /\ s \in Links("NEXT", Grammar[n - 2].exp, Boundary)
  <2>1. n - 2 \in Splits(n) /\ n - 2 \in 1 .. n - 1 /\ n - 1 - (n - 2) = 1
    BY <1>2, LengthBound DEF Splits
  <2>2. AllProper(Grammar[n - 2].exp, n - 2) /\ Unbounded(Grammar[n - 2].exp)
    BY <2>1, SidesProper DEF Nonterminals
  <2>3. QED
    BY <1>2, <2>1, <2>2, BoundaryProper, ProperLinks DEF Nonterminals
<1>3. ASSUME NEW i \in Splits(n), s \in Links("NEXT", Grammar[i].exp, Grammar[n - 1 - i].plain)
      PROVE  ProperText(n, "plain", s) /\ ProperTree("plain", s)
  <2>1. i \in 1 .. n - 1 /\ n - 1 - i \in 1 .. n - 1
    BY SplitBounds
  <2>2. AllProper(Grammar[i].exp, i) /\ Unbounded(Grammar[i].exp) /\ AllProper(Grammar[n - 1 - i].plain, n - 1 - i)
    BY <2>1, SidesProper DEF Nonterminals
  <2>3. QED
    BY <1>3, <2>2, ProperLinks DEF Nonterminals
<1>4. QED
  BY <1>1, <1>2, <1>3, PlainCases

(* ... those after a PREC, ... *)
LEMMA ProperRseq ==
  ASSUME NEW n \in 1 .. MaxLength, \A k \in 1 .. n - 1 : Proper(k), NEW s \in Grammar[n].rseq
  PROVE  ProperText(n, "rseq", s) /\ ProperTree("rseq", s)
<1>1. CASE \/ s \in Grammar[n].exp
           \/ \E i \in Splits(n) : s \in Links("PREC", Grammar[i].exp, Grammar[n - 1 - i].rseq)
  BY <1>1, ProperBackwards
<1>2. CASE n > 2 /\ s \in Links("PREC", Grammar[n - 2].exp, Boundary)
  <2>1. n - 2 \in Splits(n) /\ n - 2 \in 1 .. n - 1 /\ n - 1 - (n - 2) = 1
    BY <1>2, LengthBound DEF Splits
  <2>2. AllProper(Grammar[n - 2].exp, n - 2) /\ Unbounded(Grammar[n - 2].exp)
    BY <2>1, SidesProper DEF Nonterminals
  <2>3. QED
    BY <1>2, <2>1, <2>2, BoundaryProper, ProperLinks DEF Nonterminals
<1>3. QED
  BY <1>1, <1>2, RseqCases

(* ... the sequences, ... *)
LEMMA ProperSeq ==
  ASSUME NEW n \in 1 .. MaxLength, \A k \in 1 .. n - 1 : Proper(k), NEW s \in Grammar[n].seq, NEW nt \in {"seq", "query"}
  PROVE  ProperText(n, nt, s) /\ ProperTree(nt, s)
<1>1. CASE s \in Grammar[n].plain
  <2>1. ProperText(n, "plain", s) /\ ProperTree("plain", s)
    BY <1>1, ProperPlain
  <2>2. QED
    BY <2>1 DEF ProperText, ProperTree
<1>2. CASE n > 2 /\ s \in Links("PREC", Boundary, Grammar[n - 2].rseq)
  <2>1. 1 \in Splits(n) /\ n - 2 \in 1 .. n - 1 /\ n - 1 - 1 = n - 2
    BY <1>2, LengthBound DEF Splits
  <2>2. AllProper(Grammar[n - 2].rseq, n - 2)
    BY <2>1, SidesProper DEF Nonterminals
  <2>3. QED
    BY <1>2, <2>1, <2>2, BoundaryProper, ProperLinks DEF Nonterminals
<1>3. QED
  BY <1>1, <1>2, SeqCases

(* The tree of a sequence. *)
LEMMA SeqTree ==
  ASSUME NEW n \in 1 .. MaxLength, NEW s \in Grammar[n].seq
  PROVE  s.tree \in SeqTrees
  BY DEF SeqTrees

(* ... the lists, whose tree is the nonempty sequence of their branches, ... *)
LEMMA ProperList ==
  ASSUME NEW n \in 1 .. MaxLength, \A k \in 1 .. n - 1 : Proper(k), NEW s \in Grammar[n].list
  PROVE  ProperText(n, "list", s) /\ ProperTree("list", s)
<1>1. ASSUME NEW u \in Grammar[n].seq, s = Sentence(u.text, <<u.tree>>)
      PROVE  ProperText(n, "list", s) /\ ProperTree("list", s)
  <2>1. ProperText(n, "seq", u)
    BY ProperSeq
  <2>2. s.text = u.text /\ s.tree = <<u.tree>>
    BY <1>1 DEF Sentence
  <2>3. <<u.tree>> \in Seq(SeqTrees) /\ <<u.tree>> # <<>>
    BY SeqTree
  <2>4. QED
    BY <2>1, <2>2, <2>3 DEF ProperText, ProperTree
<1>2. ASSUME NEW i \in Splits(n), NEW l \in Grammar[i].list, NEW t \in TokensOf({"ALT"}), NEW r \in Grammar[n - 1 - i].seq,
             s = Sentence(Around(l, t, r), Append(l.tree, r.tree))
      PROVE  ProperText(n, "list", s) /\ ProperTree("list", s)
  <2> DEFINE j == n - 1 - i
  <2>1. /\ i \in 1 .. n - 1 /\ j \in 1 .. n - 1 /\ i \in Nat \ {0} /\ j \in Nat \ {0} /\ i + 1 + j = n
        /\ j \in 1 .. MaxLength
    BY SplitBounds, LengthBound
  <2>2. l.text \in Seq(Letters) /\ Len(l.text) = i /\ r.text \in Seq(Letters) /\ Len(r.text) = j /\ l.tree \in Seq(SeqTrees)
    BY <2>1 DEF Proper, ProperText, ProperTree, Nonterminals
  <2>3. t \in Letters
    BY TokenIsLetter
  <2>4. r.tree \in SeqTrees
    BY <2>1, SeqTree
  <2> HIDE DEF j
  <2>5. Around(l, t, r) \in Seq(Letters) /\ Len(Around(l, t, r)) = i + 1 + j
    BY <2>1, <2>2, <2>3, ProperAround
  <2>6. Append(l.tree, r.tree) \in Seq(SeqTrees) /\ Append(l.tree, r.tree) # <<>>
    BY <2>2, <2>4, AppendProperties
  <2>7. s.text = Around(l, t, r) /\ s.tree = Append(l.tree, r.tree)
    BY <1>2 DEF Sentence
  <2>8. QED
    BY <2>1, <2>5, <2>6, <2>7 DEF ProperText, ProperTree
<1>3. \/ \E u \in Grammar[n].seq : s = Sentence(u.text, <<u.tree>>)
      \/ \E i \in Splits(n) : \E l \in Grammar[i].list, t \in TokensOf({"ALT"}), r \in Grammar[n - 1 - i].seq :
            s = Sentence(Around(l, t, r), Append(l.tree, r.tree))
  BY ListCases
<1>4. CASE \E u \in Grammar[n].seq : s = Sentence(u.text, <<u.tree>>)
  BY <1>1, <1>4
<1>5. ASSUME NEW i \in Splits(n),
             \E l \in Grammar[i].list, t \in TokensOf({"ALT"}), r \in Grammar[n - 1 - i].seq :
               s = Sentence(Around(l, t, r), Append(l.tree, r.tree))
      PROVE  ProperText(n, "list", s) /\ ProperTree("list", s)
  <2>1. PICK l \in Grammar[i].list, t \in TokensOf({"ALT"}), r \in Grammar[n - 1 - i].seq :
               s = Sentence(Around(l, t, r), Append(l.tree, r.tree))
    BY <1>5
  <2>2. QED
    BY <1>2, <2>1
<1>6. QED
  BY <1>3, <1>4, <1>5

(* ... and the queries. *)
LEMMA ProperQuery ==
  ASSUME NEW n \in 1 .. MaxLength, \A k \in 1 .. n - 1 : Proper(k), NEW s \in Grammar[n].query
  PROVE  ProperText(n, "query", s) /\ ProperTree("query", s)
<1>1. CASE s \in Grammar[n].seq
  BY <1>1, ProperSeq
<1>2. ASSUME NEW i \in Splits(n), NEW l \in Grammar[i].seq, NEW t \in TokensOf({"SEP"}), NEW r \in Grammar[n - 1 - i].query,
             s = Sentence(Around(l, t, r), SEP(l.tree, r.tree))
      PROVE  ProperText(n, "query", s) /\ ProperTree("query", s)
  <2> DEFINE j == n - 1 - i
  <2>1. i \in 1 .. n - 1 /\ j \in 1 .. n - 1 /\ i \in Nat \ {0} /\ j \in Nat \ {0} /\ i + 1 + j = n
    BY SplitBounds, LengthBound
  <2>2. l.text \in Seq(Letters) /\ Len(l.text) = i /\ r.text \in Seq(Letters) /\ Len(r.text) = j
    BY <2>1 DEF Proper, ProperText, Nonterminals
  <2>3. t \in Letters
    BY TokenIsLetter
  <2> HIDE DEF j
  <2>4. Around(l, t, r) \in Seq(Letters) /\ Len(Around(l, t, r)) = i + 1 + j
    BY <2>1, <2>2, <2>3, ProperAround
  <2>5. s.text = Around(l, t, r) /\ s.tree # NoTree
    BY <1>2 DEF Sentence, SEP, NoTree
  <2>6. QED
    BY <2>1, <2>4, <2>5 DEF ProperText, ProperTree
<1>3. ASSUME n > 1, NEW u \in Grammar[n - 1].seq, NEW t \in TokensOf({"SEP"}), s = Sentence(Append(u.text, t), u.tree)
      PROVE  ProperText(n, "query", s) /\ ProperTree("query", s)
  <2> DEFINE m == n - 1
  <2>1. m \in 1 .. n - 1 /\ m \in Nat \ {0} /\ m + 1 = n
    BY <1>3, LengthBound
  <2>2. u.text \in Seq(Letters) /\ Len(u.text) = m /\ u.tree # NoTree
    BY <2>1 DEF Proper, ProperText, ProperTree, Nonterminals
  <2>3. t \in Letters
    BY TokenIsLetter
  <2> HIDE DEF m
  <2>4. Append(u.text, t) \in Seq(Letters) /\ Len(Append(u.text, t)) = m + 1
    BY <2>1, <2>2, <2>3, ProperAppend
  <2>5. s.text = Append(u.text, t) /\ s.tree = u.tree
    BY <1>3 DEF Sentence
  <2>6. QED
    BY <2>1, <2>2, <2>4, <2>5 DEF ProperText, ProperTree
<1>4. QED
  BY <1>1, <1>2, <1>3, QueryCases

(* A level above proper ones is proper. *)
LEMMA ProperLevel ==
  ASSUME NEW n \in 1 .. MaxLength, \A k \in 1 .. n - 1 : Proper(k)
  PROVE  Proper(n)
<1> SUFFICES ASSUME NEW nt \in Nonterminals, NEW s \in Grammar[n][nt]
             PROVE  ProperText(n, nt, s) /\ ProperTree(nt, s)
  BY DEF Proper
<1>1. CASE nt = "exp"
  BY <1>1, ProperExp
<1>2. CASE nt = "plain"
  BY <1>2, ProperPlain
<1>3. CASE nt = "rseq"
  BY <1>3, ProperRseq
<1>4. CASE nt = "seq"
  BY <1>4, ProperSeq
<1>5. CASE nt = "list"
  BY <1>5, ProperList
<1>6. CASE nt = "query"
  BY <1>6, ProperQuery
<1>7. QED
  BY <1>1, <1>2, <1>3, <1>4, <1>5, <1>6 DEF Nonterminals

(* Every level is proper, by the least one that would not be. *)
LEMMA AllLevelsProper == \A n \in 1 .. MaxLength : Proper(n)
<1> DEFINE wrong == {n \in 1 .. MaxLength : ~ Proper(n)}
<1>1. ASSUME wrong # {} PROVE FALSE
  <2>1. PICK n \in wrong : \A k \in wrong : n <= k
    <3>1. wrong \subseteq Nat
      BY LengthBound
    <3> HIDE DEF wrong
    <3>2. QED
      BY <1>1, <3>1, Least
  <2>2. \A k \in 1 .. n - 1 : k \in 1 .. MaxLength /\ ~ (n <= k)
    BY LengthBound
  <2>3. \A k \in 1 .. n - 1 : Proper(k)
    BY <2>1, <2>2
  <2>4. Proper(n)
    BY <2>3, ProperLevel
  <2>5. QED
    BY <2>4
<1>2. QED
  BY <1>1

(* Words and the spans of a word: a sentence between two positions.         *)
Word(w) == w \in Seq(Alphabet) /\ Len(w) <= MaxLength + 1

(* The text u stands at a; a sentence of a set spans a .. b - 1, b being    *)
(* behind it.                                                               *)
Reads(w, a, u) == \A k \in 1 .. Len(u) : w[a - 1 + k] = u[k]
Fits(w, sentences, a, b, tree) ==
  /\ a \in 1 .. Len(w) /\ b \in 1 .. Len(w) /\ a < b
  /\ \E s \in sentences : s.text \in Seq(Letters) /\ Len(s.text) = b - a /\ s.tree = tree /\ Reads(w, a, s.text)
Derives(w, nt, a, b, tree) == Fits(w, Grammar[b - a][nt], a, b, tree)
Spans(w, nt, a, b) == \E tree : Derives(w, nt, a, b, tree)

(* A word has a length, of at most MaxLength tokens and the end. *)
LEMMA WordLength ==
  ASSUME NEW w, Word(w)
  PROVE  Len(w) \in Nat /\ Len(w) <= MaxLength + 1 /\ MaxLength \in Nat
  BY LengthBound DEF Word

(* A letter of a word that is no parenthesis is a token of the lexer. *)
LEMMA TokenAt ==
  ASSUME NEW w, Word(w), NEW m \in 1 .. Len(w), w[m].type \notin {"STOP", "LPAREN", "RPAREN"}
  PROVE  w[m] \in TokensOf({w[m].type})
<1>1. w[m] \in Alphabet
  BY DEF Word
<1>2. Stop.type = "STOP"
  BY TokenType DEF Stop
<1>3. w[m] \in Tokens
  BY <1>1, <1>2, TokenType DEF Alphabet
<1>4. QED
  BY <1>3 DEF TokensOf

(* A parenthesis of a word has no content. *)
LEMMA ParenAt ==
  ASSUME NEW w, Word(w), NEW m \in 1 .. Len(w), w[m].type \in {"LPAREN", "RPAREN"}
  PROVE  w[m] = Token(w[m].type, "")
<1>1. w[m] \in Alphabet
  BY DEF Word
<1>2. CASE w[m] \in Tokens
  <2>1. w[m].type \in Marks
    BY DEF Marks
  <2>2. QED
    BY <1>2, <2>1, TokensAssumption
<1>3. CASE w[m] \in {Token("LPAREN", ""), Token("RPAREN", "")}
  BY <1>3, TokenType
<1>4. w[m] # Stop
  <2>1. Stop.type = "STOP"
    BY TokenType DEF Stop
  <2>2. QED
    BY <2>1
<1>5. QED
  BY <1>1, <1>2, <1>3, <1>4 DEF Alphabet

(* A text around a token in a word. *)
LEMMA ReadsAround ==
  ASSUME NEW w, NEW a \in Nat \ {0}, NEW u \in Seq(Letters), NEW t \in Letters, NEW v \in Seq(Letters)
  PROVE  Reads(w, a, u \o <<t>> \o v) <=> Reads(w, a, u) /\ w[a + Len(u)] = t /\ Reads(w, a + Len(u) + 1, v)
<1> DEFINE x == u \o <<t>> \o v
           i == Len(u)
           j == Len(v)
<1>1. /\ x \in Seq(Letters) /\ Len(x) = i + 1 + j
      /\ \A k \in 1 .. i : x[k] = u[k]
      /\ x[i + 1] = t
      /\ \A k \in 1 .. j : x[i + 1 + k] = v[k]
  BY AroundProper
<1>2. i \in Nat /\ j \in Nat
  OBVIOUS
<1> HIDE DEF x, i, j
<1>3. ASSUME \A k \in 1 .. i + 1 + j : w[a - 1 + k] = x[k]
      PROVE  (\A k \in 1 .. i : w[a - 1 + k] = u[k]) /\ w[a + i] = t /\ \A k \in 1 .. j : w[a + i + 1 - 1 + k] = v[k]
  <2>1. \A k \in 1 .. i : k \in 1 .. i + 1 + j
    BY <1>2
  <2>2. i + 1 \in 1 .. i + 1 + j /\ a - 1 + (i + 1) = a + i
    BY <1>2
  <2>3. \A k \in 1 .. j : i + 1 + k \in 1 .. i + 1 + j /\ a - 1 + (i + 1 + k) = a + i + 1 - 1 + k
    BY <1>2
  <2>4. w[a + i] = t
    BY <1>1, <1>3, <2>2
  <2>5. \A k \in 1 .. j : w[a + i + 1 - 1 + k] = v[k]
    BY <1>1, <1>3, <2>3
  <2>6. QED
    BY <1>1, <1>3, <2>1, <2>4, <2>5
<1>4. ASSUME \A k \in 1 .. i : w[a - 1 + k] = u[k], w[a + i] = t, \A k \in 1 .. j : w[a + i + 1 - 1 + k] = v[k],
             NEW k \in 1 .. i + 1 + j
      PROVE  w[a - 1 + k] = x[k]
  <2>1. CASE k \in 1 .. i
    BY <1>1, <1>4, <2>1
  <2>2. CASE k = i + 1
    <3>1. a - 1 + k = a + i
      BY <1>2, <2>2
    <3>2. QED
      BY <1>1, <1>4, <2>2, <3>1
  <2>3. CASE k > i + 1
    <3> DEFINE h == k - (i + 1)
    <3>1. h \in 1 .. j /\ k = i + 1 + h /\ a - 1 + k = a + i + 1 - 1 + h
      BY <1>2, <2>3
    <3> HIDE DEF h
    <3>2. w[a - 1 + k] = v[h] /\ x[k] = v[h]
      BY <1>1, <1>4, <3>1
    <3>3. QED
      BY <3>2
  <2>4. QED
    BY <1>2, <2>1, <2>2, <2>3
<1>5. Reads(w, a, x) <=> \A k \in 1 .. i + 1 + j : w[a - 1 + k] = x[k]
  BY <1>1 DEF Reads
<1>6. Reads(w, a, u) <=> \A k \in 1 .. i : w[a - 1 + k] = u[k]
  BY DEF Reads, i
<1>7. Reads(w, a + i + 1, v) <=> \A k \in 1 .. j : w[a + i + 1 - 1 + k] = v[k]
  BY <1>2 DEF Reads, j
<1>8. QED
  BY <1>3, <1>4, <1>5, <1>6, <1>7 DEF x, i

(* Two spans around a token are one span, and conversely. *)
LEMMA JoinSpans ==
  ASSUME NEW w, Word(w), NEW L, NEW R, NEW a, NEW m, NEW b, NEW x, NEW y,
         Fits(w, L, a, m, x), Fits(w, R, m + 1, b, y), w[m] \in Letters
  PROVE  /\ a \in 1 .. Len(w) /\ b \in 1 .. Len(w) /\ a < b
         /\ m - a \in Splits(b - a) /\ b - a - 1 - (m - a) = b - (m + 1) /\ b - a \in 1 .. MaxLength
         /\ \E l \in L, r \in R :
              /\ l.tree = x /\ r.tree = y
              /\ Around(l, w[m], r) \in Seq(Letters) /\ Len(Around(l, w[m], r)) = b - a
              /\ Reads(w, a, Around(l, w[m], r))
<1>1. PICK l \in L : l.text \in Seq(Letters) /\ Len(l.text) = m - a /\ l.tree = x /\ Reads(w, a, l.text)
  BY DEF Fits
<1>2. PICK r \in R : r.text \in Seq(Letters) /\ Len(r.text) = b - (m + 1) /\ r.tree = y /\ Reads(w, m + 1, r.text)
  BY DEF Fits
<1>3. /\ a \in 1 .. Len(w) /\ m \in 1 .. Len(w) /\ b \in 1 .. Len(w)
      /\ a < m /\ m + 1 < b
  BY DEF Fits
<1>4. Len(w) \in Nat /\ Len(w) <= MaxLength + 1 /\ MaxLength \in Nat
  BY WordLength
<1>5. /\ m - a \in Splits(b - a) /\ b - a - 1 - (m - a) = b - (m + 1) /\ b - a \in 1 .. MaxLength /\ a < b
      /\ m - a \in Nat \ {0} /\ b - (m + 1) \in Nat \ {0} /\ (m - a) + 1 + (b - (m + 1)) = b - a
      /\ a + (m - a) = m
  BY <1>3, <1>4 DEF Splits
<1>6. Around(l, w[m], r) \in Seq(Letters) /\ Len(Around(l, w[m], r)) = b - a
  <2> DEFINE i == m - a
             j == b - (m + 1)
  <2>1. i \in Nat \ {0} /\ j \in Nat \ {0} /\ Len(l.text) = i /\ Len(r.text) = j /\ i + 1 + j = b - a
    BY <1>1, <1>2, <1>5
  <2> HIDE DEF i, j
  <2>2. Around(l, w[m], r) \in Seq(Letters) /\ Len(Around(l, w[m], r)) = i + 1 + j
    BY <1>1, <1>2, <2>1, ProperAround
  <2>3. QED
    BY <2>1, <2>2
<1>7. Reads(w, a, Around(l, w[m], r))
  <2> DEFINE u == l.text
             v == r.text
             t == w[m]
  <2>1. u \in Seq(Letters) /\ v \in Seq(Letters) /\ t \in Letters /\ a \in Nat \ {0}
        /\ Reads(w, a, u) /\ w[a + Len(u)] = t /\ Reads(w, a + Len(u) + 1, v)
    BY <1>1, <1>2, <1>3, <1>5
  <2> HIDE DEF u, v, t
  <2>2. Reads(w, a, u \o <<t>> \o v)
    BY <2>1, ReadsAround
  <2>3. QED
    BY <2>2 DEF u, v, t, Around
<1>8. QED
  BY <1>1, <1>2, <1>3, <1>5, <1>6, <1>7

(* ... conversely, a text around a token is cut into two spans. *)
LEMMA CutSpan ==
  ASSUME NEW w, Word(w), NEW L, NEW R, NEW a \in 1 .. Len(w), NEW b \in 1 .. Len(w), NEW i \in Splits(b - a),
         NEW l \in L, NEW r \in R, NEW t \in Letters, AllProper(L, i), AllProper(R, b - a - 1 - i),
         Reads(w, a, Around(l, t, r))
  PROVE  /\ a + i \in 1 .. Len(w) /\ w[a + i] = t
         /\ Fits(w, L, a, a + i, l.tree)
         /\ Fits(w, R, a + i + 1, b, r.tree)
<1>1. l.text \in Seq(Letters) /\ Len(l.text) = i /\ r.text \in Seq(Letters) /\ Len(r.text) = b - a - 1 - i
  BY DEF AllProper
<1>2. Len(w) \in Nat
  BY WordLength
<1>3. /\ a \in Nat \ {0} /\ a + i \in 1 .. Len(w) /\ a + i + 1 \in 1 .. Len(w) /\ a < a + i /\ a + i + 1 < b
      /\ (a + i) - a = i /\ b - (a + i + 1) = b - a - 1 - i
  BY <1>2 DEF Splits
<1>4. Reads(w, a, l.text) /\ w[a + i] = t /\ Reads(w, a + i + 1, r.text)
  <2> DEFINE u == l.text
             v == r.text
  <2>1. u \in Seq(Letters) /\ v \in Seq(Letters) /\ Len(u) = i /\ Reads(w, a, u \o <<t>> \o v)
    BY <1>1 DEF Around
  <2> HIDE DEF u, v
  <2>2. Reads(w, a, u) /\ w[a + Len(u)] = t /\ Reads(w, a + Len(u) + 1, v)
    BY <1>3, <2>1, ReadsAround
  <2>3. QED
    BY <2>1, <2>2 DEF u, v
<1>5. QED
  BY <1>1, <1>3, <1>4 DEF Fits

(* The positions of a span. *)
LEMMA SpanBounds ==
  ASSUME NEW w, Word(w), NEW nt, NEW a, NEW b, NEW tree, Derives(w, nt, a, b, tree)
  PROVE  /\ a \in 1 .. Len(w) /\ b \in 1 .. Len(w) /\ a < b /\ b - a \in 1 .. MaxLength
         /\ a \in Nat \ {0} /\ b \in Nat \ {0} /\ Len(w) \in Nat
<1>1. a \in 1 .. Len(w) /\ b \in 1 .. Len(w) /\ a < b
  BY DEF Derives, Fits
<1>2. Len(w) \in Nat /\ Len(w) <= MaxLength + 1 /\ MaxLength \in Nat
  BY WordLength
<1>3. QED
  BY <1>1, <1>2

(* What a span tells of its first token and of its tree. *)
LEMMA SpanProper ==
  ASSUME NEW w, Word(w), NEW nt \in Nonterminals, NEW a, NEW b, NEW tree, Derives(w, nt, a, b, tree)
  PROVE  /\ w[a] \in Letters
         /\ nt \in {"exp", "plain", "rseq"} => w[a].type # "END"
         /\ nt = "list" => tree \in Seq(SeqTrees) /\ tree # <<>>
         /\ nt # "list" => tree # NoTree
         /\ nt = "exp" => tree # END
         /\ nt = "seq" => tree \in SeqTrees
<1>1. a \in Nat \ {0} /\ a < b /\ b - a \in 1 .. MaxLength
  BY SpanBounds
<1>2. PICK s \in Grammar[b - a][nt] : s.tree = tree /\ Reads(w, a, s.text)
  BY DEF Derives, Fits
<1>3. ProperText(b - a, nt, s) /\ ProperTree(nt, s)
  BY <1>1, AllLevelsProper DEF Proper
<1>4. s.text \in Seq(Letters) /\ 1 \in 1 .. Len(s.text) /\ a - 1 + 1 = a
  BY <1>1, <1>3 DEF ProperText
<1>5. w[a] = s.text[1] /\ w[a] \in Letters
  BY <1>2, <1>4 DEF Reads
<1>6. nt = "seq" => tree \in SeqTrees
  BY <1>1, <1>2, SeqTree
<1>7. QED
  BY <1>2, <1>3, <1>5, <1>6 DEF ProperText, ProperTree

(* A sentence that is read in a word is a span of it. *)
LEMMA SpanOf ==
  ASSUME NEW w, Word(w), NEW nt \in Nonterminals, NEW a \in 1 .. Len(w), NEW b \in 1 .. Len(w), a < b,
         NEW s \in Grammar[b - a][nt], Reads(w, a, s.text)
  PROVE  Derives(w, nt, a, b, s.tree)
<1>1. Len(w) \in Nat /\ Len(w) <= MaxLength + 1 /\ MaxLength \in Nat
  BY WordLength
<1>2. b - a \in 1 .. MaxLength
  BY <1>1
<1>3. ProperText(b - a, nt, s)
  BY <1>2, AllLevelsProper DEF Proper
<1>4. QED
  BY <1>3 DEF Derives, Fits, ProperText

(* A key or an anchor is an expression. *)
LEMMA KeySpan ==
  ASSUME NEW w, Word(w), NEW a \in 1 .. Len(w), a + 1 \in 1 .. Len(w), w[a].type \in Keys
  PROVE  Derives(w, "exp", a, a + 1, w[a].content)
<1> DEFINE s == Sentence(<<w[a]>>, w[a].content)
<1>1. Len(w) \in Nat /\ Len(w) <= MaxLength + 1 /\ MaxLength \in Nat
  BY WordLength
<1>2. (a + 1) - a = 1 /\ 1 \in 1 .. MaxLength /\ a < a + 1
  BY <1>1
<1>3. w[a] \in TokensOf(Keys)
  <2>1. w[a] \in TokensOf({w[a].type})
    BY TokenAt DEF Keys
  <2>2. QED
    BY <2>1 DEF TokensOf
<1>4. s \in Grammar[1].exp
  BY <1>2, <1>3, ExpCases
<1>5. s.text = <<w[a]>> /\ s.tree = w[a].content
  BY DEF Sentence
<1>6. Reads(w, a, s.text)
  <2>1. Len(<<w[a]>>) = 1 /\ <<w[a]>>[1] = w[a] /\ a - 1 + 1 = a /\ \A k \in 1 .. 1 : k = 1
    OBVIOUS
  <2>2. QED
    BY <1>5, <2>1 DEF Reads
<1> HIDE DEF s
<1>7. s \in Grammar[(a + 1) - a]["exp"]
  BY <1>2, <1>4
<1>8. Derives(w, "exp", a, a + 1, s.tree)
  BY <1>2, <1>6, <1>7, SpanOf DEF Nonterminals
<1>9. QED
  BY <1>5, <1>8

(* A quantifier in a word. *)
QuantifierAt(w, m) == m \in 1 .. Len(w) /\ w[m].type \in DOMAIN Symbol

(* The tokens that Symbol maps. *)
LEMMA QuantifierTypes == DOMAIN Symbol = {"QOM", "QZM", "QZO"}
  BY DEF Symbol

(* A quantifier of a word is a token of the lexer. *)
LEMMA QuantifierIs ==
  ASSUME NEW w, Word(w), NEW m, QuantifierAt(w, m)
  PROVE  w[m] \in QuantifierTokens /\ w[m] \in Letters
<1>1. w[m].type \in {"QOM", "QZM", "QZO"}
  BY QuantifierTypes DEF QuantifierAt
<1>2. w[m] \in TokensOf({w[m].type})
  BY <1>1, TokenAt DEF QuantifierAt
<1>3. w[m] \in Tokens
  BY <1>2 DEF TokensOf
<1>4. w[m] \in QuantifierTokens
  BY <1>1, <1>3 DEF QuantifierTokens, TokensOf
<1>5. QED
  BY <1>4, TokenIsLetter DEF QuantifierTokens

(* A text and one more token. *)
LEMMA ReadsAppend ==
  ASSUME NEW w, NEW a \in Nat \ {0}, NEW u \in Seq(Letters), NEW t \in Letters
  PROVE  Reads(w, a, Append(u, t)) <=> Reads(w, a, u) /\ w[a + Len(u)] = t
<1> DEFINE x == Append(u, t)
           i == Len(u)
<1>1. /\ x \in Seq(Letters) /\ Len(x) = i + 1 /\ (\A k \in 1 .. i : x[k] = u[k]) /\ x[i + 1] = t /\ i \in Nat
  BY AppendProperties
<1>2. Reads(w, a, u) <=> \A k \in 1 .. i : w[a - 1 + k] = u[k]
  BY DEF Reads
<1> HIDE DEF x, i
<1>3. Reads(w, a, x) <=> \A k \in 1 .. i + 1 : w[a - 1 + k] = x[k]
  BY <1>1 DEF Reads
<1>4. ASSUME \A k \in 1 .. i + 1 : w[a - 1 + k] = x[k]
      PROVE  (\A k \in 1 .. i : w[a - 1 + k] = u[k]) /\ w[a + i] = t
  <2>1. i + 1 \in 1 .. i + 1 /\ a - 1 + (i + 1) = a + i /\ \A k \in 1 .. i : k \in 1 .. i + 1
    BY <1>1
  <2>2. QED
    BY <1>1, <1>4, <2>1
<1>5. ASSUME \A k \in 1 .. i : w[a - 1 + k] = u[k], w[a + i] = t, NEW k \in 1 .. i + 1
      PROVE  w[a - 1 + k] = x[k]
  <2>1. CASE k \in 1 .. i
    BY <1>1, <1>5, <2>1
  <2>2. CASE k = i + 1
    <3>1. a - 1 + k = a + i
      BY <1>1, <2>2
    <3>2. QED
      BY <1>1, <1>5, <2>2, <3>1
  <2>3. QED
    BY <1>1, <2>1, <2>2
<1>6. QED
  BY <1>2, <1>3, <1>4, <1>5 DEF x, i

(* A key with its quantifier is an expression. *)
LEMMA RepeatedKeySpan ==
  ASSUME NEW w, Word(w), NEW a \in 1 .. Len(w), a + 2 \in 1 .. Len(w), w[a].type = "KEY", QuantifierAt(w, a + 1)
  PROVE  Derives(w, "exp", a, a + 2, QUANTIFIED(w[a].content, Symbol[w[a + 1].type]))
<1> DEFINE t == w[a]
           q == w[a + 1]
           s == Quantified(Sentence(<<t>>, t.content), q)
<1>1. Len(w) \in Nat /\ Len(w) <= MaxLength + 1 /\ MaxLength \in Nat
  BY WordLength
<1>2. (a + 2) - a = 2 /\ 2 \in 1 .. MaxLength /\ a < a + 2 /\ a \in Nat \ {0}
  BY <1>1
<1>3. t \in TokensOf({"KEY"}) /\ t \in Letters
  <2>1. t \in TokensOf({t.type})
    BY TokenAt
  <2>2. QED
    BY <2>1, TokenIsLetter
<1>4. q \in QuantifierTokens /\ q \in Letters
  BY QuantifierIs
<1>5. s.text = Append(<<t>>, q) /\ s.tree = QUANTIFIED(t.content, Symbol[q.type])
  BY DEF Sentence, Quantified
<1>6. Reads(w, a, Append(<<t>>, q))
  <2> DEFINE u == <<t>>
  <2>1. u \in Seq(Letters) /\ Len(u) = 1 /\ u[1] = t /\ (\A k \in 1 .. 1 : k = 1) /\ a - 1 + 1 = a
    BY <1>2, <1>3
  <2>2. Reads(w, a, u)
    BY <2>1 DEF Reads
  <2> HIDE DEF u
  <2>3. Reads(w, a, Append(u, q))
    <3> HIDE DEF q
    <3>1. w[a + Len(u)] = q
      BY <2>1 DEF q
    <3>2. QED
      BY <1>2, <1>4, <2>1, <2>2, <3>1, ReadsAppend
  <2>4. QED
    BY <2>3 DEF u
<1>7. s \in Grammar[2].exp
  BY <1>2, <1>3, <1>4, ExpCases
<1>8. s \in Grammar[(a + 2) - a]["exp"] /\ Reads(w, a, s.text)
  BY <1>2, <1>5, <1>6, <1>7
<1>9. Derives(w, "exp", a, a + 2, s.tree)
  <2> HIDE DEF s
  <2>1. QED
    BY <1>2, <1>8, SpanOf DEF Nonterminals
<1>10. QED
  BY <1>5, <1>9

(* Parentheses around a text, in a word. *)
LEMMA ReadsGroup ==
  ASSUME NEW w, NEW a \in Nat \ {0}, NEW l, l.text \in Seq(Letters), Len(l.text) # 0
  PROVE  Reads(w, a, InParentheses(l).text) <=>
           /\ w[a] = Token("LPAREN", "")
           /\ Reads(w, a + 1, l.text)
           /\ w[a + 1 + Len(l.text)] = Token("RPAREN", "")
<1> DEFINE x == InParentheses(l).text
           u == l.text
           open == Token("LPAREN", "")
           close == Token("RPAREN", "")
           k == Len(u)
<1>0. k \in Nat \ {0}
  OBVIOUS
<1>1. /\ Len(x) = k + 2 /\ x[1] = open /\ x[k + 2] = close
      /\ \A i \in 1 .. k : x[1 + i] = u[i]
  BY <1>0, ProperGroup
<1>2. Reads(w, a + 1, u) <=> \A i \in 1 .. k : w[a + 1 - 1 + i] = u[i]
  BY DEF Reads
<1> HIDE DEF x, u, open, close, k
<1>3. Reads(w, a, x) <=> \A i \in 1 .. k + 2 : w[a - 1 + i] = x[i]
  BY <1>0, <1>1 DEF Reads
<1>4. ASSUME \A i \in 1 .. k + 2 : w[a - 1 + i] = x[i]
      PROVE  w[a] = open /\ (\A i \in 1 .. k : w[a + 1 - 1 + i] = u[i]) /\ w[a + 1 + k] = close
  <2>1. 1 \in 1 .. k + 2 /\ a - 1 + 1 = a /\ k + 2 \in 1 .. k + 2 /\ a - 1 + (k + 2) = a + 1 + k
    BY <1>0
  <2>2. \A i \in 1 .. k : 1 + i \in 1 .. k + 2 /\ a - 1 + (1 + i) = a + 1 - 1 + i
    BY <1>0
  <2>3. w[a] = open /\ w[a + 1 + k] = close
    BY <1>1, <1>4, <2>1
  <2>4. \A i \in 1 .. k : w[a + 1 - 1 + i] = u[i]
    BY <1>1, <1>4, <2>2
  <2>5. QED
    BY <2>3, <2>4
<1>5. ASSUME w[a] = open, \A i \in 1 .. k : w[a + 1 - 1 + i] = u[i], w[a + 1 + k] = close, NEW i \in 1 .. k + 2
      PROVE  w[a - 1 + i] = x[i]
  <2>1. CASE i = 1
    <3>1. a - 1 + i = a
      BY <2>1
    <3>2. QED
      BY <1>1, <1>5, <2>1, <3>1
  <2>2. CASE i = k + 2
    <3>1. a - 1 + i = a + 1 + k
      BY <1>0, <2>2
    <3>2. QED
      BY <1>1, <1>5, <2>2, <3>1
  <2>3. CASE i # 1 /\ i # k + 2
    <3> DEFINE h == i - 1
    <3>1. h \in 1 .. k /\ i = 1 + h /\ a - 1 + i = a + 1 - 1 + h
      BY <1>0, <2>3
    <3> HIDE DEF h
    <3>2. w[a - 1 + i] = u[h] /\ x[i] = u[h]
      BY <1>1, <1>5, <3>1
    <3>3. QED
      BY <3>2
  <2>4. QED
    BY <1>0, <2>1, <2>2, <2>3
<1>6. QED
  BY <1>2, <1>3, <1>4, <1>5 DEF x, u, open, close, k

(* A group: its list between the parentheses, at a and at m. *)
GroupAt(w, a, m, branches) ==
  /\ a \in 1 .. Len(w) /\ w[a].type = "LPAREN"
  /\ Derives(w, "list", a + 1, m, branches)
  /\ w[m].type = "RPAREN"

(* The list of a group, as a sentence. *)
LEMMA GroupReads ==
  ASSUME NEW w, Word(w), NEW a, NEW m, NEW branches, GroupAt(w, a, m, branches)
  PROVE  /\ a \in Nat \ {0} /\ m \in 1 .. Len(w) /\ a + 1 < m /\ Len(w) \in Nat /\ m - (a + 1) \in 1 .. MaxLength
         /\ \E l \in Grammar[m - (a + 1)].list :
              /\ l.tree = branches
              /\ InParentheses(l).text \in Seq(Letters) /\ Len(InParentheses(l).text) = m + 1 - a
              /\ Reads(w, a, InParentheses(l).text)
<1>1. a \in 1 .. Len(w) /\ w[a].type = "LPAREN" /\ Derives(w, "list", a + 1, m, branches) /\ w[m].type = "RPAREN"
  BY DEF GroupAt
<1>2. m \in 1 .. Len(w) /\ a + 1 < m /\ m - (a + 1) \in 1 .. MaxLength /\ a + 1 \in Nat \ {0} /\ m \in Nat /\ Len(w) \in Nat
  BY <1>1, SpanBounds
<1>3. PICK l \in Grammar[m - (a + 1)]["list"] :
        l.text \in Seq(Letters) /\ Len(l.text) = m - (a + 1) /\ l.tree = branches /\ Reads(w, a + 1, l.text)
  BY <1>1 DEF Derives, Fits
<1>4. w[a] = Token("LPAREN", "") /\ w[m] = Token("RPAREN", "")
  BY <1>1, <1>2, ParenAt
<1>5. a \in Nat \ {0} /\ m - (a + 1) \in Nat \ {0} /\ a + 1 + (m - (a + 1)) = m /\ (m - (a + 1)) + 2 = m + 1 - a
  BY <1>1, <1>2
<1>6. InParentheses(l).text \in Seq(Letters) /\ Len(InParentheses(l).text) = m + 1 - a
  <2> DEFINE k == m - (a + 1)
  <2>1. k \in Nat \ {0} /\ Len(l.text) = k /\ k + 2 = m + 1 - a
    BY <1>3, <1>5
  <2> HIDE DEF k
  <2>2. InParentheses(l).text \in Seq(Letters) /\ Len(InParentheses(l).text) = k + 2
    BY <1>3, <2>1, ProperGroup
  <2>3. QED
    BY <2>1, <2>2
<1>7. Reads(w, a, InParentheses(l).text)
  <2> DEFINE k == m - (a + 1)
  <2>1. k \in Nat \ {0} /\ Len(l.text) = k /\ a + 1 + k = m
    BY <1>3, <1>5
  <2> HIDE DEF k
  <2>2. w[a + 1 + Len(l.text)] = Token("RPAREN", "") /\ Len(l.text) # 0
    BY <1>4, <2>1
  <2>3. QED
    BY <1>3, <1>4, <1>5, <2>2, ReadsGroup
<1>8. QED
  BY <1>2, <1>3, <1>5, <1>6, <1>7

(* A group with alternatives is an expression. *)
LEMMA GroupSpan ==
  ASSUME NEW w, Word(w), NEW a, NEW m, NEW branches, GroupAt(w, a, m, branches), Len(branches) > 1, m + 1 \in 1 .. Len(w)
  PROVE  Derives(w, "exp", a, m + 1, GROUP(branches))
<1>1. /\ a \in Nat \ {0} /\ m \in 1 .. Len(w) /\ a + 1 < m /\ Len(w) \in Nat
  BY GroupReads
<1>2. PICK l \in Grammar[m - (a + 1)].list : l.tree = branches /\ Reads(w, a, InParentheses(l).text)
  BY GroupReads
<1> DEFINE n == m + 1 - a
<1>3. Len(w) <= MaxLength + 1 /\ MaxLength \in Nat
  BY WordLength
<1>4. n \in 1 .. MaxLength /\ n - 2 = m - (a + 1) /\ n > 2 /\ a \in 1 .. Len(w) /\ a < m + 1
  BY <1>1, <1>3
<1>5. l \in Grammar[n - 2].list
  BY <1>2, <1>4
<1>6. InParentheses(l) \in Grammar[n].exp
  <2> HIDE DEF n
  <2>1. QED
    BY <1>2, <1>4, <1>5, ExpCases
<1>7. InParentheses(l).tree = GROUP(branches)
  BY <1>2 DEF InParentheses, Sentence
<1>8. Derives(w, "exp", a, m + 1, InParentheses(l).tree)
  <2> DEFINE b == m + 1
             s == InParentheses(l)
  <2>1. a \in 1 .. Len(w) /\ b \in 1 .. Len(w) /\ a < b /\ s \in Grammar[b - a]["exp"] /\ Reads(w, a, s.text)
    BY <1>1, <1>2, <1>4, <1>6
  <2> HIDE DEF b, s
  <2>2. Derives(w, "exp", a, b, s.tree)
    BY <2>1, SpanOf DEF Nonterminals
  <2>3. QED
    BY <2>2 DEF b, s
<1>9. QED
  BY <1>7, <1>8

(* A group with its quantifier is an expression. *)
LEMMA RepeatedGroupSpan ==
  ASSUME NEW w, Word(w), NEW a, NEW m, NEW branches, GroupAt(w, a, m, branches), QuantifierAt(w, m + 1), m + 2 \in 1 .. Len(w)
  PROVE  Derives(w, "exp", a, m + 2, QUANTIFIED(GROUP(branches), Symbol[w[m + 1].type]))
<1>1. /\ a \in Nat \ {0} /\ m \in 1 .. Len(w) /\ a + 1 < m /\ Len(w) \in Nat
  BY GroupReads
<1>2. PICK l \in Grammar[m - (a + 1)].list :
        /\ l.tree = branches /\ Reads(w, a, InParentheses(l).text)
        /\ InParentheses(l).text \in Seq(Letters) /\ Len(InParentheses(l).text) = m + 1 - a
  BY GroupReads
<1> DEFINE n == m + 2 - a
           s == Quantified(InParentheses(l), w[m + 1])
<1>3. Len(w) <= MaxLength + 1 /\ MaxLength \in Nat
  BY WordLength
<1>4. n \in 1 .. MaxLength /\ n - 3 = m - (a + 1) /\ n > 3 /\ a \in 1 .. Len(w) /\ a < m + 2 /\ a + (m + 1 - a) = m + 1
  BY <1>1, <1>3
<1>5. l \in Grammar[n - 3].list
  BY <1>2, <1>4
<1>6. w[m + 1] \in QuantifierTokens /\ w[m + 1] \in Letters
  BY QuantifierIs
<1>7. s.text = Append(InParentheses(l).text, w[m + 1])
      /\ s.tree = QUANTIFIED(GROUP(branches), Symbol[w[m + 1].type])
  BY <1>2 DEF Quantified, InParentheses, Sentence
<1>8. s \in Grammar[n].exp
  <2> HIDE DEF n
  <2>1. QED
    BY <1>4, <1>5, <1>6, ExpCases
<1>9. Reads(w, a, s.text)
  <2> DEFINE u == InParentheses(l).text
  <2>1. u \in Seq(Letters) /\ Reads(w, a, u) /\ w[a + Len(u)] = w[m + 1]
    BY <1>2, <1>4
  <2> HIDE DEF u
  <2>2. Reads(w, a, Append(u, w[m + 1]))
    BY <1>1, <1>6, <2>1, ReadsAppend
  <2>3. QED
    BY <1>7, <2>2 DEF u
<1> HIDE DEF s
<1>10. Derives(w, "exp", a, m + 2, s.tree)
  <2> DEFINE b == m + 2
  <2>1. a \in 1 .. Len(w) /\ b \in 1 .. Len(w) /\ a < b /\ s \in Grammar[b - a]["exp"] /\ Reads(w, a, s.text)
    BY <1>1, <1>4, <1>8, <1>9
  <2> HIDE DEF b
  <2>2. Derives(w, "exp", a, b, s.tree)
    BY <2>1, SpanOf DEF Nonterminals
  <2>3. QED
    BY <2>2 DEF b
<1>11. QED
  BY <1>7, <1>10

(* Productions of one nonterminal alone. *)
LEMMA FitsMore ==
  ASSUME NEW w, NEW L, NEW R, NEW a, NEW b, NEW tree, Fits(w, L, a, b, tree), \A s \in L : s \in R
  PROVE  Fits(w, R, a, b, tree)
  BY DEF Fits

(* An expression is a sequence of any kind. *)
LEMMA ExpSpan ==
  ASSUME NEW w, Word(w), NEW a, NEW b, NEW tree, Derives(w, "exp", a, b, tree)
  PROVE  Derives(w, "plain", a, b, tree) /\ Derives(w, "seq", a, b, tree) /\ Derives(w, "rseq", a, b, tree)
<1> DEFINE n == b - a
<1>1. n \in 1 .. MaxLength
  BY SpanBounds
<1> HIDE DEF n
<1>2. \A s \in Grammar[n].exp : s \in Grammar[n].plain /\ s \in Grammar[n].seq /\ s \in Grammar[n].rseq
  BY <1>1, PlainCases, SeqCases, RseqCases
<1>3. Fits(w, Grammar[n].exp, a, b, tree)
  BY DEF Derives, n
<1>4. Fits(w, Grammar[n].plain, a, b, tree) /\ Fits(w, Grammar[n].seq, a, b, tree) /\ Fits(w, Grammar[n].rseq, a, b, tree)
  BY <1>2, <1>3, FitsMore
<1>5. QED
  BY <1>4 DEF Derives, n

(* A plain sequence is a sequence. *)
LEMMA PlainSpan ==
  ASSUME NEW w, Word(w), NEW a, NEW b, NEW tree, Derives(w, "plain", a, b, tree)
  PROVE  Derives(w, "seq", a, b, tree)
<1> DEFINE n == b - a
<1>1. n \in 1 .. MaxLength
  BY SpanBounds
<1> HIDE DEF n
<1>2. \A s \in Grammar[n].plain : s \in Grammar[n].seq
  BY <1>1, SeqCases
<1>3. Fits(w, Grammar[n].plain, a, b, tree)
  BY DEF Derives, n
<1>4. Fits(w, Grammar[n].seq, a, b, tree)
  BY <1>2, <1>3, FitsMore
<1>5. QED
  BY <1>4 DEF Derives, n

(* A sequence is a query, and a list of one branch. *)
LEMMA SeqSpan ==
  ASSUME NEW w, Word(w), NEW a, NEW b, NEW tree, Derives(w, "seq", a, b, tree)
  PROVE  Derives(w, "query", a, b, tree) /\ Derives(w, "list", a, b, <<tree>>)
<1> DEFINE n == b - a
<1>1. n \in 1 .. MaxLength
  BY SpanBounds
<1> HIDE DEF n
<1>2. \A s \in Grammar[n].seq : s \in Grammar[n].query
  BY <1>1, QueryCases
<1>3. Fits(w, Grammar[n].seq, a, b, tree)
  BY DEF Derives, n
<1>4. Fits(w, Grammar[n].query, a, b, tree)
  BY <1>2, <1>3, FitsMore
<1>5. Fits(w, Grammar[n].list, a, b, <<tree>>)
  <2>1. PICK s \in Grammar[n].seq : s.text \in Seq(Letters) /\ Len(s.text) = b - a /\ s.tree = tree /\ Reads(w, a, s.text)
    BY <1>3 DEF Fits
  <2> DEFINE l == Sentence(s.text, <<s.tree>>)
  <2>2. l \in Grammar[n].list
    BY <1>1, ListCases
  <2>3. l.text = s.text /\ l.tree = <<tree>>
    BY <2>1 DEF Sentence
  <2> HIDE DEF l
  <2>4. QED
    BY <1>3, <2>1, <2>2, <2>3 DEF Fits
<1>6. QED
  BY <1>4, <1>5 DEF Derives, n

(* The boundary, as a span of one token. *)
BoundaryAt(w, a) == a \in 1 .. Len(w) /\ w[a].type = "END"

(* A boundary of a word is a span. *)
LEMMA BoundaryFits ==
  ASSUME NEW w, Word(w), NEW a, BoundaryAt(w, a), a + 1 \in 1 .. Len(w)
  PROVE  Fits(w, Boundary, a, a + 1, END)
<1>1. w[a] \in TokensOf({"END"}) /\ w[a] \in Letters
  <2>1. w[a] \in TokensOf({w[a].type})
    BY TokenAt DEF BoundaryAt
  <2>2. QED
    BY <2>1, TokenIsLetter DEF BoundaryAt
<1> DEFINE s == Sentence(<<w[a]>>, END)
<1>2. s \in Boundary
  BY <1>1, BoundaryCases
<1>3. s.text = <<w[a]>> /\ s.tree = END
  BY DEF Sentence
<1>4. a \in 1 .. Len(w) /\ a \in Int /\ a < a + 1 /\ (a + 1) - a = 1
  BY DEF BoundaryAt
<1>5. <<w[a]>> \in Seq(Letters) /\ Len(<<w[a]>>) = 1 /\ Reads(w, a, <<w[a]>>)
  BY <1>1, <1>4 DEF Reads
<1> HIDE DEF s
<1>6. QED
  BY <1>2, <1>3, <1>4, <1>5 DEF Fits

(* The tree of an arrow. *)
Linked(type, left, right, port) == IF type = "NEXT" THEN NEXT(left, right, port) ELSE PREC(left, right, port)

(* Two spans around an arrow are a link. *)
LEMMA LinkFits ==
  ASSUME NEW w, Word(w), NEW type \in {"NEXT", "PREC"}, NEW L, NEW R, NEW a, NEW m, NEW b, NEW x, NEW y,
         Fits(w, L, a, m, x), w[m].type = type, Fits(w, R, m + 1, b, y)
  PROVE  /\ m - a \in Splits(b - a) /\ b - a - 1 - (m - a) = b - (m + 1) /\ b - a \in 1 .. MaxLength
         /\ Fits(w, Links(type, L, R), a, b, Linked(type, x, y, w[m].content))
<1>1. m \in 1 .. Len(w)
  BY DEF Fits
<1>2. w[m] \in TokensOf({type}) /\ w[m] \in Letters
  <2>1. w[m] \in TokensOf({w[m].type})
    BY <1>1, TokenAt
  <2>2. QED
    BY <2>1, TokenIsLetter
<1>3. /\ a \in 1 .. Len(w) /\ b \in 1 .. Len(w) /\ a < b
      /\ m - a \in Splits(b - a) /\ b - a - 1 - (m - a) = b - (m + 1) /\ b - a \in 1 .. MaxLength
      /\ \E l \in L, r \in R :
           /\ l.tree = x /\ r.tree = y
           /\ Around(l, w[m], r) \in Seq(Letters) /\ Len(Around(l, w[m], r)) = b - a
           /\ Reads(w, a, Around(l, w[m], r))
  BY <1>2, JoinSpans
<1>4. PICK l \in L, r \in R :
           /\ l.tree = x /\ r.tree = y
           /\ Around(l, w[m], r) \in Seq(Letters) /\ Len(Around(l, w[m], r)) = b - a
           /\ Reads(w, a, Around(l, w[m], r))
  BY <1>3
<1> DEFINE s == Chained(l, w[m], r)
<1>5. s \in Links(type, L, R)
  BY <1>2, <1>4 DEF Links
<1>6. s.text = Around(l, w[m], r) /\ s.tree = Linked(type, x, y, w[m].content)
  BY <1>4 DEF Chained, Sentence, Linked
<1> HIDE DEF s
<1>7. Fits(w, Links(type, L, R), a, b, Linked(type, x, y, w[m].content))
  BY <1>3, <1>4, <1>5, <1>6 DEF Fits
<1>8. QED
  BY <1>3, <1>7

(* The productions of arrows. *)
LEMMA BackwardSpan ==
  ASSUME NEW w, Word(w), NEW a, NEW m, NEW b, NEW x, NEW y,
         Derives(w, "exp", a, m, x), w[m].type = "PREC", Derives(w, "rseq", m + 1, b, y)
  PROVE  Derives(w, "seq", a, b, PREC(x, y, w[m].content)) /\ Derives(w, "rseq", a, b, PREC(x, y, w[m].content))
<1> DEFINE n == b - a
           i == m - a
           L == Grammar[m - a].exp
           R == Grammar[b - (m + 1)].rseq
<1>1. Fits(w, L, a, m, x) /\ Fits(w, R, m + 1, b, y)
  BY DEF Derives
<1> HIDE DEF L, R
<1>2. i \in Splits(n) /\ n - 1 - i = b - (m + 1) /\ n \in 1 .. MaxLength
      /\ Fits(w, Links("PREC", L, R), a, b, Linked("PREC", x, y, w[m].content))
  BY <1>1, LinkFits
<1> HIDE DEF n, i
<1>3. L = Grammar[i].exp /\ R = Grammar[n - 1 - i].rseq
  BY <1>2 DEF L, R, i
<1>4. \A s \in Links("PREC", L, R) : s \in Grammar[n].plain /\ s \in Grammar[n].rseq
  BY <1>2, <1>3, PlainCases, RseqCases
<1>5. Fits(w, Grammar[n].plain, a, b, Linked("PREC", x, y, w[m].content))
      /\ Fits(w, Grammar[n].rseq, a, b, Linked("PREC", x, y, w[m].content))
  BY <1>2, <1>4, FitsMore
<1>6. Derives(w, "plain", a, b, PREC(x, y, w[m].content)) /\ Derives(w, "rseq", a, b, PREC(x, y, w[m].content))
  BY <1>5 DEF Derives, Linked, n
<1>7. QED
  BY <1>6, PlainSpan

(* After a NEXT a plain sequence follows. *)
LEMMA ForwardSpan ==
  ASSUME NEW w, Word(w), NEW a, NEW m, NEW b, NEW x, NEW y,
         Derives(w, "exp", a, m, x), w[m].type = "NEXT", Derives(w, "plain", m + 1, b, y)
  PROVE  Derives(w, "plain", a, b, NEXT(x, y, w[m].content))
<1> DEFINE n == b - a
           i == m - a
           L == Grammar[m - a].exp
           R == Grammar[b - (m + 1)].plain
<1>1. Fits(w, L, a, m, x) /\ Fits(w, R, m + 1, b, y)
  BY DEF Derives
<1> HIDE DEF L, R
<1>2. i \in Splits(n) /\ n - 1 - i = b - (m + 1) /\ n \in 1 .. MaxLength
      /\ Fits(w, Links("NEXT", L, R), a, b, Linked("NEXT", x, y, w[m].content))
  BY <1>1, LinkFits
<1> HIDE DEF n, i
<1>3. L = Grammar[i].exp /\ R = Grammar[n - 1 - i].plain
  BY <1>2 DEF L, R, i
<1>4. \A s \in Links("NEXT", L, R) : s \in Grammar[n].plain
  BY <1>2, <1>3, PlainCases
<1>5. Fits(w, Grammar[n].plain, a, b, Linked("NEXT", x, y, w[m].content))
  BY <1>2, <1>4, FitsMore
<1>6. QED
  BY <1>5 DEF Derives, Linked, n

(* ... to a boundary ... *)
LEMMA ToBoundarySpan ==
  ASSUME NEW w, Word(w), NEW type \in {"NEXT", "PREC"}, NEW a, NEW m, NEW x,
         Derives(w, "exp", a, m, x), w[m].type = type, BoundaryAt(w, m + 1), m + 2 \in 1 .. Len(w)
  PROVE  Derives(w, IF type = "NEXT" THEN "plain" ELSE "rseq", a, m + 2, Linked(type, x, END, w[m].content))
<1> DEFINE b == m + 2
           n == b - a
           L == Grammar[m - a].exp
<1>1. a \in Nat \ {0} /\ m \in Nat /\ a < m /\ b = m + 2 /\ b - (m + 1) = 1 /\ (m + 1) + 1 = b
  BY SpanBounds
<1>2. Fits(w, L, a, m, x) /\ Fits(w, Boundary, m + 1, b, END)
  <2>1. (m + 1) + 1 \in 1 .. Len(w)
    BY <1>1
  <2>2. Fits(w, Boundary, m + 1, (m + 1) + 1, END)
    BY <2>1, BoundaryFits
  <2>3. QED
    BY <1>1, <2>2 DEF Derives
<1> HIDE DEF L, b
<1>3. n \in 1 .. MaxLength /\ Fits(w, Links(type, L, Boundary), a, b, Linked(type, x, END, w[m].content))
  BY <1>2, LinkFits
<1>4. n > 2 /\ n - 2 = m - a
  BY <1>1
<1> HIDE DEF n
<1>5. L = Grammar[n - 2].exp
  BY <1>4 DEF L
<1>6. \A s \in Links(type, L, Boundary) : IF type = "NEXT" THEN s \in Grammar[n].plain ELSE s \in Grammar[n].rseq
  BY <1>3, <1>4, <1>5, PlainCases, RseqCases
<1>7. CASE type = "NEXT"
  <2>1. Fits(w, Grammar[n].plain, a, b, Linked(type, x, END, w[m].content))
    BY <1>3, <1>6, <1>7, FitsMore
  <2>2. QED
    BY <1>1, <1>7, <2>1 DEF Derives, n
<1>8. CASE type = "PREC"
  <2>1. Fits(w, Grammar[n].rseq, a, b, Linked(type, x, END, w[m].content))
    BY <1>3, <1>6, <1>8, FitsMore
  <2>2. QED
    BY <1>1, <1>8, <2>1 DEF Derives, n
<1>9. QED
  BY <1>7, <1>8

(* ... and from one. *)
LEMMA FromBoundarySpan ==
  ASSUME NEW w, Word(w), NEW a, NEW b, NEW y, BoundaryAt(w, a), w[a + 1].type = "PREC", Derives(w, "rseq", a + 2, b, y)
  PROVE  Derives(w, "seq", a, b, PREC(END, y, w[a + 1].content))
<1> DEFINE m == a + 1
           n == b - a
           R == Grammar[b - (a + 2)].rseq
<1>1. /\ a \in Nat \ {0} /\ a + 2 \in 1 .. Len(w) /\ b \in 1 .. Len(w) /\ a + 2 < b
      /\ a + 1 \in 1 .. Len(w) /\ m = a + 1 /\ m - a = 1 /\ m + 1 = a + 2 /\ Len(w) \in Nat
  <2>1. a + 2 \in 1 .. Len(w) /\ b \in 1 .. Len(w) /\ a + 2 < b /\ Len(w) \in Nat
    BY SpanBounds
  <2>2. a \in 1 .. Len(w)
    BY DEF BoundaryAt
  <2>3. a \in Nat \ {0} /\ a \in Int
    BY <2>1, <2>2
  <2>4. a + 1 \in 1 .. Len(w)
    BY <2>1, <2>3
  <2>5. m = a + 1
    OBVIOUS
  <2> HIDE DEF m, n, R
  <2>6. m - a = 1 /\ m + 1 = a + 2
    BY <2>3, <2>5
  <2>7. QED
    BY <2>1, <2>3, <2>4, <2>5, <2>6
<1>2. Fits(w, Boundary, a, m, END) /\ Fits(w, R, m + 1, b, y)
  BY <1>1, BoundaryFits DEF Derives
<1> HIDE DEF R
<1>3. m - a \in Splits(n) /\ n \in 1 .. MaxLength /\ Fits(w, Links("PREC", Boundary, R), a, b, Linked("PREC", END, y, w[m].content))
  <2> HIDE DEF m
  <2>1. w[m].type = "PREC"
    BY DEF m
  <2>2. QED
    BY <1>2, <2>1, LinkFits
<1>4. n > 2 /\ n - 2 = b - (a + 2)
  BY <1>1
<1> HIDE DEF n
<1>5. R = Grammar[n - 2].rseq
  BY <1>4 DEF R
<1>6. \A s \in Links("PREC", Boundary, R) : s \in Grammar[n].seq
  BY <1>3, <1>4, <1>5, SeqCases
<1>7. Fits(w, Grammar[n].seq, a, b, Linked("PREC", END, y, w[m].content))
  BY <1>3, <1>6, FitsMore
<1>8. QED
  BY <1>7 DEF Derives, Linked, n

(* The productions of alternatives and of paths. *)
LEMMA MarkAt ==
  ASSUME NEW w, Word(w), NEW m \in 1 .. Len(w), w[m].type \in {"ALT", "SEP"}
  PROVE  w[m] \in TokensOf({w[m].type}) /\ w[m] \in Letters
<1>1. w[m] \in TokensOf({w[m].type})
  BY TokenAt
<1>2. QED
  BY <1>1, TokenIsLetter

(* A list, an ALT and one more branch are a list. *)
LEMMA BranchSpan ==
  ASSUME NEW w, Word(w), NEW a, NEW m, NEW b, NEW x, NEW y,
         Derives(w, "list", a, m, x), w[m].type = "ALT", Derives(w, "seq", m + 1, b, y)
  PROVE  Derives(w, "list", a, b, Append(x, y))
<1> DEFINE n == b - a
           i == m - a
           L == Grammar[m - a].list
           R == Grammar[b - (m + 1)].seq
<1>1. Fits(w, L, a, m, x) /\ Fits(w, R, m + 1, b, y)
  BY DEF Derives
<1>2. w[m] \in TokensOf({"ALT"}) /\ w[m] \in Letters
  <2>1. m \in 1 .. Len(w)
    BY SpanBounds
  <2>2. QED
    BY <2>1, MarkAt
<1> HIDE DEF L, R
<1>3. /\ a \in 1 .. Len(w) /\ b \in 1 .. Len(w) /\ a < b
      /\ i \in Splits(n) /\ n - 1 - i = b - (m + 1) /\ n \in 1 .. MaxLength
      /\ \E l \in L, r \in R :
              /\ l.tree = x /\ r.tree = y
              /\ Around(l, w[m], r) \in Seq(Letters) /\ Len(Around(l, w[m], r)) = b - a
              /\ Reads(w, a, Around(l, w[m], r))
  BY <1>1, <1>2, JoinSpans
<1>4. PICK l \in L, r \in R :
              /\ l.tree = x /\ r.tree = y
              /\ Around(l, w[m], r) \in Seq(Letters) /\ Len(Around(l, w[m], r)) = b - a
              /\ Reads(w, a, Around(l, w[m], r))
  BY <1>3
<1> DEFINE s == Sentence(Around(l, w[m], r), Append(l.tree, r.tree))
<1> HIDE DEF n, i
<1>5. L = Grammar[i].list /\ R = Grammar[n - 1 - i].seq
  BY <1>3 DEF L, R, i
<1>6. s \in Grammar[n].list
  <2>1. l \in Grammar[i].list /\ r \in Grammar[n - 1 - i].seq
    BY <1>4, <1>5
  <2>2. QED
    BY <1>2, <1>3, <2>1, ListCases
<1>7. s.text = Around(l, w[m], r) /\ s.tree = Append(x, y)
  BY <1>4 DEF Sentence
<1> HIDE DEF s
<1>8. Fits(w, Grammar[n].list, a, b, Append(x, y))
  BY <1>3, <1>4, <1>6, <1>7 DEF Fits
<1>9. QED
  BY <1>8 DEF Derives, n

(* A sequence, a SEP and more paths are a query. *)
LEMMA PathSpan ==
  ASSUME NEW w, Word(w), NEW a, NEW m, NEW b, NEW x, NEW y,
         Derives(w, "seq", a, m, x), w[m].type = "SEP", Derives(w, "query", m + 1, b, y)
  PROVE  Derives(w, "query", a, b, SEP(x, y))
<1> DEFINE n == b - a
           i == m - a
           L == Grammar[m - a].seq
           R == Grammar[b - (m + 1)].query
<1>1. Fits(w, L, a, m, x) /\ Fits(w, R, m + 1, b, y)
  BY DEF Derives
<1>2. w[m] \in TokensOf({"SEP"}) /\ w[m] \in Letters
  <2>1. m \in 1 .. Len(w)
    BY SpanBounds
  <2>2. QED
    BY <2>1, MarkAt
<1> HIDE DEF L, R
<1>3. /\ a \in 1 .. Len(w) /\ b \in 1 .. Len(w) /\ a < b
      /\ i \in Splits(n) /\ n - 1 - i = b - (m + 1) /\ n \in 1 .. MaxLength
      /\ \E l \in L, r \in R :
              /\ l.tree = x /\ r.tree = y
              /\ Around(l, w[m], r) \in Seq(Letters) /\ Len(Around(l, w[m], r)) = b - a
              /\ Reads(w, a, Around(l, w[m], r))
  BY <1>1, <1>2, JoinSpans
<1>4. PICK l \in L, r \in R :
              /\ l.tree = x /\ r.tree = y
              /\ Around(l, w[m], r) \in Seq(Letters) /\ Len(Around(l, w[m], r)) = b - a
              /\ Reads(w, a, Around(l, w[m], r))
  BY <1>3
<1> DEFINE s == Sentence(Around(l, w[m], r), SEP(l.tree, r.tree))
<1> HIDE DEF n, i
<1>5. L = Grammar[i].seq /\ R = Grammar[n - 1 - i].query
  BY <1>3 DEF L, R, i
<1>6. s \in Grammar[n].query
  <2>1. l \in Grammar[i].seq /\ r \in Grammar[n - 1 - i].query
    BY <1>4, <1>5
  <2>2. QED
    BY <1>2, <1>3, <2>1, QueryCases
<1>7. s.text = Around(l, w[m], r) /\ s.tree = SEP(x, y)
  BY <1>4 DEF Sentence
<1> HIDE DEF s
<1>8. Fits(w, Grammar[n].query, a, b, SEP(x, y))
  BY <1>3, <1>4, <1>6, <1>7 DEF Fits
<1>9. QED
  BY <1>8 DEF Derives, n

(* A sequence and a SEP at the end of the query are a query. *)
LEMMA ClosedSpan ==
  ASSUME NEW w, Word(w), NEW a, NEW m, NEW x, Derives(w, "seq", a, m, x), w[m].type = "SEP", m + 1 \in 1 .. Len(w)
  PROVE  Derives(w, "query", a, m + 1, x)
<1> DEFINE b == m + 1
           n == b - a
<1>1. a \in 1 .. Len(w) /\ m \in 1 .. Len(w) /\ a < m /\ a \in Nat \ {0} /\ m \in Nat /\ Len(w) \in Nat
  BY SpanBounds
<1>2. w[m] \in TokensOf({"SEP"}) /\ w[m] \in Letters
  BY <1>1, MarkAt
<1>3. PICK u \in Grammar[m - a]["seq"] : u.text \in Seq(Letters) /\ Len(u.text) = m - a /\ u.tree = x /\ Reads(w, a, u.text)
  BY DEF Derives, Fits
<1>4. n - 1 = m - a /\ n > 1 /\ a + (m - a) = m /\ n \in 1 .. MaxLength /\ a < b /\ b \in 1 .. Len(w)
  BY <1>1, WordLength
<1> DEFINE s == Sentence(Append(u.text, w[m]), u.tree)
<1>5. s \in Grammar[n].query
  <2> HIDE DEF n
  <2>1. QED
    BY <1>2, <1>3, <1>4, QueryCases
<1>6. s.text = Append(u.text, w[m]) /\ s.tree = x
  BY <1>3 DEF Sentence
<1>7. Reads(w, a, Append(u.text, w[m]))
  <2> DEFINE v == u.text
  <2>1. v \in Seq(Letters) /\ Reads(w, a, v) /\ w[a + Len(v)] = w[m] /\ a \in Nat \ {0}
    BY <1>1, <1>3, <1>4
  <2> HIDE DEF v
  <2>2. Reads(w, a, Append(v, w[m]))
    BY <1>2, <2>1, ReadsAppend
  <2>3. QED
    BY <2>2 DEF v
<1> HIDE DEF s, n, b
<1>8. Derives(w, "query", a, b, s.tree)
  <2>1. s \in Grammar[b - a]["query"] /\ Reads(w, a, s.text) /\ a \in 1 .. Len(w) /\ b \in 1 .. Len(w) /\ a < b
    BY <1>1, <1>4, <1>5, <1>6, <1>7 DEF n
  <2>2. QED
    BY <2>1, SpanOf DEF Nonterminals
<1>9. QED
  BY <1>6, <1>8 DEF b

-----------------------------------------------------------------------------
(* A path along a stack: the points where its frames go on and end.         *)
Reaches(R, C, st, x, y) ==
  \E c \in Seq(C) :
    /\ Len(c) = Len(st) + 1 /\ c[1] = x /\ c[Len(st) + 1] = y
    /\ \A i \in 1 .. Len(st) : <<st[i], c[i], c[i + 1]>> \in R

(* An empty stack goes nowhere. *)
LEMMA ReachesNothing ==
  ASSUME NEW R, NEW C, NEW x, NEW y
  PROVE  Reaches(R, C, <<>>, x, y) <=> x \in C /\ y = x
<1>1. ASSUME x \in C PROVE Reaches(R, C, <<>>, x, x)
  <2> DEFINE c == <<x>>
             st == <<>>
  <2>1. c \in Seq(C) /\ Len(c) = 1 /\ c[1] = x /\ Len(st) = 0 /\ \A i \in 1 .. 0 : FALSE
    BY <1>1
  <2> HIDE DEF c, st
  <2>2. Reaches(R, C, st, x, x)
    BY <2>1 DEF Reaches
  <2>3. QED
    BY <2>2 DEF st
<1>2. ASSUME Reaches(R, C, <<>>, x, y) PROVE x \in C /\ y = x
  <2>1. PICK c \in Seq(C) : Len(c) = Len(<<>>) + 1 /\ c[1] = x /\ c[Len(<<>>) + 1] = y
    BY <1>2 DEF Reaches
  <2>2. Len(<<>>) = 0
    OBVIOUS
  <2>3. QED
    BY <2>1, <2>2
<1>3. QED
  BY <1>1, <1>2

(* One frame more on a path. *)
LEMMA ReachesFold ==
  ASSUME NEW R, NEW C, NEW F, NEW f \in F, NEW rest \in Seq(F), NEW x \in C, NEW y, NEW z,
         <<f, x, z>> \in R, Reaches(R, C, rest, z, y)
  PROVE  Reaches(R, C, <<f>> \o rest, x, y)
<1>1. PICK c \in Seq(C) : /\ Len(c) = Len(rest) + 1 /\ c[1] = z /\ c[Len(rest) + 1] = y
                          /\ \A i \in 1 .. Len(rest) : <<rest[i], c[i], c[i + 1]>> \in R
  BY DEF Reaches
<1> DEFINE one == <<f>>
           st == one \o rest
           start == <<x>>
           d == start \o c
           n == Len(rest)
<1>2. n \in Nat /\ one \in Seq(F) /\ Len(one) = 1 /\ one[1] = f /\ start \in Seq(C) /\ Len(start) = 1 /\ start[1] = x
  OBVIOUS
<1> HIDE DEF one, start
<1>3. /\ st \in Seq(F) /\ Len(st) = Len(one) + Len(rest)
      /\ \A i \in 1 .. Len(one) + Len(rest) : st[i] = IF i <= Len(one) THEN one[i] ELSE rest[i - Len(one)]
  BY <1>2, ConcatProperties
<1>4. /\ d \in Seq(C) /\ Len(d) = Len(start) + Len(c)
      /\ \A i \in 1 .. Len(start) + Len(c) : d[i] = IF i <= Len(start) THEN start[i] ELSE c[i - Len(start)]
  BY <1>1, <1>2, ConcatProperties
<1>5. Len(c) = n + 1
  BY <1>1
<1> HIDE DEF st, d, n
<1>6. Len(st) = n + 1 /\ Len(d) = n + 2 /\ st[1] = f /\ d[1] = x
      /\ (\A i \in 1 .. n : st[i + 1] = rest[i]) /\ (\A i \in 1 .. n + 1 : d[i + 1] = c[i])
  <2>1. Len(st) = n + 1 /\ Len(d) = n + 2
    BY <1>2, <1>3, <1>4, <1>5 DEF n
  <2>2. st[1] = f /\ d[1] = x
    BY <1>2, <1>3, <1>4, <1>5 DEF n
  <2>3. \A i \in 1 .. n : i + 1 \in 1 .. n + 1 /\ ~ (i + 1 <= 1) /\ i + 1 - 1 = i
    BY <1>2
  <2>4. \A i \in 1 .. n + 1 : i + 1 \in 1 .. n + 2 /\ ~ (i + 1 <= 1) /\ i + 1 - 1 = i
    BY <1>2
  <2>5. 1 + n = n + 1 /\ 1 + (n + 1) = n + 2 /\ Len(rest) = n
    BY <1>2 DEF n
  <2>6. QED
    BY <1>2, <1>3, <1>4, <1>5, <2>1, <2>2, <2>3, <2>4, <2>5
<1>7. \A i \in 1 .. Len(st) : <<st[i], d[i], d[i + 1]>> \in R
  <2> SUFFICES ASSUME NEW i \in 1 .. n + 1 PROVE <<st[i], d[i], d[i + 1]>> \in R
    BY <1>6
  <2>1. CASE i = 1
    <3>1. 1 \in 1 .. n + 1
      BY <1>2
    <3>2. d[1 + 1] = z
      BY <1>1, <1>6, <3>1
    <3>3. QED
      BY <1>6, <2>1, <3>2
  <2>2. CASE i # 1
    <3> DEFINE j == i - 1
    <3>1. j \in 1 .. n /\ i = j + 1 /\ j \in 1 .. n + 1 /\ j + 1 \in 1 .. n + 1
      BY <1>2, <2>2
    <3> HIDE DEF j
    <3>2. st[i] = rest[j] /\ d[i] = c[j] /\ d[i + 1] = c[j + 1]
      BY <1>6, <3>1
    <3>3. <<rest[j], c[j], c[j + 1]>> \in R
      BY <1>1, <3>1 DEF n
    <3>4. QED
      BY <3>2, <3>3
  <2>3. QED
    BY <2>1, <2>2
<1>8. d[Len(st) + 1] = y
  <2>1. n + 1 \in 1 .. n + 1 /\ c[n + 1] = y
    BY <1>1, <1>2 DEF n
  <2>2. QED
    BY <1>6, <2>1
<1>9. Len(d) = Len(st) + 1
  BY <1>2, <1>6
<1>10. Reaches(R, C, st, x, y)
  BY <1>4, <1>6, <1>7, <1>8, <1>9 DEF Reaches
<1>11. QED
  BY <1>10 DEF st, one

(* The first frame of a path and the rest of it. *)
LEMMA ReachesUnfold ==
  ASSUME NEW R, NEW C, NEW F, NEW st \in Seq(F), st # <<>>, NEW x, NEW y, Reaches(R, C, st, x, y)
  PROVE  x \in C /\ \E z \in C : <<Head(st), x, z>> \in R /\ Reaches(R, C, Tail(st), z, y)
<1>1. PICK c \in Seq(C) : /\ Len(c) = Len(st) + 1 /\ c[1] = x /\ c[Len(st) + 1] = y
                          /\ \A i \in 1 .. Len(st) : <<st[i], c[i], c[i + 1]>> \in R
  BY DEF Reaches
<1> DEFINE n == Len(st)
           rest == Tail(st)
           d == Tail(c)
<1>2. n \in Nat \ {0} /\ c # <<>> /\ Head(st) = st[1]
  BY <1>1
<1>3. /\ rest \in Seq(F) /\ Len(rest) = n - 1
      /\ \A i \in 1 .. n - 1 : rest[i] = st[i + 1]
  BY HeadTailProperties
<1>4. /\ d \in Seq(C) /\ Len(d) = Len(c) - 1
      /\ \A i \in 1 .. Len(c) - 1 : d[i] = c[i + 1]
  <2>1. c \in Seq(C) /\ c # <<>>
    BY <1>2
  <2>2. QED
    BY <2>1, HeadTailProperties
<1> HIDE DEF n, rest, d
<1>5. Len(c) = n + 1
  BY <1>1 DEF n
<1>6. /\ 1 \in 1 .. n /\ 1 \in 1 .. n + 1 /\ 2 \in 1 .. n + 1 /\ n \in 1 .. n /\ Len(d) = n
      /\ Len(rest) + 1 = n /\ (n + 1) - 1 = n /\ n - 1 \in Nat
  BY <1>2, <1>3, <1>4, <1>5
<1>7. c[1] \in C /\ c[1 + 1] \in C /\ <<st[1], c[1], c[1 + 1]>> \in R
  BY <1>1, <1>5, <1>6 DEF n
<1>8. d[1] = c[1 + 1] /\ d[n] = y
  BY <1>1, <1>4, <1>5, <1>6 DEF n
<1>9. \A i \in 1 .. Len(rest) : <<rest[i], d[i], d[i + 1]>> \in R
  <2> SUFFICES ASSUME NEW i \in 1 .. n - 1 PROVE <<rest[i], d[i], d[i + 1]>> \in R
    BY <1>3
  <2>1. i + 1 \in 1 .. n /\ i \in 1 .. n
    BY <1>2
  <2>2. rest[i] = st[i + 1] /\ d[i] = c[i + 1] /\ d[i + 1] = c[(i + 1) + 1]
    BY <1>3, <1>4, <1>5, <1>6, <2>1
  <2>3. <<st[i + 1], c[i + 1], c[(i + 1) + 1]>> \in R
    BY <1>1, <2>1 DEF n
  <2>4. QED
    BY <2>2, <2>3
<1>10. Reaches(R, C, rest, d[1], y)
  BY <1>4, <1>6, <1>8, <1>9 DEF Reaches
<1>11. QED
  BY <1>1, <1>2, <1>7, <1>8, <1>10 DEF rest

-----------------------------------------------------------------------------
(* Frames: what a function has kept when it goes on.                        *)
Functions ==
  {"exp", "exp.quantifier", "domain", "alternative", "domain.more", "domain.quantifier",
   "seq", "seq.boundary", "seq.exp", "seq.next", "next",
   "rseq", "rseq.exp", "rseq.prec", "prec", "allExpr", "allExpr.path", "allExpr.more", "sep"}
Operated == {"exp.quantifier", "seq.next", "rseq.prec", "next", "prec", "sep", "allExpr.more"}
Trees == {END} \cup SeqTrees
Ports == {0} \cup {t.content : t \in Tokens}
Frames == {f \in [at : Functions, kept : Seq(Trees), port : Ports] :
             /\ f.at \in Operated => Len(f.kept) = 1
             /\ f.at = "domain.quantifier" => f.kept # <<>>}

Cuts == [at : Nat \ {0}, nt : Nonterminals \cup {"none"}]
Cut(at, nt) == [at |-> at, nt |-> nt]

(* What a frame waits for and what its function returns. *)
Awaits(f) == IF f.at \in {"seq.exp", "rseq.exp"} THEN "exp"
             ELSE IF f.at \in {"next", "domain.more", "allExpr.path"} THEN "seq"
             ELSE IF f.at = "prec" THEN "rseq"
             ELSE IF f.at = "sep" THEN "query" ELSE "none"
Computes(f) == IF f.at \in {"exp", "exp.quantifier", "domain", "alternative", "domain.more", "domain.quantifier"} THEN {"exp"}
               ELSE IF f.at \in {"seq", "seq.boundary", "seq.exp", "seq.next", "next"} THEN {"seq"}
               ELSE IF f.at \in {"rseq", "rseq.exp", "rseq.prec"} THEN {"rseq"}
               ELSE IF f.at = "prec" THEN (IF f.kept[1] = END THEN {"seq"} ELSE {"seq", "rseq"})
               ELSE {"query"}

(* A function that began at a and goes on at p in frame f: what it has read. *)
Opened(w, a, p, branches) ==
  /\ a \in 1 .. Len(w) /\ w[a].type = "LPAREN"
  /\ IF branches = <<>> THEN p = a + 1 ELSE Derives(w, "list", a + 1, p - 1, branches) /\ w[p - 1].type = "ALT"
Before(w, f, a, p) ==
  /\ f.at \in {"exp", "domain", "seq", "seq.exp", "rseq", "rseq.exp", "allExpr", "allExpr.path"} => p = a
  /\ f.at = "exp.quantifier" => p = a + 1 /\ a \in 1 .. Len(w) /\ w[a].type = "KEY" /\ f.kept[1] = w[a].content
  /\ f.at \in {"alternative", "domain.more"} => Opened(w, a, p, f.kept)
  /\ f.at = "domain.quantifier" => GroupAt(w, a, p - 1, f.kept)
  /\ f.at = "seq.boundary" => p = a + 1 /\ BoundaryAt(w, a)
  /\ f.at \in {"seq.next", "next"} =>
       Derives(w, "exp", a, p - 1, f.kept[1]) /\ w[p - 1].type = "NEXT" /\ f.port = w[p - 1].content
  /\ f.at = "next" => w[p].type # "END"
  /\ f.at = "rseq.prec" =>
       Derives(w, "exp", a, p - 1, f.kept[1]) /\ w[p - 1].type = "PREC" /\ f.port = w[p - 1].content
  /\ f.at = "prec" =>
       /\ w[p - 1].type = "PREC" /\ f.port = w[p - 1].content
       /\ IF f.kept[1] = END THEN BoundaryAt(w, a) /\ p = a + 2 ELSE Derives(w, "exp", a, p - 1, f.kept[1])
  /\ f.at \in {"allExpr.more", "sep"} => Derives(w, "seq", a, p - 1, f.kept[1]) /\ w[p - 1].type = "SEP"

(* A stack whose functions began one inside the other, the first one at the *)
(* start of the word.                                                       *)
Doing(w) == {d \in Frames \X Cuts \X Cuts :
               d[2].nt = Awaits(d[1]) /\ d[3].nt \in Computes(d[1]) /\ Before(w, d[1], d[3].at, d[2].at)}
Began(w, st, x) == Reaches(Doing(w), Cuts, st, x, Cut(1, "query"))

(* A value has been read where its reader began. *)
Given(w, nt, a, p, v) == Derives(w, nt, a, p, v) /\ (nt = "query" => w[p].type = "STOP")

(* What the parser has read before p agrees with its stack and its value. *)
Sound(w, st, p, v) ==
  \E x \in Cuts : Began(w, st, x) /\ IF x.nt = "none" THEN x.at = p ELSE Given(w, x.nt, x.at, p, v)

(* A cut is where a function began and what it will return. *)
LEMMA CutOf ==
  ASSUME NEW a \in Nat \ {0}, NEW nt \in Nonterminals \cup {"none"}
  PROVE  Cut(a, nt) \in Cuts /\ Cut(a, nt).at = a /\ Cut(a, nt).nt = nt
  BY DEF Cuts, Cut

(* A cut has these two parts. *)
LEMMA CutIs ==
  ASSUME NEW x \in Cuts
  PROVE  x = Cut(x.at, x.nt) /\ x.at \in Nat \ {0} /\ x.nt \in Nonterminals \cup {"none"}
  BY DEF Cuts, Cut

(* A frame waits for a nonterminal or for nothing, and returns a            *)
(* nonterminal.                                                             *)
LEMMA AwaitsComputes ==
  ASSUME NEW f \in Frames
  PROVE  Awaits(f) \in Nonterminals \cup {"none"} /\ Computes(f) \subseteq Nonterminals \ {"none"}
  BY DEF Awaits, Computes, Nonterminals

(* The stack, frame by frame: the one on top, what it waits for, and where *)
(* its function began.                                                      *)
LEMMA BeganTop ==
  ASSUME NEW w, NEW st \in Seq(Frames), st # <<>>, NEW x, Began(w, st, x)
  PROVE  /\ x.nt = Awaits(Head(st))
         /\ \E a \in Nat \ {0}, nt \in Computes(Head(st)) :
              Before(w, Head(st), a, x.at) /\ Began(w, Tail(st), Cut(a, nt))
<1>1. PICK z \in Cuts : <<Head(st), x, z>> \in Doing(w) /\ Began(w, Tail(st), z)
  BY ReachesUnfold DEF Began
<1> DEFINE d == <<Head(st), x, z>>
<1>2. d[1] = Head(st) /\ d[2] = x /\ d[3] = z
  OBVIOUS
<1>3. d[2].nt = Awaits(d[1]) /\ d[3].nt \in Computes(d[1]) /\ Before(w, d[1], d[3].at, d[2].at)
  BY <1>1 DEF Doing
<1>4. z = Cut(z.at, z.nt) /\ z.at \in Nat \ {0}
  BY CutIs
<1>5. QED
  BY <1>1, <1>2, <1>3, <1>4

(* A frame that goes on at p puts itself on top. *)
LEMMA BeganPush ==
  ASSUME NEW w, NEW rest \in Seq(Frames), NEW f \in Frames, NEW a \in Nat \ {0}, NEW p \in Nat \ {0},
         NEW nt \in Computes(f), Before(w, f, a, p), Began(w, rest, Cut(a, nt))
  PROVE  Began(w, <<f>> \o rest, Cut(p, Awaits(f)))
<1> DEFINE x == Cut(p, Awaits(f))
           z == Cut(a, nt)
           d == <<f, x, z>>
<1>1. Awaits(f) \in Nonterminals \cup {"none"} /\ nt \in Nonterminals
  BY AwaitsComputes
<1>2. x \in Cuts /\ x.at = p /\ x.nt = Awaits(f) /\ z \in Cuts /\ z.at = a /\ z.nt = nt
  BY <1>1, CutOf
<1> HIDE DEF x, z
<1>3. d[1] = f /\ d[2] = x /\ d[3] = z /\ d \in Frames \X Cuts \X Cuts
  BY <1>2
<1>4. d[2].nt = Awaits(d[1]) /\ d[3].nt \in Computes(d[1]) /\ Before(w, d[1], d[3].at, d[2].at)
  BY <1>2, <1>3
<1>5. d \in Doing(w)
  BY <1>3, <1>4 DEF Doing
<1>6. Reaches(Doing(w), Cuts, rest, z, Cut(1, "query"))
  BY DEF Began, z
<1>7. Reaches(Doing(w), Cuts, <<f>> \o rest, x, Cut(1, "query"))
  BY <1>2, <1>5, <1>6, ReachesFold
<1>8. QED
  BY <1>7 DEF Began, x

(* The ways in which a step changes the stack. *)
LEMMA SoundTop ==
  ASSUME NEW w, NEW st \in Seq(Frames), st # <<>>, NEW p, NEW v, Sound(w, st, p, v), Awaits(Head(st)) = "none"
  PROVE  \E a \in Nat \ {0}, nt \in Computes(Head(st)) :
           Before(w, Head(st), a, p) /\ Began(w, Tail(st), Cut(a, nt))
<1>1. PICK x \in Cuts : Began(w, st, x) /\ IF x.nt = "none" THEN x.at = p ELSE Given(w, x.nt, x.at, p, v)
  BY DEF Sound
<1>2. x.nt = "none"
  BY <1>1, BeganTop
<1>3. x.at = p
  BY <1>1, <1>2
<1>4. QED
  BY <1>1, <1>3, BeganTop

(* ... a frame that waited gets the value ... *)
LEMMA SoundBack ==
  ASSUME NEW w, NEW st \in Seq(Frames), st # <<>>, NEW p, NEW v, Sound(w, st, p, v), Awaits(Head(st)) # "none"
  PROVE  \E m \in Nat \ {0}, a \in Nat \ {0}, nt \in Computes(Head(st)) :
           /\ Given(w, Awaits(Head(st)), m, p, v)
           /\ Before(w, Head(st), a, m) /\ Began(w, Tail(st), Cut(a, nt))
<1>1. PICK x \in Cuts : Began(w, st, x) /\ IF x.nt = "none" THEN x.at = p ELSE Given(w, x.nt, x.at, p, v)
  BY DEF Sound
<1>2. x.nt = Awaits(Head(st))
  BY <1>1, BeganTop
<1>3. Given(w, Awaits(Head(st)), x.at, p, v)
  BY <1>1, <1>2
<1>4. x.at \in Nat \ {0}
  BY CutIs
<1>5. PICK a \in Nat \ {0}, nt \in Computes(Head(st)) :
        Before(w, Head(st), a, x.at) /\ Began(w, Tail(st), Cut(a, nt))
  BY <1>1, BeganTop
<1>6. QED
  BY <1>3, <1>4, <1>5

(* ... a function returns its tree ... *)
LEMMA SoundReturn ==
  ASSUME NEW w, NEW rest, NEW a \in Nat \ {0}, NEW nt \in Nonterminals, NEW p, NEW v,
         Began(w, rest, Cut(a, nt)), Given(w, nt, a, p, v)
  PROVE  Sound(w, rest, p, v)
<1> DEFINE x == Cut(a, nt)
<1>1. x \in Cuts /\ x.at = a /\ x.nt = nt
  BY CutOf
<1>2. x.nt # "none"
  BY <1>1 DEF Nonterminals
<1> HIDE DEF x
<1>3. Began(w, rest, x)
  BY DEF x
<1>4. QED
  BY <1>1, <1>2, <1>3 DEF Sound

(* ... goes on in another frame ... *)
LEMMA SoundStay ==
  ASSUME NEW w, NEW rest \in Seq(Frames), NEW f \in Frames, NEW a \in Nat \ {0}, NEW p \in Nat \ {0}, NEW v,
         NEW nt \in Computes(f), Before(w, f, a, p), Began(w, rest, Cut(a, nt)), Awaits(f) = "none"
  PROVE  Sound(w, <<f>> \o rest, p, v)
<1> DEFINE x == Cut(p, Awaits(f))
<1>1. x \in Cuts /\ x.at = p /\ x.nt = "none"
  BY CutOf
<1>2. Began(w, <<f>> \o rest, x)
  BY BeganPush
<1> HIDE DEF x
<1>3. QED
  BY <1>1, <1>2 DEF Sound

(* Two frames are put on the stack one after the other. *)
LEMMA TwoFrames ==
  ASSUME NEW g \in Frames, NEW f \in Frames, NEW rest \in Seq(Frames)
  PROVE  <<f>> \o rest \in Seq(Frames) /\ <<g, f>> \o rest = <<g>> \o (<<f>> \o rest)
<1>1. <<f>> \in Seq(Frames) /\ <<g>> \in Seq(Frames) /\ <<g, f>> = <<g>> \o <<f>>
  <2>1. <<g, f>> = <<g>> \o <<f>>
    <3> DEFINE one == <<f>>
               two == <<g>>
               both == <<g, f>>
               joined == two \o one
    <3>1. one \in Seq(Frames) /\ two \in Seq(Frames) /\ Len(one) = 1 /\ Len(two) = 1 /\ one[1] = f /\ two[1] = g
          /\ both \in Seq(Frames) /\ Len(both) = 2 /\ both[1] = g /\ both[2] = f
      OBVIOUS
    <3> HIDE DEF one, two, both
    <3>2. /\ joined \in Seq(Frames) /\ Len(joined) = Len(two) + Len(one)
          /\ \A i \in 1 .. Len(two) + Len(one) : joined[i] = IF i <= Len(two) THEN two[i] ELSE one[i - Len(two)]
      BY <3>1, ConcatProperties
    <3> HIDE DEF joined
    <3>3. Len(joined) = 2 /\ joined[1] = g /\ joined[2] = f
      BY <3>1, <3>2
    <3>4. \A i \in 1 .. Len(both) : both[i] = joined[i]
      BY <3>1, <3>3
    <3>5. both = joined
      BY <3>1, <3>2, <3>3, <3>4, SeqEqual
    <3>6. QED
      BY <3>5 DEF both, joined, one, two
  <2>2. <<f>> \in Seq(Frames) /\ <<g>> \in Seq(Frames)
    OBVIOUS
  <2>3. QED
    BY <2>1, <2>2
<1> DEFINE one == <<f>>
           two == <<g>>
<1> HIDE DEF one, two
<1>2. one \in Seq(Frames) /\ two \in Seq(Frames)
  BY <1>1 DEF one, two
<1>3. one \o rest \in Seq(Frames) /\ (two \o one) \o rest = two \o (one \o rest)
  BY <1>2, ConcatProperties, ConcatAssociative
<1>4. QED
  BY <1>1, <1>3 DEF one, two

(* ... or calls a function and waits for it. *)
LEMMA SoundCall ==
  ASSUME NEW w, NEW rest \in Seq(Frames), NEW g \in Frames, NEW f \in Frames,
         NEW a \in Nat \ {0}, NEW p \in Nat \ {0}, NEW v,
         NEW nt \in Computes(f), Before(w, f, a, p), Began(w, rest, Cut(a, nt)),
         Awaits(f) \in Computes(g), Awaits(g) = "none", Before(w, g, p, p)
  PROVE  Sound(w, <<g, f>> \o rest, p, v)
<1> DEFINE below == <<f>> \o rest
<1>1. below \in Seq(Frames) /\ <<g, f>> \o rest = <<g>> \o below
  BY TwoFrames
<1>2. Began(w, below, Cut(p, Awaits(f)))
  BY BeganPush
<1> HIDE DEF below
<1>3. Sound(w, <<g>> \o below, p, v)
  BY <1>1, <1>2, SoundStay
<1>4. QED
  BY <1>1, <1>3

(* A sequence that does not begin with a boundary may follow an arrow. *)
LEMMA SeqPlain ==
  ASSUME NEW w, Word(w), NEW a, NEW b, NEW tree, Derives(w, "seq", a, b, tree), w[a].type # "END"
  PROVE  Derives(w, "plain", a, b, tree)
<1> DEFINE n == b - a
<1>1. a \in 1 .. Len(w) /\ b \in 1 .. Len(w) /\ a < b /\ n \in 1 .. MaxLength /\ a \in Nat \ {0}
  BY SpanBounds
<1>2. PICK s \in Grammar[b - a]["seq"] : s.text \in Seq(Letters) /\ Len(s.text) = b - a /\ s.tree = tree /\ Reads(w, a, s.text)
  BY DEF Derives, Fits
<1>3. s \in Grammar[n].seq
  BY <1>2
<1> HIDE DEF n
<1>4. CASE n > 2 /\ s \in Links("PREC", Boundary, Grammar[n - 2].rseq)
  <2>1. PICK l \in Boundary, t \in TokensOf({"PREC"}), r \in Grammar[n - 2].rseq : s = Chained(l, t, r)
    BY <1>4, LinkCases
  <2>2. l.text \in Seq(Letters) /\ Len(l.text) = 1 /\ l.text[1].type = "END" /\ s.text = Around(l, t, r)
    BY <2>1, ProperBoundary DEF Chained, Sentence
  <2>3. n - 2 \in 1 .. MaxLength
    BY <1>1, <1>4, LengthBound
  <2>4. r.text \in Seq(Letters)
    BY <2>3, AllLevelsProper DEF Proper, ProperText, Nonterminals
  <2>5. t \in Letters
    BY TokenIsLetter
  <2> DEFINE u == l.text
             v == r.text
  <2>6. u \in Seq(Letters) /\ v \in Seq(Letters) /\ Len(u) = 1 /\ u[1].type = "END" /\ Reads(w, a, u \o <<t>> \o v)
    BY <1>2, <2>2, <2>4 DEF Around
  <2> HIDE DEF u, v
  <2>7. Reads(w, a, u)
    BY <1>1, <2>5, <2>6, ReadsAround
  <2>8. w[a - 1 + 1] = u[1]
    BY <2>6, <2>7 DEF Reads
  <2>9. a - 1 + 1 = a
    BY <1>1
  <2>10. QED
    BY <2>6, <2>8, <2>9
<1>5. CASE s \in Grammar[n].plain
  BY <1>1, <1>2, <1>5 DEF Derives, Fits, n
<1>6. QED
  BY <1>1, <1>3, <1>4, <1>5, SeqCases

(* A frame, from its parts. *)
LEMMA FrameOf ==
  ASSUME NEW at \in Functions, NEW kept \in Seq(Trees), NEW port \in Ports,
         at \in Operated => Len(kept) = 1, at = "domain.quantifier" => kept # <<>>
  PROVE  /\ Frame(at, kept, port) \in Frames
         /\ Frame(at, kept, port).at = at /\ Frame(at, kept, port).kept = kept /\ Frame(at, kept, port).port = port
  BY DEF Frame, Frames

(* A called function has kept nothing. *)
LEMMA CallOf ==
  ASSUME NEW at \in Functions \ (Operated \cup {"domain.quantifier"})
  PROVE  Call(at) \in Frames /\ Call(at).at = at /\ Call(at).kept = <<>>
<1> DEFINE none == <<>>
           zero == 0
<1>1. none \in Seq(Trees) /\ zero \in Ports /\ at \in Functions /\ at \notin Operated /\ at # "domain.quantifier"
  BY DEF Ports
<1> HIDE DEF none, zero
<1>2. Frame(at, none, zero) \in Frames /\ Frame(at, none, zero).at = at /\ Frame(at, none, zero).kept = none
  BY <1>1, FrameOf
<1>3. QED
  BY <1>2 DEF Call, none, zero

(* The parts of a frame. *)
LEMMA FrameIs ==
  ASSUME NEW f \in Frames
  PROVE  /\ f.at \in Functions /\ f.kept \in Seq(Trees) /\ f.port \in Ports
         /\ f.at \in Operated => Len(f.kept) = 1
         /\ f.at = "domain.quantifier" => f.kept # <<>>
  BY DEF Frames

(* A sequence of one tree. *)
LEMMA TreeOf ==
  ASSUME NEW tree \in Trees
  PROVE  <<tree>> \in Seq(Trees) /\ Len(<<tree>>) = 1 /\ <<tree>>[1] = tree
  OBVIOUS

(* The port that an arrow carries. *)
LEMMA PortOf ==
  ASSUME NEW w, Word(w), NEW m \in 1 .. Len(w), w[m].type \in {"NEXT", "PREC"}
  PROVE  w[m].content \in Ports
<1>1. w[m] \in Tokens
  BY TokenAt DEF TokensOf
<1>2. QED
  BY <1>1 DEF Ports

(* The tree of an expression or of a sequence may be kept. *)
LEMMA SpanTree ==
  ASSUME NEW w, Word(w), NEW nt \in {"exp", "seq"}, NEW a, NEW b, NEW tree, Derives(w, nt, a, b, tree)
  PROVE  tree \in Trees
<1>1. Derives(w, "seq", a, b, tree)
  BY ExpSpan
<1>2. tree \in SeqTrees
  BY <1>1, SpanProper DEF Nonterminals
<1>3. QED
  BY <1>2 DEF Trees

(* The stack and the value after a step. *)
Fine(w, st, p, v) == st \in Seq(Frames) /\ Sound(w, st, p, v)

(* The frame on top that waits for nothing: where its function began. *)
LEMMA FineTop ==
  ASSUME NEW w, NEW st, st # <<>>, NEW p, NEW v, Fine(w, st, p, v), Awaits(Head(st)) = "none"
  PROVE  /\ Head(st) \in Frames /\ Tail(st) \in Seq(Frames)
         /\ \E a \in Nat \ {0}, nt \in Computes(Head(st)) :
              Before(w, Head(st), a, p) /\ Began(w, Tail(st), Cut(a, nt))
<1>1. st \in Seq(Frames) /\ Sound(w, st, p, v)
  BY DEF Fine
<1>2. Head(st) \in Frames /\ Tail(st) \in Seq(Frames)
  BY <1>1, HeadTailProperties
<1>3. QED
  BY <1>1, <1>2, SoundTop

(* The frame on top that waited: where the value was read, and where its    *)
(* function began.                                                          *)
LEMMA FineBack ==
  ASSUME NEW w, NEW st, st # <<>>, NEW p, NEW v, Fine(w, st, p, v), Awaits(Head(st)) # "none"
  PROVE  /\ Head(st) \in Frames /\ Tail(st) \in Seq(Frames)
         /\ \E m \in Nat \ {0}, a \in Nat \ {0}, nt \in Computes(Head(st)) :
              /\ Given(w, Awaits(Head(st)), m, p, v)
              /\ Before(w, Head(st), a, m) /\ Began(w, Tail(st), Cut(a, nt))
<1>1. st \in Seq(Frames) /\ Sound(w, st, p, v)
  BY DEF Fine
<1>2. Head(st) \in Frames /\ Tail(st) \in Seq(Frames)
  BY <1>1, HeadTailProperties
<1>3. QED
  BY <1>1, <1>2, SoundBack

(* A function returns the tree of what it has read. *)
LEMMA FineReturn ==
  ASSUME NEW w, NEW rest \in Seq(Frames), NEW a \in Nat \ {0}, NEW nt \in Nonterminals, NEW p, NEW v,
         Began(w, rest, Cut(a, nt)), Derives(w, nt, a, p, v), nt = "query" => w[p].type = "STOP"
  PROVE  Fine(w, rest, p, v)
<1>1. Given(w, nt, a, p, v)
  BY DEF Given
<1>2. QED
  BY <1>1, SoundReturn DEF Fine

(* A function goes on in the frame f. *)
LEMMA FineStay ==
  ASSUME NEW w, NEW rest \in Seq(Frames), NEW f \in Frames, NEW a \in Nat \ {0}, NEW p \in Nat \ {0}, NEW v,
         NEW nt \in Computes(f), Before(w, f, a, p), Began(w, rest, Cut(a, nt)), Awaits(f) = "none"
  PROVE  Fine(w, <<f>> \o rest, p, v)
<1> DEFINE one == <<f>>
<1>1. one \in Seq(Frames)
  OBVIOUS
<1>2. one \o rest \in Seq(Frames)
  <2> HIDE DEF one
  <2>1. QED
    BY <1>1, ConcatProperties
<1>3. QED
  BY <1>2, SoundStay DEF Fine

(* A function goes on in the frame f, once the function g has returned. *)
LEMMA FineCall ==
  ASSUME NEW w, NEW rest \in Seq(Frames), NEW g \in Frames, NEW f \in Frames,
         NEW a \in Nat \ {0}, NEW p \in Nat \ {0}, NEW v,
         NEW nt \in Computes(f), Before(w, f, a, p), Began(w, rest, Cut(a, nt)),
         Awaits(f) \in Computes(g), Awaits(g) = "none", Before(w, g, p, p)
  PROVE  Fine(w, <<g, f>> \o rest, p, v)
<1> DEFINE both == <<g, f>>
<1>1. both \in Seq(Frames)
  OBVIOUS
<1>2. both \o rest \in Seq(Frames)
  <2> HIDE DEF both
  <2>1. QED
    BY <1>1, ConcatProperties
<1>3. QED
  BY <1>2, SoundCall DEF Fine

(* A called function begins where the parser is. *)
LEMMA BeginsHere ==
  ASSUME NEW w, NEW at \in {"exp", "domain", "seq", "rseq", "allExpr"}, NEW p
  PROVE  /\ Call(at) \in Frames /\ Before(w, Call(at), p, p) /\ Awaits(Call(at)) = "none"
         /\ at = "seq" => Computes(Call(at)) = {"seq"}
         /\ at = "rseq" => Computes(Call(at)) = {"rseq"}
         /\ at = "allExpr" => Computes(Call(at)) = {"query"}
         /\ at \in {"exp", "domain"} => Computes(Call(at)) = {"exp"}
<1>1. Call(at) \in Frames /\ Call(at).at = at
  BY CallOf DEF Functions, Operated
<1>2. QED
  BY <1>1 DEF Before, Awaits, Computes

-----------------------------------------------------------------------------
(* The steps of the functions, over a word that the text begins.            *)
InWord(w, p) == Word(w) /\ p \in 1 .. Len(w)

(* A position of a word. *)
LEMMA InWordBounds ==
  ASSUME NEW w, NEW p, InWord(w, p)
  PROVE  Word(w) /\ p \in 1 .. Len(w) /\ p \in Nat \ {0} /\ Len(w) \in Nat
  BY WordLength DEF InWord

(* constructAstExp. *)
LEMMA FineKey ==
  ASSUME NEW w, NEW st, st # <<>>, NEW p, NEW v, Fine(w, st, p, v), Head(st).at = "exp",
         InWord(w, p), InWord(w, p + 1), w[p].type \in Keys
  PROVE  /\ Fine(w, Tail(st), p + 1, w[p].content)
         /\ w[p].type = "KEY" => Fine(w, <<Frame("exp.quantifier", <<w[p].content>>, 0)>> \o Tail(st), p + 1, v)
<1> DEFINE f == Head(st)
           c == w[p].content
<1>1. Awaits(f) = "none" /\ Computes(f) = {"exp"}
  BY DEF Awaits, Computes
<1>2. /\ Tail(st) \in Seq(Frames)
      /\ \E a \in Nat \ {0}, nt \in Computes(f) : Before(w, f, a, p) /\ Began(w, Tail(st), Cut(a, nt))
  BY <1>1, FineTop
<1>3. PICK a \in Nat \ {0} : Before(w, f, a, p) /\ Began(w, Tail(st), Cut(a, "exp"))
  BY <1>1, <1>2
<1>4. a = p
  BY <1>3 DEF Before
<1>5. p \in 1 .. Len(w) /\ p + 1 \in 1 .. Len(w) /\ Word(w) /\ p \in Nat \ {0} /\ p + 1 \in Nat \ {0}
  BY InWordBounds
<1>6. Derives(w, "exp", p, p + 1, c)
  BY <1>5, KeySpan
<1>7. Fine(w, Tail(st), p + 1, c)
  BY <1>2, <1>3, <1>4, <1>6, FineReturn DEF Nonterminals
<1>8. ASSUME w[p].type = "KEY" PROVE Fine(w, <<Frame("exp.quantifier", <<c>>, 0)>> \o Tail(st), p + 1, v)
  <2> DEFINE kept == <<c>>
             g == Frame("exp.quantifier", kept, 0)
  <2>1. kept \in Seq(Trees) /\ Len(kept) = 1 /\ kept[1] = c /\ 0 \in Ports
    BY <1>5, <1>6, SpanTree, TreeOf DEF Ports
  <2> HIDE DEF c, kept
  <2>2. g \in Frames /\ g.at = "exp.quantifier" /\ g.kept = kept
    BY <2>1, FrameOf DEF Functions
  <2> HIDE DEF g
  <2>3. Awaits(g) = "none" /\ Computes(g) = {"exp"}
    BY <2>2 DEF Awaits, Computes
  <2>4. Before(w, g, p, p + 1)
    BY <1>5, <1>8, <2>1, <2>2 DEF Before, c
  <2>5. Fine(w, <<g>> \o Tail(st), p + 1, v)
    BY <1>2, <1>3, <1>4, <1>5, <2>2, <2>3, <2>4, FineStay
  <2>6. QED
    BY <2>5 DEF g, kept, c
<1>9. QED
  BY <1>7, <1>8

(* ... and its quantifier, or none. *)
LEMMA FineQuantifier ==
  ASSUME NEW w, NEW st, st # <<>>, NEW p, NEW v, Fine(w, st, p, v), Head(st).at = "exp.quantifier", InWord(w, p)
  PROVE  /\ Fine(w, Tail(st), p, Head(st).kept[1])
         /\ InWord(w, p + 1) /\ w[p].type \in DOMAIN Symbol
              => Fine(w, Tail(st), p + 1, QUANTIFIED(Head(st).kept[1], Symbol[w[p].type]))
<1> DEFINE f == Head(st)
           c == f.kept[1]
<1>1. Awaits(f) = "none" /\ Computes(f) = {"exp"}
  BY DEF Awaits, Computes
<1>2. /\ Tail(st) \in Seq(Frames)
      /\ \E a \in Nat \ {0}, nt \in Computes(f) : Before(w, f, a, p) /\ Began(w, Tail(st), Cut(a, nt))
  BY <1>1, FineTop
<1>3. PICK a \in Nat \ {0} : Before(w, f, a, p) /\ Began(w, Tail(st), Cut(a, "exp"))
  BY <1>1, <1>2
<1>4. p = a + 1 /\ a \in 1 .. Len(w) /\ w[a].type = "KEY" /\ c = w[a].content
  BY <1>3 DEF Before
<1>5. Word(w) /\ p \in 1 .. Len(w)
  BY InWordBounds
<1>6. Derives(w, "exp", a, a + 1, c)
  BY <1>4, <1>5, KeySpan DEF Keys
<1>7. Fine(w, Tail(st), p, c)
  BY <1>2, <1>3, <1>4, <1>6, FineReturn DEF Nonterminals
<1>8. ASSUME InWord(w, p + 1), w[p].type \in DOMAIN Symbol
      PROVE  Fine(w, Tail(st), p + 1, QUANTIFIED(c, Symbol[w[p].type]))
  <2>1. a + 2 \in 1 .. Len(w) /\ a + 2 = p + 1 /\ a + 1 = p
    BY <1>4, <1>8 DEF InWord
  <2>2. QuantifierAt(w, a + 1)
    BY <1>5, <1>8, <2>1 DEF QuantifierAt
  <2>3. Derives(w, "exp", a, a + 2, QUANTIFIED(w[a].content, Symbol[w[a + 1].type]))
    BY <1>4, <1>5, <2>1, <2>2, RepeatedKeySpan
  <2>4. Derives(w, "exp", a, p + 1, QUANTIFIED(c, Symbol[w[p].type]))
    BY <1>4, <2>1, <2>3
  <2>5. QED
    BY <1>2, <1>3, <2>4, FineReturn DEF Nonterminals
<1>9. QED
  BY <1>7, <1>8

(* A function that has read nothing calls another one, or only goes on. *)
LEMMA FineEnter ==
  ASSUME NEW w, NEW st, st # <<>>, NEW p, NEW v, Fine(w, st, p, v), InWord(w, p)
  PROVE  /\ Head(st).at = "exp" => Fine(w, <<Call("domain")>> \o Tail(st), p, v)
         /\ Head(st).at = "seq" => Fine(w, <<Call("exp"), Call("seq.exp")>> \o Tail(st), p, v)
         /\ Head(st).at = "rseq" => Fine(w, <<Call("exp"), Call("rseq.exp")>> \o Tail(st), p, v)
         /\ Head(st).at = "allExpr" => Fine(w, <<Call("seq"), Call("allExpr.path")>> \o Tail(st), p, v)
<1> DEFINE f == Head(st)
<1>1. Word(w) /\ p \in Nat \ {0}
  BY InWordBounds
<1>2. ASSUME f.at \in {"exp", "seq", "rseq", "allExpr"}
      PROVE  /\ Tail(st) \in Seq(Frames)
             /\ \E nt \in Computes(f) : Began(w, Tail(st), Cut(p, nt))
  <2>1. Awaits(f) = "none"
    BY <1>2 DEF Awaits
  <2>2. /\ Tail(st) \in Seq(Frames)
        /\ \E a \in Nat \ {0}, nt \in Computes(f) : Before(w, f, a, p) /\ Began(w, Tail(st), Cut(a, nt))
    BY <2>1, FineTop
  <2>3. PICK a \in Nat \ {0}, nt \in Computes(f) : Before(w, f, a, p) /\ Began(w, Tail(st), Cut(a, nt))
    BY <2>2
  <2>4. a = p
    BY <1>2, <2>3 DEF Before
  <2>5. QED
    BY <2>2, <2>3, <2>4
<1>3. ASSUME f.at = "exp" PROVE Fine(w, <<Call("domain")>> \o Tail(st), p, v)
  <2> DEFINE g == Call("domain")
  <2>1. g \in Frames /\ Awaits(g) = "none" /\ Computes(g) = {"exp"} /\ Before(w, g, p, p)
    BY BeginsHere
  <2>2. Computes(f) = {"exp"}
    BY <1>3 DEF Computes
  <2>3. Tail(st) \in Seq(Frames) /\ Began(w, Tail(st), Cut(p, "exp"))
    BY <1>2, <1>3, <2>2
  <2> HIDE DEF g
  <2>4. Fine(w, <<g>> \o Tail(st), p, v)
    BY <1>1, <2>1, <2>3, FineStay
  <2>5. QED
    BY <2>4 DEF g
<1>4. ASSUME NEW at \in {"seq", "rseq", "allExpr"}, f.at = at,
             NEW called \in {"exp", "seq"}, called = IF at = "allExpr" THEN "seq" ELSE "exp",
             NEW next \in {"seq.exp", "rseq.exp", "allExpr.path"},
             next = IF at = "seq" THEN "seq.exp" ELSE IF at = "rseq" THEN "rseq.exp" ELSE "allExpr.path"
      PROVE  Fine(w, <<Call(called), Call(next)>> \o Tail(st), p, v)
  <2> DEFINE g == Call(called)
             h == Call(next)
  <2>1. g \in Frames /\ Awaits(g) = "none" /\ Computes(g) = {called} /\ Before(w, g, p, p)
    BY BeginsHere
  <2>2. h \in Frames /\ h.at = next
    BY CallOf DEF Functions, Operated
  <2> HIDE DEF g, h
  <2>3. Awaits(h) = called /\ Computes(h) = Computes(f) /\ Before(w, h, p, p)
    BY <1>4, <2>2 DEF Awaits, Computes, Before
  <2>4. Tail(st) \in Seq(Frames)
    BY <1>2, <1>4
  <2>5. PICK nt \in Computes(f) : Began(w, Tail(st), Cut(p, nt))
    BY <1>2, <1>4
  <2>6. nt \in Computes(h) /\ Awaits(h) \in Computes(g)
    BY <2>1, <2>3
  <2> HIDE DEF f
  <2>7. Fine(w, <<g, h>> \o Tail(st), p, v)
    BY <1>1, <2>1, <2>2, <2>3, <2>4, <2>5, <2>6, FineCall
  <2>8. QED
    BY <2>7 DEF g, h
<1>5. ASSUME f.at = "seq" PROVE Fine(w, <<Call("exp"), Call("seq.exp")>> \o Tail(st), p, v)
  BY <1>4, <1>5
<1>6. ASSUME f.at = "rseq" PROVE Fine(w, <<Call("exp"), Call("rseq.exp")>> \o Tail(st), p, v)
  BY <1>4, <1>6
<1>7. ASSUME f.at = "allExpr" PROVE Fine(w, <<Call("seq"), Call("allExpr.path")>> \o Tail(st), p, v)
  BY <1>4, <1>7
<1>8. QED
  BY <1>3, <1>5, <1>6, <1>7

(* constructAstSeq and constructAstRseq, before an arrow. *)
LEMMA FineStartBoundary ==
  ASSUME NEW w, NEW st, st # <<>>, NEW p, NEW v, Fine(w, st, p, v), Head(st).at = "seq",
         InWord(w, p), InWord(w, p + 1), w[p].type = "END"
  PROVE  Fine(w, <<Call("seq.boundary")>> \o Tail(st), p + 1, v)
<1> DEFINE f == Head(st)
           g == Call("seq.boundary")
<1>1. Awaits(f) = "none" /\ Computes(f) = {"seq"}
  BY DEF Awaits, Computes
<1>2. /\ Tail(st) \in Seq(Frames)
      /\ \E a \in Nat \ {0}, nt \in Computes(f) : Before(w, f, a, p) /\ Began(w, Tail(st), Cut(a, nt))
  BY <1>1, FineTop
<1>3. PICK a \in Nat \ {0} : Before(w, f, a, p) /\ Began(w, Tail(st), Cut(a, "seq"))
  BY <1>1, <1>2
<1>4. a = p
  BY <1>3 DEF Before
<1>5. p \in 1 .. Len(w) /\ p + 1 \in Nat \ {0} /\ p \in Nat \ {0}
  BY InWordBounds
<1>6. g \in Frames /\ g.at = "seq.boundary"
  BY CallOf DEF Functions, Operated
<1> HIDE DEF g
<1>7. Awaits(g) = "none" /\ Computes(g) = {"seq"} /\ Before(w, g, p, p + 1)
  BY <1>5, <1>6 DEF Awaits, Computes, Before, BoundaryAt
<1>8. Fine(w, <<g>> \o Tail(st), p + 1, v)
  BY <1>2, <1>3, <1>4, <1>5, <1>6, <1>7, FineStay
<1>9. QED
  BY <1>8 DEF g

(* A frame of an arrow, whose left operand is kept. *)
LEMMA ArrowFrame ==
  ASSUME NEW w, Word(w), NEW p \in 1 .. Len(w), w[p].type \in {"NEXT", "PREC"}, NEW tree \in Trees,
         NEW at \in {"seq.next", "rseq.prec", "prec"}
  PROVE  LET g == Frame(at, <<tree>>, w[p].content)
         IN  g \in Frames /\ g.at = at /\ g.kept = <<tree>> /\ g.kept[1] = tree /\ g.port = w[p].content
<1> DEFINE kept == <<tree>>
           port == w[p].content
<1>1. kept \in Seq(Trees) /\ Len(kept) = 1 /\ kept[1] = tree
  BY TreeOf
<1>2. port \in Ports
  BY PortOf
<1>3. at \in Functions /\ at # "domain.quantifier"
  BY DEF Functions
<1> HIDE DEF kept, port
<1>4. Frame(at, kept, port) \in Frames /\ Frame(at, kept, port).at = at /\ Frame(at, kept, port).kept = kept
      /\ Frame(at, kept, port).port = port
  BY <1>1, <1>2, <1>3, FrameOf
<1>5. QED
  BY <1>1, <1>4 DEF kept, port

(* The boundary at the start of a sequence is followed by PREC. *)
LEMMA FineBoundary ==
  ASSUME NEW w, NEW st, st # <<>>, NEW p, NEW v, Fine(w, st, p, v), Head(st).at = "seq.boundary",
         InWord(w, p), InWord(w, p + 1), w[p].type = "PREC"
  PROVE  Fine(w, <<Call("rseq"), Frame("prec", <<END>>, w[p].content)>> \o Tail(st), p + 1, v)
<1> DEFINE f == Head(st)
           g == Call("rseq")
           h == Frame("prec", <<END>>, w[p].content)
<1>1. Awaits(f) = "none" /\ Computes(f) = {"seq"}
  BY DEF Awaits, Computes
<1>2. /\ Tail(st) \in Seq(Frames)
      /\ \E a \in Nat \ {0}, nt \in Computes(f) : Before(w, f, a, p) /\ Began(w, Tail(st), Cut(a, nt))
  BY <1>1, FineTop
<1>3. PICK a \in Nat \ {0} : Before(w, f, a, p) /\ Began(w, Tail(st), Cut(a, "seq"))
  BY <1>1, <1>2
<1>4. p = a + 1 /\ BoundaryAt(w, a)
  BY <1>3 DEF Before
<1>5. Word(w) /\ p \in 1 .. Len(w) /\ p + 1 \in Nat \ {0} /\ p \in Nat \ {0}
  BY InWordBounds
<1>6. h \in Frames /\ h.at = "prec" /\ h.kept[1] = END /\ h.port = w[p].content
  BY <1>5, ArrowFrame DEF Trees
<1>7. g \in Frames /\ Awaits(g) = "none" /\ Computes(g) = {"rseq"} /\ Before(w, g, p + 1, p + 1)
  BY BeginsHere
<1> HIDE DEF g, h
<1>8. Awaits(h) = "rseq" /\ Computes(h) = {"seq"}
  BY <1>6 DEF Awaits, Computes
<1>9. Before(w, h, a, p + 1)
  <2>1. (p + 1) - 1 = p /\ p + 1 = a + 2
    BY <1>4, <1>5
  <2>2. QED
    BY <1>4, <1>6, <2>1 DEF Before
<1>10. Fine(w, <<g, h>> \o Tail(st), p + 1, v)
  BY <1>2, <1>3, <1>5, <1>6, <1>7, <1>8, <1>9, FineCall
<1>11. QED
  BY <1>10 DEF g, h

(* The left operand of a NEXT is kept. *)
LEMMA FineNext ==
  ASSUME NEW w, NEW st, st # <<>>, NEW p, NEW v, Fine(w, st, p, v), Head(st).at = "seq.exp",
         InWord(w, p), InWord(w, p + 1), w[p].type = "NEXT"
  PROVE  Fine(w, <<Frame("seq.next", <<v>>, w[p].content)>> \o Tail(st), p + 1, v)
<1> DEFINE f == Head(st)
           h == Frame("seq.next", <<v>>, w[p].content)
<1>1. Awaits(f) = "exp" /\ Computes(f) = {"seq"}
  BY DEF Awaits, Computes
<1>2. /\ Tail(st) \in Seq(Frames)
      /\ \E m \in Nat \ {0}, a \in Nat \ {0}, nt \in Computes(f) :
           Given(w, Awaits(f), m, p, v) /\ Before(w, f, a, m) /\ Began(w, Tail(st), Cut(a, nt))
  BY <1>1, FineBack
<1>3. PICK m \in Nat \ {0}, a \in Nat \ {0} : Given(w, "exp", m, p, v) /\ Before(w, f, a, m) /\ Began(w, Tail(st), Cut(a, "seq"))
  BY <1>1, <1>2
<1>4. Derives(w, "exp", a, p, v)
  BY <1>3 DEF Before, Given
<1>5. Word(w) /\ p \in 1 .. Len(w) /\ p + 1 \in Nat \ {0} /\ p \in Nat \ {0}
  BY InWordBounds
<1>6. h \in Frames /\ h.at = "seq.next" /\ h.kept[1] = v /\ h.port = w[p].content
  BY <1>4, <1>5, ArrowFrame, SpanTree
<1> HIDE DEF h
<1>7. Awaits(h) = "none" /\ Computes(h) = {"seq"}
  BY <1>6 DEF Awaits, Computes
<1>8. Before(w, h, a, p + 1)
  <2>1. (p + 1) - 1 = p
    BY <1>5
  <2>2. QED
    BY <1>4, <1>6, <2>1 DEF Before
<1>9. Fine(w, <<h>> \o Tail(st), p + 1, v)
  BY <1>2, <1>3, <1>5, <1>6, <1>7, <1>8, FineStay
<1>10. QED
  BY <1>9 DEF h

(* The left operand of a PREC is kept, and the sequence after it called. *)
LEMMA FinePrec ==
  ASSUME NEW w, NEW st, st # <<>>, NEW p, NEW v, Fine(w, st, p, v), Head(st).at = "seq.exp",
         InWord(w, p), InWord(w, p + 1), w[p].type = "PREC"
  PROVE  Fine(w, <<Call("rseq"), Frame("prec", <<v>>, w[p].content)>> \o Tail(st), p + 1, v)
<1> DEFINE f == Head(st)
           g == Call("rseq")
           h == Frame("prec", <<v>>, w[p].content)
<1>1. Awaits(f) = "exp" /\ Computes(f) = {"seq"}
  BY DEF Awaits, Computes
<1>2. /\ Tail(st) \in Seq(Frames)
      /\ \E m \in Nat \ {0}, a \in Nat \ {0}, nt \in Computes(f) :
           Given(w, Awaits(f), m, p, v) /\ Before(w, f, a, m) /\ Began(w, Tail(st), Cut(a, nt))
  BY <1>1, FineBack
<1>3. PICK m \in Nat \ {0}, a \in Nat \ {0} : Given(w, "exp", m, p, v) /\ Before(w, f, a, m) /\ Began(w, Tail(st), Cut(a, "seq"))
  BY <1>1, <1>2
<1>4. Derives(w, "exp", a, p, v)
  BY <1>3 DEF Before, Given
<1>5. Word(w) /\ p \in 1 .. Len(w) /\ p + 1 \in Nat \ {0} /\ p \in Nat \ {0}
  BY InWordBounds
<1>6. h \in Frames /\ h.at = "prec" /\ h.kept[1] = v /\ h.port = w[p].content
  BY <1>4, <1>5, ArrowFrame, SpanTree
<1>7. g \in Frames /\ Awaits(g) = "none" /\ Computes(g) = {"rseq"} /\ Before(w, g, p + 1, p + 1)
  BY BeginsHere
<1>8. v # END
  BY <1>4, <1>5, SpanProper DEF Nonterminals
<1> HIDE DEF g, h
<1>9. Awaits(h) = "rseq" /\ Computes(h) = {"seq", "rseq"}
  BY <1>6, <1>8 DEF Awaits, Computes
<1>10. Before(w, h, a, p + 1)
  <2>1. (p + 1) - 1 = p
    BY <1>5
  <2>2. QED
    BY <1>4, <1>6, <1>8, <2>1 DEF Before
<1>11. Fine(w, <<g, h>> \o Tail(st), p + 1, v)
  BY <1>2, <1>3, <1>5, <1>6, <1>7, <1>9, <1>10, FineCall
<1>12. QED
  BY <1>11 DEF g, h

(* An expression without an arrow is the whole sequence. *)
LEMMA FineAlone ==
  ASSUME NEW w, NEW st, st # <<>>, NEW p, NEW v, Fine(w, st, p, v), Head(st).at \in {"seq.exp", "rseq.exp"}, InWord(w, p)
  PROVE  Fine(w, Tail(st), p, v)
<1> DEFINE f == Head(st)
<1>1. Awaits(f) = "exp" /\ Computes(f) \in {{"seq"}, {"rseq"}}
  BY DEF Awaits, Computes
<1>2. /\ Tail(st) \in Seq(Frames)
      /\ \E m \in Nat \ {0}, a \in Nat \ {0}, nt \in Computes(f) :
           Given(w, Awaits(f), m, p, v) /\ Before(w, f, a, m) /\ Began(w, Tail(st), Cut(a, nt))
  BY <1>1, FineBack
<1>3. PICK m \in Nat \ {0}, a \in Nat \ {0}, nt \in {"seq", "rseq"} :
        Given(w, "exp", m, p, v) /\ Before(w, f, a, m) /\ Began(w, Tail(st), Cut(a, nt))
  BY <1>1, <1>2
<1>4. Derives(w, "exp", a, p, v)
  BY <1>3 DEF Before, Given
<1>5. Derives(w, nt, a, p, v)
  BY <1>4, ExpSpan, InWordBounds
<1>6. QED
  BY <1>2, <1>3, <1>5, FineReturn DEF Nonterminals

(* The left operand of one more PREC is kept. *)
LEMMA FinePrecAgain ==
  ASSUME NEW w, NEW st, st # <<>>, NEW p, NEW v, Fine(w, st, p, v), Head(st).at = "rseq.exp",
         InWord(w, p), InWord(w, p + 1), w[p].type = "PREC"
  PROVE  Fine(w, <<Frame("rseq.prec", <<v>>, w[p].content)>> \o Tail(st), p + 1, v)
<1> DEFINE f == Head(st)
           h == Frame("rseq.prec", <<v>>, w[p].content)
<1>1. Awaits(f) = "exp" /\ Computes(f) = {"rseq"}
  BY DEF Awaits, Computes
<1>2. /\ Tail(st) \in Seq(Frames)
      /\ \E m \in Nat \ {0}, a \in Nat \ {0}, nt \in Computes(f) :
           Given(w, Awaits(f), m, p, v) /\ Before(w, f, a, m) /\ Began(w, Tail(st), Cut(a, nt))
  BY <1>1, FineBack
<1>3. PICK m \in Nat \ {0}, a \in Nat \ {0} : Given(w, "exp", m, p, v) /\ Before(w, f, a, m) /\ Began(w, Tail(st), Cut(a, "rseq"))
  BY <1>1, <1>2
<1>4. Derives(w, "exp", a, p, v)
  BY <1>3 DEF Before, Given
<1>5. Word(w) /\ p \in 1 .. Len(w) /\ p + 1 \in Nat \ {0} /\ p \in Nat \ {0}
  BY InWordBounds
<1>6. h \in Frames /\ h.at = "rseq.prec" /\ h.kept[1] = v /\ h.port = w[p].content
  BY <1>4, <1>5, ArrowFrame, SpanTree
<1> HIDE DEF h
<1>7. Awaits(h) = "none" /\ Computes(h) = {"rseq"}
  BY <1>6 DEF Awaits, Computes
<1>8. Before(w, h, a, p + 1)
  <2>1. (p + 1) - 1 = p
    BY <1>5
  <2>2. QED
    BY <1>4, <1>6, <2>1 DEF Before
<1>9. Fine(w, <<h>> \o Tail(st), p + 1, v)
  BY <1>2, <1>3, <1>5, <1>6, <1>7, <1>8, FineStay
<1>10. QED
  BY <1>9 DEF h

(* After an arrow: a boundary, or its right operand. *)
LEMMA FineToBoundary ==
  ASSUME NEW w, NEW st, st # <<>>, NEW p, NEW v, Fine(w, st, p, v), Head(st).at \in {"seq.next", "rseq.prec"},
         InWord(w, p), InWord(w, p + 1), w[p].type = "END"
  PROVE  LET f == Head(st)
         IN  Fine(w, Tail(st), p + 1, IF f.at = "seq.next" THEN NEXT(f.kept[1], END, f.port) ELSE PREC(f.kept[1], END, f.port))
<1> DEFINE f == Head(st)
           type == IF f.at = "seq.next" THEN "NEXT" ELSE "PREC"
           nt0 == IF f.at = "seq.next" THEN "seq" ELSE "rseq"
           m == p - 1
<1>1. Awaits(f) = "none" /\ Computes(f) = {nt0}
  BY DEF Awaits, Computes
<1>2. /\ Tail(st) \in Seq(Frames)
      /\ \E a \in Nat \ {0}, nt \in Computes(f) : Before(w, f, a, p) /\ Began(w, Tail(st), Cut(a, nt))
  BY <1>1, FineTop
<1>3. PICK a \in Nat \ {0} : Before(w, f, a, p) /\ Began(w, Tail(st), Cut(a, nt0))
  BY <1>1, <1>2
<1>4. Derives(w, "exp", a, m, f.kept[1]) /\ w[m].type = type /\ f.port = w[m].content
  BY <1>3 DEF Before
<1>5. Word(w) /\ p \in 1 .. Len(w) /\ m + 1 = p /\ m + 2 = p + 1 /\ m + 2 \in 1 .. Len(w) /\ BoundaryAt(w, m + 1)
  BY InWordBounds DEF InWord, BoundaryAt
<1>6. Derives(w, IF type = "NEXT" THEN "plain" ELSE "rseq", a, p + 1, Linked(type, f.kept[1], END, w[m].content))
  <2> HIDE DEF m
  <2>1. type \in {"NEXT", "PREC"}
    OBVIOUS
  <2> HIDE DEF type
  <2>2. Derives(w, IF type = "NEXT" THEN "plain" ELSE "rseq", a, m + 2, Linked(type, f.kept[1], END, w[m].content))
    BY <1>4, <1>5, <2>1, ToBoundarySpan
  <2>3. QED
    BY <1>5, <2>2
<1>7. CASE f.at = "seq.next"
  <2>1. Derives(w, "seq", a, p + 1, NEXT(f.kept[1], END, f.port))
    BY <1>4, <1>5, <1>6, <1>7, PlainSpan DEF Linked
  <2>2. QED
    BY <1>2, <1>3, <1>7, <2>1, FineReturn DEF Nonterminals
<1>8. CASE f.at = "rseq.prec"
  <2>1. Derives(w, "rseq", a, p + 1, PREC(f.kept[1], END, f.port))
    BY <1>4, <1>5, <1>6, <1>8 DEF Linked
  <2>2. QED
    BY <1>2, <1>3, <1>8, <2>1, FineReturn DEF Nonterminals
<1>9. QED
  BY <1>7, <1>8

(* A frame that goes on with what it has kept. *)
LEMMA SameKept ==
  ASSUME NEW f \in Frames, NEW at \in Functions \ {"domain.quantifier"}, at \in Operated => f.at \in Operated
  PROVE  LET g == Frame(at, f.kept, f.port)
         IN  g \in Frames /\ g.at = at /\ g.kept = f.kept /\ g.port = f.port
<1>1. f.kept \in Seq(Trees) /\ f.port \in Ports /\ (f.at \in Operated => Len(f.kept) = 1)
  BY FrameIs
<1> DEFINE kept == f.kept
           port == f.port
<1>2. kept \in Seq(Trees) /\ port \in Ports /\ (at \in Operated => Len(kept) = 1) /\ at \in Functions /\ at # "domain.quantifier"
  BY <1>1
<1> HIDE DEF kept, port
<1>3. Frame(at, kept, port) \in Frames /\ Frame(at, kept, port).at = at /\ Frame(at, kept, port).kept = kept
      /\ Frame(at, kept, port).port = port
  BY <1>2, FrameOf
<1>4. QED
  BY <1>3 DEF kept, port

(* The right operand of an arrow is called. *)
LEMMA FineRight ==
  ASSUME NEW w, NEW st, st # <<>>, NEW p, NEW v, Fine(w, st, p, v), InWord(w, p), w[p].type # "END"
  PROVE  LET f == Head(st)
         IN  /\ f.at = "seq.next" => Fine(w, <<Call("seq"), Frame("next", f.kept, f.port)>> \o Tail(st), p, v)
             /\ f.at = "rseq.prec" => Fine(w, <<Call("rseq"), Frame("prec", f.kept, f.port)>> \o Tail(st), p, v)
<1> DEFINE f == Head(st)
<1>1. Word(w) /\ p \in Nat \ {0}
  BY InWordBounds
<1>2. ASSUME NEW at \in {"seq.next", "rseq.prec"}, f.at = at,
             NEW called \in {"seq", "rseq"}, called = IF at = "seq.next" THEN "seq" ELSE "rseq",
             NEW next \in {"next", "prec"}, next = IF at = "seq.next" THEN "next" ELSE "prec"
      PROVE  Fine(w, <<Call(called), Frame(next, f.kept, f.port)>> \o Tail(st), p, v)
  <2> DEFINE g == Call(called)
             h == Frame(next, f.kept, f.port)
  <2>1. Awaits(f) = "none" /\ Computes(f) = {called}
    BY <1>2 DEF Awaits, Computes
  <2>2. /\ f \in Frames /\ Tail(st) \in Seq(Frames)
        /\ \E a \in Nat \ {0}, nt \in Computes(f) : Before(w, f, a, p) /\ Began(w, Tail(st), Cut(a, nt))
    BY <2>1, FineTop
  <2>3. PICK a \in Nat \ {0} : Before(w, f, a, p) /\ Began(w, Tail(st), Cut(a, called))
    BY <2>1, <2>2
  <2>4. g \in Frames /\ Awaits(g) = "none" /\ Computes(g) = {called} /\ Before(w, g, p, p)
    BY BeginsHere
  <2>5. h \in Frames /\ h.at = next /\ h.kept = f.kept /\ h.port = f.port
    BY <1>2, <2>2, SameKept DEF Functions, Operated
  <2> HIDE DEF g, h
  <2>6. Derives(w, "exp", a, p - 1, f.kept[1])
    BY <1>2, <2>3 DEF Before
  <2>7. f.kept[1] # END
    BY <1>1, <2>6, SpanProper DEF Nonterminals
  <2>8. Awaits(h) = called /\ called \in Computes(h)
    BY <1>2, <2>5, <2>7 DEF Awaits, Computes
  <2>9. Before(w, h, a, p)
    <3>1. CASE at = "seq.next"
      BY <1>2, <2>3, <2>5, <3>1 DEF Before
    <3>2. CASE at = "rseq.prec"
      BY <1>2, <2>3, <2>5, <2>7, <3>2 DEF Before
    <3>3. QED
      BY <3>1, <3>2
  <2> HIDE DEF f
  <2>10. Fine(w, <<g, h>> \o Tail(st), p, v)
    BY <1>1, <2>2, <2>3, <2>4, <2>5, <2>8, <2>9, FineCall
  <2>11. QED
    BY <2>10 DEF g, h
<1>3. ASSUME f.at = "seq.next" PROVE Fine(w, <<Call("seq"), Frame("next", f.kept, f.port)>> \o Tail(st), p, v)
  BY <1>2, <1>3
<1>4. ASSUME f.at = "rseq.prec" PROVE Fine(w, <<Call("rseq"), Frame("prec", f.kept, f.port)>> \o Tail(st), p, v)
  BY <1>2, <1>4
<1>5. QED
  BY <1>3, <1>4

(* The right operand of an arrow has been read. *)
LEMMA FineArrow ==
  ASSUME NEW w, NEW st, st # <<>>, NEW p, NEW v, Fine(w, st, p, v), InWord(w, p)
  PROVE  LET f == Head(st)
         IN  /\ f.at = "next" => Fine(w, Tail(st), p, NEXT(f.kept[1], v, f.port))
             /\ f.at = "prec" => Fine(w, Tail(st), p, PREC(f.kept[1], v, f.port))
<1> DEFINE f == Head(st)
<1>1. Word(w)
  BY InWordBounds
<1>2. ASSUME f.at = "next" PROVE Fine(w, Tail(st), p, NEXT(f.kept[1], v, f.port))
  <2>1. Awaits(f) = "seq" /\ Computes(f) = {"seq"}
    BY <1>2 DEF Awaits, Computes
  <2>2. /\ Tail(st) \in Seq(Frames)
        /\ \E m \in Nat \ {0}, a \in Nat \ {0}, nt \in Computes(f) :
             Given(w, Awaits(f), m, p, v) /\ Before(w, f, a, m) /\ Began(w, Tail(st), Cut(a, nt))
    BY <2>1, FineBack
  <2>3. PICK m \in Nat \ {0}, a \in Nat \ {0} : Given(w, "seq", m, p, v) /\ Before(w, f, a, m) /\ Began(w, Tail(st), Cut(a, "seq"))
    BY <2>1, <2>2
  <2> DEFINE i == m - 1
  <2>4. /\ Derives(w, "exp", a, i, f.kept[1]) /\ w[i].type = "NEXT" /\ f.port = w[i].content
        /\ w[m].type # "END" /\ Derives(w, "seq", m, p, v) /\ i + 1 = m
    BY <1>2, <2>3 DEF Before, Given
  <2> HIDE DEF i
  <2>5. Derives(w, "plain", i + 1, p, v)
    BY <1>1, <2>4, SeqPlain
  <2>6. Derives(w, "plain", a, p, NEXT(f.kept[1], v, w[i].content))
    BY <1>1, <2>4, <2>5, ForwardSpan
  <2>7. Derives(w, "seq", a, p, NEXT(f.kept[1], v, f.port))
    BY <1>1, <2>4, <2>6, PlainSpan
  <2>8. QED
    BY <2>2, <2>3, <2>7, FineReturn DEF Nonterminals
<1>3. ASSUME f.at = "prec" PROVE Fine(w, Tail(st), p, PREC(f.kept[1], v, f.port))
  <2>1. Awaits(f) = "rseq"
    BY <1>3 DEF Awaits
  <2>2. /\ Tail(st) \in Seq(Frames)
        /\ \E m \in Nat \ {0}, a \in Nat \ {0}, nt \in Computes(f) :
             Given(w, Awaits(f), m, p, v) /\ Before(w, f, a, m) /\ Began(w, Tail(st), Cut(a, nt))
    BY <2>1, FineBack
  <2>3. PICK m \in Nat \ {0}, a \in Nat \ {0}, nt \in Computes(f) :
          Given(w, "rseq", m, p, v) /\ Before(w, f, a, m) /\ Began(w, Tail(st), Cut(a, nt))
    BY <2>1, <2>2
  <2>4. Derives(w, "rseq", m, p, v)
    BY <2>3 DEF Given
  <2>5. CASE f.kept[1] = END
    <3>1. BoundaryAt(w, a) /\ m = a + 2 /\ w[m - 1].type = "PREC" /\ f.port = w[m - 1].content /\ m - 1 = a + 1
      BY <1>3, <2>3, <2>5 DEF Before
    <3>2. Derives(w, "seq", a, p, PREC(END, v, w[a + 1].content))
      BY <1>1, <2>4, <3>1, FromBoundarySpan
    <3>3. Derives(w, "seq", a, p, PREC(f.kept[1], v, f.port))
      BY <2>5, <3>1, <3>2
    <3>4. nt = "seq"
      BY <1>3, <2>3, <2>5 DEF Computes
    <3>5. QED
      BY <2>2, <2>3, <3>3, <3>4, FineReturn DEF Nonterminals
  <2>6. CASE f.kept[1] # END
    <3> DEFINE i == m - 1
    <3>1. Derives(w, "exp", a, i, f.kept[1]) /\ w[i].type = "PREC" /\ f.port = w[i].content /\ i + 1 = m
      BY <1>3, <2>3, <2>6 DEF Before
    <3> HIDE DEF i
    <3>2. Derives(w, "rseq", i + 1, p, v)
      BY <2>4, <3>1
    <3>3. Derives(w, "seq", a, p, PREC(f.kept[1], v, f.port)) /\ Derives(w, "rseq", a, p, PREC(f.kept[1], v, f.port))
      BY <1>1, <3>1, <3>2, BackwardSpan
    <3>4. nt \in {"seq", "rseq"}
      BY <1>3, <2>3, <2>6 DEF Computes
    <3>5. QED
      BY <2>2, <2>3, <3>3, <3>4, FineReturn DEF Nonterminals
  <2>7. QED
    BY <2>5, <2>6
<1>4. QED
  BY <1>2, <1>3

(* constructAstDomain: parentheses and alternatives. *)
LEMMA FineOpen ==
  ASSUME NEW w, NEW st, st # <<>>, NEW p, NEW v, Fine(w, st, p, v), Head(st).at = "domain",
         InWord(w, p), InWord(w, p + 1), w[p].type = "LPAREN"
  PROVE  Fine(w, <<Call("alternative")>> \o Tail(st), p + 1, v)
<1> DEFINE f == Head(st)
           g == Call("alternative")
<1>1. Awaits(f) = "none" /\ Computes(f) = {"exp"}
  BY DEF Awaits, Computes
<1>2. /\ Tail(st) \in Seq(Frames)
      /\ \E a \in Nat \ {0}, nt \in Computes(f) : Before(w, f, a, p) /\ Began(w, Tail(st), Cut(a, nt))
  BY <1>1, FineTop
<1>3. PICK a \in Nat \ {0} : Before(w, f, a, p) /\ Began(w, Tail(st), Cut(a, "exp"))
  BY <1>1, <1>2
<1>4. a = p
  BY <1>3 DEF Before
<1>5. p \in 1 .. Len(w) /\ p + 1 \in Nat \ {0} /\ p \in Nat \ {0}
  BY InWordBounds
<1>6. g \in Frames /\ g.at = "alternative" /\ g.kept = <<>>
  BY CallOf DEF Functions, Operated
<1> HIDE DEF g
<1>7. Awaits(g) = "none" /\ Computes(g) = {"exp"}
  BY <1>6 DEF Awaits, Computes
<1>8. Before(w, g, p, p + 1)
  BY <1>5, <1>6 DEF Before, Opened
<1>9. Fine(w, <<g>> \o Tail(st), p + 1, v)
  BY <1>2, <1>3, <1>4, <1>5, <1>6, <1>7, <1>8, FineStay
<1>10. QED
  BY <1>9 DEF g

(* A branch is called. *)
LEMMA FineAlternative ==
  ASSUME NEW w, NEW st, st # <<>>, NEW p, NEW v, Fine(w, st, p, v), Head(st).at = "alternative", InWord(w, p)
  PROVE  Fine(w, <<Call("seq"), Frame("domain.more", Head(st).kept, 0)>> \o Tail(st), p, v)
<1> DEFINE f == Head(st)
           g == Call("seq")
           h == Frame("domain.more", f.kept, 0)
<1>1. Awaits(f) = "none" /\ Computes(f) = {"exp"}
  BY DEF Awaits, Computes
<1>2. /\ f \in Frames /\ Tail(st) \in Seq(Frames)
      /\ \E a \in Nat \ {0}, nt \in Computes(f) : Before(w, f, a, p) /\ Began(w, Tail(st), Cut(a, nt))
  BY <1>1, FineTop
<1>3. PICK a \in Nat \ {0} : Before(w, f, a, p) /\ Began(w, Tail(st), Cut(a, "exp"))
  BY <1>1, <1>2
<1>4. Opened(w, a, p, f.kept)
  BY <1>3 DEF Before
<1>5. p \in Nat \ {0}
  BY InWordBounds
<1>6. g \in Frames /\ Awaits(g) = "none" /\ Computes(g) = {"seq"} /\ Before(w, g, p, p)
  BY BeginsHere
<1>7. h \in Frames /\ h.at = "domain.more" /\ h.kept = f.kept
  <2> DEFINE kept == f.kept
             zero == 0
  <2>1. kept \in Seq(Trees) /\ zero \in Ports
    BY <1>2, FrameIs DEF Ports
  <2> HIDE DEF kept, zero
  <2>2. Frame("domain.more", kept, zero) \in Frames /\ Frame("domain.more", kept, zero).at = "domain.more"
        /\ Frame("domain.more", kept, zero).kept = kept
    BY <2>1, FrameOf DEF Functions, Operated
  <2>3. QED
    BY <2>2 DEF kept, zero
<1> HIDE DEF g, h
<1>8. Awaits(h) = "seq" /\ Computes(h) = {"exp"} /\ Before(w, h, a, p)
  BY <1>4, <1>7 DEF Awaits, Computes, Before
<1>9. Fine(w, <<g, h>> \o Tail(st), p, v)
  BY <1>2, <1>3, <1>5, <1>6, <1>7, <1>8, FineCall
<1>10. QED
  BY <1>9 DEF g, h

(* One branch more. *)
LEMMA OpenedMore ==
  ASSUME NEW w, Word(w), NEW a, NEW m \in Nat, NEW p, NEW branches \in Seq(Trees), NEW v,
         Opened(w, a, m, branches), Derives(w, "seq", m, p, v)
  PROVE  Derives(w, "list", a + 1, p, Append(branches, v)) /\ Append(branches, v) # <<>> /\ Append(branches, v) \in Seq(Trees)
<1>1. v \in Trees
  BY SpanTree
<1>2. Append(branches, v) # <<>> /\ Append(branches, v) \in Seq(Trees)
  BY <1>1, AppendProperties
<1>3. CASE branches = <<>>
  <2>1. m = a + 1
    BY <1>3 DEF Opened
  <2>2. Derives(w, "list", m, p, <<v>>)
    BY SeqSpan
  <2>3. Append(branches, v) = <<v>>
    BY <1>3
  <2>4. QED
    BY <1>2, <2>1, <2>2, <2>3
<1>4. CASE branches # <<>>
  <2> DEFINE i == m - 1
  <2>1. Derives(w, "list", a + 1, i, branches) /\ w[i].type = "ALT" /\ i + 1 = m
    BY <1>4 DEF Opened
  <2> HIDE DEF i
  <2>2. Derives(w, "seq", i + 1, p, v)
    BY <2>1
  <2>3. Derives(w, "list", a + 1, p, Append(branches, v))
    BY <2>1, <2>2, BranchSpan
  <2>4. QED
    BY <1>2, <2>3
<1>5. QED
  BY <1>3, <1>4

(* A branch has been read: another follows, or the parentheses close. *)
LEMMA FineMore ==
  ASSUME NEW w, NEW st, st # <<>>, NEW p, NEW v, Fine(w, st, p, v), Head(st).at = "domain.more",
         InWord(w, p), InWord(w, p + 1), w[p].type \in {"ALT", "RPAREN"}
  PROVE  LET at == IF w[p].type = "ALT" THEN "alternative" ELSE "domain.quantifier"
         IN  Fine(w, <<Frame(at, Append(Head(st).kept, v), 0)>> \o Tail(st), p + 1, v)
<1> DEFINE f == Head(st)
           at == IF w[p].type = "ALT" THEN "alternative" ELSE "domain.quantifier"
           branches == Append(f.kept, v)
           h == Frame(at, branches, 0)
<1>1. Awaits(f) = "seq" /\ Computes(f) = {"exp"}
  BY DEF Awaits, Computes
<1>2. /\ f \in Frames /\ Tail(st) \in Seq(Frames)
      /\ \E m \in Nat \ {0}, a \in Nat \ {0}, nt \in Computes(f) :
           Given(w, Awaits(f), m, p, v) /\ Before(w, f, a, m) /\ Began(w, Tail(st), Cut(a, nt))
  BY <1>1, FineBack
<1>3. PICK m \in Nat \ {0}, a \in Nat \ {0} : Given(w, "seq", m, p, v) /\ Before(w, f, a, m) /\ Began(w, Tail(st), Cut(a, "exp"))
  BY <1>1, <1>2
<1>4. Opened(w, a, m, f.kept) /\ Derives(w, "seq", m, p, v) /\ a \in 1 .. Len(w) /\ w[a].type = "LPAREN"
  BY <1>3 DEF Before, Given, Opened
<1>5. Word(w) /\ p \in 1 .. Len(w) /\ p \in Nat \ {0} /\ p + 1 \in Nat \ {0} /\ (p + 1) - 1 = p
  BY InWordBounds
<1>6. f.kept \in Seq(Trees)
  BY <1>2, FrameIs
<1>7. Derives(w, "list", a + 1, p, branches) /\ branches # <<>> /\ branches \in Seq(Trees)
  BY <1>4, <1>5, <1>6, OpenedMore
<1> HIDE DEF branches, at
<1>8. at \in {"alternative", "domain.quantifier"} /\ (w[p].type = IF at = "alternative" THEN "ALT" ELSE "RPAREN")
  BY DEF at
<1>9. h \in Frames /\ h.at = at /\ h.kept = branches
  <2> DEFINE zero == 0
  <2>1. zero \in Ports
    BY DEF Ports
  <2> HIDE DEF zero
  <2>2. Frame(at, branches, zero) \in Frames /\ Frame(at, branches, zero).at = at /\ Frame(at, branches, zero).kept = branches
    BY <1>7, <1>8, <2>1, FrameOf DEF Functions, Operated
  <2>3. QED
    BY <2>2 DEF zero
<1> HIDE DEF h
<1>10. Awaits(h) = "none" /\ Computes(h) = {"exp"}
  BY <1>8, <1>9 DEF Awaits, Computes
<1>11. Before(w, h, a, p + 1)
  <2>1. CASE at = "alternative"
    <3>1. Opened(w, a, p + 1, branches)
      BY <1>4, <1>5, <1>7, <1>8, <2>1 DEF Opened
    <3>2. QED
      BY <1>9, <2>1, <3>1 DEF Before
  <2>2. CASE at = "domain.quantifier"
    <3>1. GroupAt(w, a, (p + 1) - 1, branches)
      BY <1>4, <1>5, <1>7, <1>8, <2>2 DEF GroupAt
    <3>2. QED
      BY <1>9, <2>2, <3>1 DEF Before
  <2>3. QED
    BY <1>8, <2>1, <2>2
<1>12. Fine(w, <<h>> \o Tail(st), p + 1, v)
  BY <1>2, <1>3, <1>5, <1>9, <1>10, <1>11, FineStay
<1>13. QED
  BY <1>12 DEF h, branches, at

(* A group ends with its quantifier, or with alternatives and none. *)
LEMMA FineGroup ==
  ASSUME NEW w, NEW st, st # <<>>, NEW p, NEW v, Fine(w, st, p, v), Head(st).at = "domain.quantifier", InWord(w, p)
  PROVE  LET group == GROUP(Head(st).kept)
         IN  /\ Len(Head(st).kept) > 1 => Fine(w, Tail(st), p, group)
             /\ InWord(w, p + 1) /\ w[p].type \in DOMAIN Symbol
                  => Fine(w, Tail(st), p + 1, QUANTIFIED(group, Symbol[w[p].type]))
<1> DEFINE f == Head(st)
           branches == f.kept
           m == p - 1
<1>1. Awaits(f) = "none" /\ Computes(f) = {"exp"}
  BY DEF Awaits, Computes
<1>2. /\ Tail(st) \in Seq(Frames)
      /\ \E a \in Nat \ {0}, nt \in Computes(f) : Before(w, f, a, p) /\ Began(w, Tail(st), Cut(a, nt))
  BY <1>1, FineTop
<1>3. PICK a \in Nat \ {0} : Before(w, f, a, p) /\ Began(w, Tail(st), Cut(a, "exp"))
  BY <1>1, <1>2
<1>4. GroupAt(w, a, m, branches)
  BY <1>3 DEF Before
<1>5. Word(w) /\ p \in 1 .. Len(w) /\ m + 1 = p /\ m + 2 = p + 1
  BY InWordBounds
<1> HIDE DEF m, branches
<1>6. ASSUME Len(branches) > 1 PROVE Fine(w, Tail(st), p, GROUP(branches))
  <2>1. Derives(w, "exp", a, m + 1, GROUP(branches))
    BY <1>4, <1>5, <1>6, GroupSpan
  <2>2. Derives(w, "exp", a, p, GROUP(branches))
    BY <1>5, <2>1
  <2>3. QED
    BY <1>2, <1>3, <2>2, FineReturn DEF Nonterminals
<1>7. ASSUME InWord(w, p + 1), w[p].type \in DOMAIN Symbol
      PROVE  Fine(w, Tail(st), p + 1, QUANTIFIED(GROUP(branches), Symbol[w[p].type]))
  <2>1. QuantifierAt(w, m + 1) /\ m + 2 \in 1 .. Len(w)
    BY <1>5, <1>7 DEF QuantifierAt, InWord
  <2>2. Derives(w, "exp", a, m + 2, QUANTIFIED(GROUP(branches), Symbol[w[m + 1].type]))
    BY <1>4, <1>5, <2>1, RepeatedGroupSpan
  <2>3. Derives(w, "exp", a, p + 1, QUANTIFIED(GROUP(branches), Symbol[w[p].type]))
    BY <1>5, <2>2
  <2>4. QED
    BY <1>2, <1>3, <2>3, FineReturn DEF Nonterminals
<1>8. QED
  BY <1>6, <1>7 DEF branches

(* constructAstAllExpr: the paths. *)
LEMMA FinePath ==
  ASSUME NEW w, NEW st, st # <<>>, NEW p, NEW v, Fine(w, st, p, v), Head(st).at = "allExpr.path", InWord(w, p)
  PROVE  /\ w[p].type = "STOP" => Fine(w, Tail(st), p, v)
         /\ w[p].type = "SEP" /\ InWord(w, p + 1) => Fine(w, <<Frame("allExpr.more", <<v>>, 0)>> \o Tail(st), p + 1, v)
<1> DEFINE f == Head(st)
           kept == <<v>>
           h == Frame("allExpr.more", kept, 0)
<1>1. Awaits(f) = "seq" /\ Computes(f) = {"query"}
  BY DEF Awaits, Computes
<1>2. /\ Tail(st) \in Seq(Frames)
      /\ \E m \in Nat \ {0}, a \in Nat \ {0}, nt \in Computes(f) :
           Given(w, Awaits(f), m, p, v) /\ Before(w, f, a, m) /\ Began(w, Tail(st), Cut(a, nt))
  BY <1>1, FineBack
<1>3. PICK m \in Nat \ {0}, a \in Nat \ {0} : Given(w, "seq", m, p, v) /\ Before(w, f, a, m) /\ Began(w, Tail(st), Cut(a, "query"))
  BY <1>1, <1>2
<1>4. Derives(w, "seq", a, p, v)
  BY <1>3 DEF Before, Given
<1>5. Word(w) /\ p \in 1 .. Len(w) /\ p \in Nat \ {0} /\ p + 1 \in Nat \ {0} /\ (p + 1) - 1 = p
  BY InWordBounds
<1>6. ASSUME w[p].type = "STOP" PROVE Fine(w, Tail(st), p, v)
  <2>1. Derives(w, "query", a, p, v)
    BY <1>4, <1>5, SeqSpan
  <2>2. QED
    BY <1>2, <1>3, <1>6, <2>1, FineReturn DEF Nonterminals
<1>7. ASSUME w[p].type = "SEP" PROVE Fine(w, <<h>> \o Tail(st), p + 1, v)
  <2>1. kept \in Seq(Trees) /\ Len(kept) = 1 /\ kept[1] = v
    BY <1>4, <1>5, SpanTree, TreeOf
  <2> HIDE DEF kept
  <2> DEFINE zero == 0
  <2>2. zero \in Ports
    BY DEF Ports
  <2> HIDE DEF zero
  <2>3. Frame("allExpr.more", kept, zero) \in Frames /\ Frame("allExpr.more", kept, zero).at = "allExpr.more"
        /\ Frame("allExpr.more", kept, zero).kept = kept
    BY <2>1, <2>2, FrameOf DEF Functions
  <2>4. h \in Frames /\ h.at = "allExpr.more" /\ h.kept[1] = v
    BY <2>1, <2>3 DEF zero
  <2> HIDE DEF h
  <2>5. Awaits(h) = "none" /\ Computes(h) = {"query"}
    BY <2>4 DEF Awaits, Computes
  <2>6. Before(w, h, a, p + 1)
    BY <1>4, <1>5, <1>7, <2>4 DEF Before
  <2>7. QED
    BY <1>2, <1>3, <1>5, <2>4, <2>5, <2>6, FineStay
<1>8. QED
  BY <1>6, <1>7

(* Behind a SEP: the end of the text, or more paths. *)
LEMMA FineMorePaths ==
  ASSUME NEW w, NEW st, st # <<>>, NEW p, NEW v, Fine(w, st, p, v), Head(st).at = "allExpr.more", InWord(w, p)
  PROVE  /\ w[p].type = "STOP" => Fine(w, Tail(st), p, Head(st).kept[1])
         /\ Fine(w, <<Call("allExpr"), Frame("sep", Head(st).kept, 0)>> \o Tail(st), p, v)
<1> DEFINE f == Head(st)
           c == f.kept[1]
           m == p - 1
           g == Call("allExpr")
           h == Frame("sep", f.kept, 0)
<1>1. Awaits(f) = "none" /\ Computes(f) = {"query"}
  BY DEF Awaits, Computes
<1>2. /\ f \in Frames /\ Tail(st) \in Seq(Frames)
      /\ \E a \in Nat \ {0}, nt \in Computes(f) : Before(w, f, a, p) /\ Began(w, Tail(st), Cut(a, nt))
  BY <1>1, FineTop
<1>3. PICK a \in Nat \ {0} : Before(w, f, a, p) /\ Began(w, Tail(st), Cut(a, "query"))
  BY <1>1, <1>2
<1>4. Derives(w, "seq", a, m, c) /\ w[m].type = "SEP"
  BY <1>3 DEF Before
<1>5. Word(w) /\ p \in 1 .. Len(w) /\ m + 1 = p /\ p \in Nat \ {0}
  BY InWordBounds
<1>6. ASSUME w[p].type = "STOP" PROVE Fine(w, Tail(st), p, c)
  <2> HIDE DEF m, c
  <2>1. Derives(w, "query", a, m + 1, c)
    BY <1>4, <1>5, ClosedSpan
  <2>2. Derives(w, "query", a, p, c)
    BY <1>5, <2>1
  <2>3. QED
    BY <1>2, <1>3, <1>6, <2>2, FineReturn DEF Nonterminals
<1>7. g \in Frames /\ Awaits(g) = "none" /\ Computes(g) = {"query"} /\ Before(w, g, p, p)
  BY BeginsHere
<1>8. h \in Frames /\ h.at = "sep" /\ h.kept = f.kept
  <2> DEFINE kept == f.kept
             zero == 0
  <2>1. kept \in Seq(Trees) /\ zero \in Ports /\ Len(kept) = 1
    BY <1>2, FrameIs DEF Ports, Operated
  <2> HIDE DEF kept, zero
  <2>2. Frame("sep", kept, zero) \in Frames /\ Frame("sep", kept, zero).at = "sep"
        /\ Frame("sep", kept, zero).kept = kept
    BY <2>1, FrameOf DEF Functions, Operated
  <2>3. QED
    BY <2>2 DEF kept, zero
<1> HIDE DEF g, h
<1>9. Awaits(h) = "query" /\ Computes(h) = {"query"} /\ Before(w, h, a, p)
  BY <1>4, <1>8 DEF Awaits, Computes, Before
<1>10. Fine(w, <<g, h>> \o Tail(st), p, v)
  BY <1>2, <1>3, <1>5, <1>7, <1>8, <1>9, FineCall
<1>11. QED
  BY <1>6, <1>10 DEF g, h

(* The paths behind a SEP have been read. *)
LEMMA FineSeparate ==
  ASSUME NEW w, NEW st, st # <<>>, NEW p, NEW v, Fine(w, st, p, v), Head(st).at = "sep", InWord(w, p)
  PROVE  Fine(w, Tail(st), p, SEP(Head(st).kept[1], v))
<1> DEFINE f == Head(st)
<1>1. Awaits(f) = "query" /\ Computes(f) = {"query"}
  BY DEF Awaits, Computes
<1>2. /\ Tail(st) \in Seq(Frames)
      /\ \E m \in Nat \ {0}, a \in Nat \ {0}, nt \in Computes(f) :
           Given(w, Awaits(f), m, p, v) /\ Before(w, f, a, m) /\ Began(w, Tail(st), Cut(a, nt))
  BY <1>1, FineBack
<1>3. PICK m \in Nat \ {0}, a \in Nat \ {0} : Given(w, "query", m, p, v) /\ Before(w, f, a, m) /\ Began(w, Tail(st), Cut(a, "query"))
  BY <1>1, <1>2
<1> DEFINE i == m - 1
<1>4. Derives(w, "seq", a, i, f.kept[1]) /\ w[i].type = "SEP" /\ i + 1 = m /\ Derives(w, "query", m, p, v) /\ w[p].type = "STOP"
  BY <1>3 DEF Before, Given
<1>5. Word(w)
  BY InWordBounds
<1> HIDE DEF i
<1>6. Derives(w, "query", i + 1, p, v)
  BY <1>4
<1>7. Derives(w, "query", a, p, SEP(f.kept[1], v))
  BY <1>4, <1>5, <1>6, PathSpan
<1>8. QED
  BY <1>2, <1>3, <1>4, <1>7, FineReturn DEF Nonterminals

-----------------------------------------------------------------------------
(* How a span was built: the productions, read backwards.                   *)
LEMMA LevelProper ==
  ASSUME NEW n \in 1 .. MaxLength, NEW nt \in Nonterminals
  PROVE  AllProper(Grammar[n][nt], n)
  BY AllLevelsProper DEF Proper, ProperText, AllProper

(* A span is a sentence that is read there. *)
LEMMA SpanSentence ==
  ASSUME NEW w, Word(w), NEW nt \in Nonterminals, NEW a, NEW b, NEW tree, Derives(w, nt, a, b, tree)
  PROVE  \E n \in 1 .. MaxLength :
           /\ n = b - a /\ b = a + n
           /\ \E s \in Grammar[n][nt] : s.text \in Seq(Letters) /\ Len(s.text) = n /\ s.tree = tree /\ Reads(w, a, s.text)
<1>1. b - a \in 1 .. MaxLength /\ a \in Nat /\ b \in Nat
  BY SpanBounds
<1>2. PICK s \in Grammar[b - a][nt] : s.text \in Seq(Letters) /\ Len(s.text) = b - a /\ s.tree = tree /\ Reads(w, a, s.text)
  BY DEF Derives, Fits
<1> DEFINE n == b - a
<1>3. n \in 1 .. MaxLength /\ n = b - a /\ b = a + n /\ s \in Grammar[n][nt] /\ Len(s.text) = n
  BY <1>1, <1>2
<1> HIDE DEF n
<1>4. QED
  BY <1>2, <1>3

(* A sentence around a token is cut into the spans of its two sides. *)
LEMMA TokenCut ==
  ASSUME NEW w, Word(w), NEW a \in 1 .. Len(w), NEW b \in 1 .. Len(w), NEW n \in 1 .. MaxLength, n = b - a,
         NEW i \in Splits(n), NEW left \in Nonterminals, NEW right \in Nonterminals,
         NEW l \in Grammar[i][left], NEW r \in Grammar[n - 1 - i][right], NEW t \in Letters, Reads(w, a, Around(l, t, r))
  PROVE  /\ Derives(w, left, a, a + i, l.tree) /\ w[a + i] = t
         /\ Derives(w, right, (a + i) + 1, b, r.tree)
<1> DEFINE L == Grammar[i][left]
           R == Grammar[n - 1 - i][right]
<1>1. i \in 1 .. MaxLength /\ n - 1 - i \in 1 .. MaxLength /\ i \in Int /\ a \in Int /\ b \in Int /\ Len(w) \in Nat
  BY LengthBound, WordLength DEF Splits
<1>2. AllProper(L, i) /\ AllProper(R, n - 1 - i)
  BY <1>1, LevelProper
<1>3. l \in L /\ r \in R /\ i \in Splits(b - a) /\ AllProper(R, b - a - 1 - i)
  BY <1>2
<1> HIDE DEF L, R
<1>4. w[a + i] = t /\ Fits(w, L, a, a + i, l.tree) /\ Fits(w, R, a + i + 1, b, r.tree)
  BY <1>2, <1>3, CutSpan
<1>5. (a + i) - a = i /\ b - ((a + i) + 1) = n - 1 - i
  BY <1>1
<1>6. QED
  BY <1>4, <1>5 DEF Derives, L, R

(* A link is cut at its arrow, ... *)
LEMMA LinkCut ==
  ASSUME NEW w, Word(w), NEW a \in 1 .. Len(w), NEW b \in 1 .. Len(w), NEW n \in 1 .. MaxLength, n = b - a,
         NEW i \in Splits(n), NEW left \in Nonterminals, NEW right \in Nonterminals, NEW type \in {"NEXT", "PREC"},
         NEW s \in Links(type, Grammar[i][left], Grammar[n - 1 - i][right]), Reads(w, a, s.text)
  PROVE  \E m : Spans(w, left, a, m) /\ w[m].type = type /\ Spans(w, right, m + 1, b)
<1>1. PICK l \in Grammar[i][left], t \in TokensOf({type}), r \in Grammar[n - 1 - i][right] : s = Chained(l, t, r)
  BY LinkCases
<1>2. t \in Letters /\ t.type = type
  BY TokenIsLetter
<1>3. Reads(w, a, Around(l, t, r))
  BY <1>1 DEF Chained, Sentence
<1>4. Derives(w, left, a, a + i, l.tree) /\ w[a + i] = t /\ Derives(w, right, (a + i) + 1, b, r.tree)
  BY <1>1, <1>2, <1>3, TokenCut
<1>5. QED
  BY <1>2, <1>4 DEF Spans

(* ... before the boundary at its end ... *)
LEMMA ToBoundaryCut ==
  ASSUME NEW w, Word(w), NEW a \in 1 .. Len(w), NEW b \in 1 .. Len(w), NEW n \in 1 .. MaxLength, n = b - a, n > 2,
         NEW left \in Nonterminals, NEW type \in {"NEXT", "PREC"},
         NEW s \in Links(type, Grammar[n - 2][left], Boundary), Reads(w, a, s.text)
  PROVE  \E m : Spans(w, left, a, m) /\ w[m].type = type /\ BoundaryAt(w, m + 1) /\ b = m + 2
<1> DEFINE L == Grammar[n - 2][left]
           i == n - 2
<1>1. PICK l \in L, t \in TokensOf({type}), r \in Boundary : s = Chained(l, t, r)
  BY LinkCases
<1>2. t \in Letters /\ t.type = type
  BY TokenIsLetter
<1>3. Reads(w, a, Around(l, t, r))
  BY <1>1 DEF Chained, Sentence
<1>4. /\ i \in Splits(b - a) /\ i \in 1 .. MaxLength /\ b - a - 1 - i = 1 /\ (a + i) - a = i /\ b = (a + i) + 2 /\ Len(w) \in Nat
      /\ a + i + 1 \in 1 .. Len(w) /\ a + i + 1 - 1 + 1 = a + i + 1
  BY LengthBound, WordLength DEF Splits
<1>5. AllProper(L, i) /\ AllProper(Boundary, b - a - 1 - i)
  BY <1>4, LevelProper, BoundaryProper
<1> HIDE DEF L, i
<1>6. w[a + i] = t /\ Fits(w, L, a, a + i, l.tree) /\ Fits(w, Boundary, a + i + 1, b, r.tree)
  <2>1. i \in Splits(b - a)
    BY <1>4
  <2> DEFINE R == Boundary
  <2>2. r \in R /\ l \in L /\ t \in Letters /\ AllProper(L, i) /\ AllProper(R, b - a - 1 - i)
    BY <1>1, <1>2, <1>5
  <2> HIDE DEF R
  <2>3. w[a + i] = t /\ Fits(w, L, a, a + i, l.tree) /\ Fits(w, R, a + i + 1, b, r.tree)
    BY <1>3, <2>1, <2>2, CutSpan
  <2>4. QED
    BY <2>3 DEF R
<1>7. Derives(w, left, a, a + i, l.tree)
  BY <1>4, <1>6 DEF Derives, L, i
<1>8. BoundaryAt(w, (a + i) + 1)
  <2>1. PICK e \in Boundary : Reads(w, a + i + 1, e.text)
    BY <1>6 DEF Fits
  <2>2. Len(e.text) = 1 /\ e.text[1].type = "END"
    BY ProperBoundary
  <2> DEFINE c == a + i + 1
  <2>3. c \in 1 .. Len(w) /\ c - 1 + 1 = c /\ Reads(w, c, e.text)
    BY <1>4, <2>1
  <2> HIDE DEF c
  <2>4. w[c - 1 + 1] = e.text[1]
    BY <2>2, <2>3 DEF Reads
  <2>5. QED
    BY <2>2, <2>3, <2>4 DEF BoundaryAt, c
<1>9. QED
  BY <1>2, <1>4, <1>6, <1>7, <1>8 DEF Spans

(* ... or after the boundary at its start. *)
LEMMA FromBoundaryCut ==
  ASSUME NEW w, Word(w), NEW a \in 1 .. Len(w), NEW b \in 1 .. Len(w), NEW n \in 1 .. MaxLength, n = b - a, n > 2,
         NEW right \in Nonterminals,
         NEW s \in Links("PREC", Boundary, Grammar[n - 2][right]), Reads(w, a, s.text)
  PROVE  BoundaryAt(w, a) /\ w[a + 1].type = "PREC" /\ Spans(w, right, a + 2, b)
<1> DEFINE L == Boundary
           R == Grammar[n - 2][right]
<1>1. PICK l \in L, t \in TokensOf({"PREC"}), r \in R : s = Chained(l, t, r)
  BY DEF Links
<1>2. t \in Letters /\ t.type = "PREC"
  BY TokenIsLetter
<1>3. Reads(w, a, Around(l, t, r))
  BY <1>1 DEF Chained, Sentence
<1>4. /\ 1 \in Splits(b - a) /\ n - 2 \in 1 .. MaxLength /\ b - a - 1 - 1 = n - 2 /\ b - (a + 1 + 1) = n - 2 /\ a + 1 + 1 = a + 2
      /\ a - 1 + 1 = a
  BY LengthBound, WordLength DEF Splits
<1>5. AllProper(Boundary, 1) /\ AllProper(R, b - a - 1 - 1)
  BY <1>4, LevelProper, BoundaryProper
<1> HIDE DEF R
<1>6. w[a + 1] = t /\ Fits(w, Boundary, a, a + 1, l.tree) /\ Fits(w, R, a + 1 + 1, b, r.tree)
  <2> DEFINE i == 1
  <2>1. i \in Splits(b - a)
    BY <1>4
  <2>2. l \in L /\ r \in R /\ t \in Letters /\ AllProper(L, i) /\ AllProper(R, b - a - 1 - i)
    BY <1>1, <1>2, <1>5
  <2> HIDE DEF L, i
  <2>3. w[a + i] = t /\ Fits(w, L, a, a + i, l.tree) /\ Fits(w, R, a + i + 1, b, r.tree)
    BY <1>3, <2>1, <2>2, CutSpan
  <2>4. QED
    BY <2>3 DEF L, i
<1>7. Derives(w, right, a + 2, b, r.tree)
  BY <1>4, <1>6 DEF Derives, R
<1>8. BoundaryAt(w, a)
  <2>1. PICK e \in Boundary : Reads(w, a, e.text)
    BY <1>6 DEF Fits
  <2>2. Len(e.text) = 1 /\ e.text[1].type = "END"
    BY ProperBoundary
  <2>3. w[a - 1 + 1] = e.text[1]
    BY <2>1, <2>2 DEF Reads
  <2>4. QED
    BY <1>4, <2>2, <2>3 DEF BoundaryAt
<1>9. QED
  BY <1>2, <1>6, <1>7, <1>8 DEF Spans

(* A text in parentheses, in a word. *)
Parted(w, a, c, m, u) == w[a] = Token("LPAREN", "") /\ Reads(w, c, u) /\ w[m] = Token("RPAREN", "")

(* Parentheses around a text, in a word: its parts. *)
LEMMA GroupParts ==
  ASSUME NEW k \in Nat \ {0}, NEW l, l.text \in Seq(Letters), Len(l.text) = k, NEW w, NEW a \in Nat \ {0},
         NEW c, NEW m, c = a + 1, m = a + 1 + k, Reads(w, a, InParentheses(l).text)
  PROVE  Parted(w, a, c, m, l.text)
<1> DEFINE x == InParentheses(l).text
           u == l.text
           open  == Token("LPAREN", "")
           close == Token("RPAREN", "")
<1>1. /\ Len(x) = k + 2 /\ x[1] = open /\ x[k + 2] = close
      /\ \A i \in 1 .. k : x[1 + i] = u[i]
  BY ProperGroup
<1>2. \A i \in 1 .. Len(x) : w[a - 1 + i] = x[i]
  BY DEF Reads
<1>0. Len(u) = k
  OBVIOUS
<1> HIDE DEF x, open, close, u
<1>3. 1 \in 1 .. Len(x) /\ a - 1 + 1 = a /\ k + 2 \in 1 .. Len(x) /\ a - 1 + (k + 2) = m
  BY <1>1
<1>4. \A i \in 1 .. k : 1 + i \in 1 .. Len(x) /\ a - 1 + (1 + i) = c - 1 + i
  BY <1>1
<1>5. w[a] = open /\ w[m] = close
  BY <1>1, <1>2, <1>3
<1>6. \A i \in 1 .. k : w[c - 1 + i] = u[i]
  BY <1>1, <1>2, <1>4
<1>7. Reads(w, c, u)
  BY <1>0, <1>6 DEF Reads
<1>8. QED
  BY <1>5, <1>7 DEF Parted, open, close, u

(* A sentence in parentheses is a group of the word. *)
LEMMA GroupCut ==
  ASSUME NEW w, Word(w), NEW a \in 1 .. Len(w), NEW k \in 1 .. MaxLength, NEW l \in Grammar[k].list,
         a + k + 2 \in 1 .. Len(w), Reads(w, a, InParentheses(l).text)
  PROVE  GroupAt(w, a, a + 1 + k, l.tree)
<1>1. l.text \in Seq(Letters) /\ Len(l.text) = k
  BY LevelProper DEF AllProper, Nonterminals
<1>2. /\ a \in Nat \ {0} /\ k \in Nat \ {0} /\ Len(w) \in Nat /\ a + 1 \in 1 .. Len(w) /\ a + 1 + k \in 1 .. Len(w)
      /\ a + 1 < a + 1 + k /\ (a + 1 + k) - (a + 1) = k
  <2> DEFINE n == Len(w)
  <2>1. n \in Nat /\ a \in 1 .. n /\ a + k + 2 \in 1 .. n /\ k \in Nat \ {0}
    BY WordLength
  <2> HIDE DEF n
  <2>2. a \in Nat \ {0} /\ a + k + 2 <= n
    BY <2>1
  <2>3. a + 1 <= n /\ a + 1 + k <= n
    BY <2>1, <2>2
  <2>4. a + 1 \in 1 .. n /\ a + 1 + k \in 1 .. n /\ a + 1 < a + 1 + k /\ (a + 1 + k) - (a + 1) = k
    BY <2>1, <2>2, <2>3
  <2>5. QED
    BY <2>1, <2>2, <2>4 DEF n
<1>3. w[a] = Token("LPAREN", "") /\ Reads(w, a + 1, l.text) /\ w[a + 1 + k] = Token("RPAREN", "")
  <2> DEFINE m == a + 1 + k
             c == a + 1
  <2>1. a \in Nat \ {0} /\ k \in Nat \ {0} /\ m = a + 1 + k /\ c = a + 1
    BY <1>2
  <2> HIDE DEF m, c
  <2>2. Parted(w, a, c, m, l.text)
    BY <1>1, <2>1, GroupParts
  <2>3. QED
    BY <2>2 DEF m, c, Parted
<1>4. Derives(w, "list", a + 1, a + 1 + k, l.tree)
  <2> DEFINE c == a + 1
             d == a + 1 + k
  <2>1. c \in 1 .. Len(w) /\ d \in 1 .. Len(w) /\ c < d /\ l \in Grammar[d - c]["list"] /\ Reads(w, c, l.text)
    BY <1>2, <1>3
  <2> HIDE DEF c, d
  <2>2. Derives(w, "list", c, d, l.tree)
    BY <2>1, SpanOf DEF Nonterminals
  <2>3. QED
    BY <2>2 DEF c, d
<1>5. w[a].type = "LPAREN" /\ w[a + 1 + k].type = "RPAREN"
  BY <1>3, TokenType
<1>6. QED
  BY <1>4, <1>5 DEF GroupAt

(* The four shapes of an exp. *)
LEMMA ExpShapes ==
  ASSUME NEW w, Word(w), NEW a, NEW b, Spans(w, "exp", a, b)
  PROVE  \/ b = a + 1 /\ w[a].type \in Keys
         \/ b = a + 2 /\ w[a].type = "KEY" /\ QuantifierAt(w, a + 1)
         \/ \E m, branches : GroupAt(w, a, m, branches) /\ b = m + 2 /\ QuantifierAt(w, m + 1)
         \/ \E m, branches : GroupAt(w, a, m, branches) /\ b = m + 1 /\ Len(branches) > 1
<1>1. PICK tree : Derives(w, "exp", a, b, tree)
  BY DEF Spans
<1>2. a \in 1 .. Len(w) /\ b \in 1 .. Len(w) /\ a \in Nat \ {0} /\ Len(w) \in Nat
  BY <1>1, SpanBounds
<1>3. PICK n \in 1 .. MaxLength :
           /\ n = b - a /\ b = a + n
           /\ \E s \in Grammar[n]["exp"] : s.text \in Seq(Letters) /\ Len(s.text) = n /\ s.tree = tree /\ Reads(w, a, s.text)
  BY <1>1, SpanSentence DEF Nonterminals
<1>4. PICK s \in Grammar[n].exp : Reads(w, a, s.text) /\ Len(s.text) = n
  BY <1>3
<1>5. CASE n = 1 /\ \E t \in TokensOf(Keys) : s = Sentence(<<t>>, t.content)
  <2>1. PICK t \in TokensOf(Keys) : s = Sentence(<<t>>, t.content)
    BY <1>5
  <2>2. s.text[1] = t /\ t.type \in Keys
    BY <2>1 DEF Sentence, TokensOf
  <2>3. w[a - 1 + 1] = t /\ a - 1 + 1 = a
    BY <1>2, <1>4, <1>5, <2>2 DEF Reads
  <2>4. QED
    BY <1>3, <1>5, <2>2, <2>3
<1>6. CASE n = 2 /\ \E t \in TokensOf({"KEY"}), q \in QuantifierTokens : s = Quantified(Sentence(<<t>>, t.content), q)
  <2>1. PICK t \in TokensOf({"KEY"}), q \in QuantifierTokens : s = Quantified(Sentence(<<t>>, t.content), q)
    BY <1>6
  <2>2. s.text = Append(<<t>>, q) /\ t.type = "KEY" /\ q.type \in DOMAIN Symbol
    BY <2>1, QuantifierTypes DEF Sentence, Quantified, TokensOf, QuantifierTokens
  <2>3. s.text[1] = t /\ s.text[2] = q
    BY <2>2
  <2>4. w[a - 1 + 1] = t /\ w[a - 1 + 2] = q
    <3>1. 1 \in 1 .. Len(s.text) /\ 2 \in 1 .. Len(s.text)
      BY <1>4, <1>6
    <3>2. QED
      BY <1>4, <2>3, <3>1 DEF Reads
  <2>5. a - 1 + 1 = a /\ a - 1 + 2 = a + 1 /\ a + 1 \in 1 .. Len(w) /\ b = a + 2
    BY <1>2, <1>3, <1>6
  <2>6. QED
    BY <2>2, <2>4, <2>5 DEF QuantifierAt
<1>7. CASE n > 3 /\ \E l \in Grammar[n - 3].list, q \in QuantifierTokens : s = Quantified(InParentheses(l), q)
  <2>1. PICK l \in Grammar[n - 3].list, q \in QuantifierTokens : s = Quantified(InParentheses(l), q)
    BY <1>7
  <2> DEFINE k == n - 3
             u == InParentheses(l).text
  <2>2. k \in 1 .. MaxLength /\ k \in Nat \ {0} /\ n = k + 3
    BY <1>7, LengthBound
  <2>3. l \in Grammar[k].list
    BY <2>1
  <2>4. l.text \in Seq(Letters) /\ Len(l.text) = k
    BY <2>2, <2>3, LevelProper DEF AllProper, Nonterminals
  <2> HIDE DEF k
  <2>5. u \in Seq(Letters) /\ Len(u) = k + 2
    BY <2>2, <2>4, ProperGroup
  <2>6. q \in Letters /\ q.type \in DOMAIN Symbol
    BY TokenIsLetter, QuantifierTypes DEF QuantifierTokens, TokensOf
  <2>7. s.text = Append(u, q)
    BY <2>1 DEF Quantified, Sentence
  <2> HIDE DEF u
  <2>8. Reads(w, a, u) /\ w[a + (k + 2)] = q
    <3>1. Reads(w, a, Append(u, q)) /\ a \in Nat \ {0}
      BY <1>2, <1>4, <2>7
    <3>2. Reads(w, a, u) /\ w[a + Len(u)] = q
      BY <2>5, <2>6, <3>1, ReadsAppend
    <3>3. QED
      BY <2>5, <3>2
  <2>9. a + k + 2 \in 1 .. Len(w) /\ a + (k + 2) = (a + 1 + k) + 1 /\ b = (a + 1 + k) + 2 /\ (a + 1 + k) + 1 \in 1 .. Len(w)
    BY <1>2, <1>3, <2>2
  <2>10. GroupAt(w, a, a + 1 + k, l.tree)
    BY <1>2, <2>2, <2>3, <2>8, <2>9, GroupCut DEF u
  <2>11. QuantifierAt(w, (a + 1 + k) + 1)
    BY <2>6, <2>8, <2>9 DEF QuantifierAt
  <2>12. QED
    BY <2>9, <2>10, <2>11
<1>8. CASE n > 2 /\ \E l \in Grammar[n - 2].list : Len(l.tree) > 1 /\ s = InParentheses(l)
  <2>1. PICK l \in Grammar[n - 2].list : Len(l.tree) > 1 /\ s = InParentheses(l)
    BY <1>8
  <2> DEFINE k == n - 2
  <2>2. k \in 1 .. MaxLength /\ n = k + 2 /\ a + k + 2 \in 1 .. Len(w) /\ b = (a + 1 + k) + 1
    BY <1>2, <1>3, <1>8, LengthBound
  <2>3. l \in Grammar[k].list /\ Reads(w, a, InParentheses(l).text)
    BY <1>4, <2>1
  <2> HIDE DEF k
  <2>4. GroupAt(w, a, a + 1 + k, l.tree)
    BY <1>2, <2>2, <2>3, GroupCut
  <2>5. QED
    BY <2>1, <2>2, <2>4
<1>9. QED
  BY <1>4, <1>5, <1>6, <1>7, <1>8, ExpCases

(* The shapes of the chains of arrows. *)
LEMMA PlainShapes ==
  ASSUME NEW w, Word(w), NEW a, NEW b, Spans(w, "plain", a, b)
  PROVE  \E m : /\ Spans(w, "exp", a, m)
                /\ \/ m = b
                   \/ w[m].type = "PREC" /\ Spans(w, "rseq", m + 1, b)
                   \/ w[m].type = "NEXT" /\ BoundaryAt(w, m + 1) /\ b = m + 2
                   \/ w[m].type = "NEXT" /\ Spans(w, "plain", m + 1, b)
<1>1. PICK tree : Derives(w, "plain", a, b, tree)
  BY DEF Spans
<1>2. a \in 1 .. Len(w) /\ b \in 1 .. Len(w) /\ a < b
  BY <1>1, SpanBounds
<1>3. PICK n \in 1 .. MaxLength :
           /\ n = b - a /\ b = a + n
           /\ \E s \in Grammar[n]["plain"] : s.text \in Seq(Letters) /\ Len(s.text) = n /\ s.tree = tree /\ Reads(w, a, s.text)
  BY <1>1, SpanSentence DEF Nonterminals
<1>4. PICK s \in Grammar[n].plain : Reads(w, a, s.text)
  BY <1>3
<1>5. CASE s \in Grammar[n].exp
  <2>1. Derives(w, "exp", a, b, s.tree)
    BY <1>2, <1>3, <1>4, <1>5, SpanOf DEF Nonterminals
  <2>2. QED
    BY <2>1 DEF Spans
<1>6. ASSUME NEW i \in Splits(n), s \in Links("PREC", Grammar[i].exp, Grammar[n - 1 - i].rseq)
      PROVE  \E m : Spans(w, "exp", a, m) /\ w[m].type = "PREC" /\ Spans(w, "rseq", m + 1, b)
  <2> DEFINE left == "exp"
             right == "rseq"
             type == "PREC"
  <2>1. s \in Links(type, Grammar[i][left], Grammar[n - 1 - i][right]) /\ Reads(w, a, s.text)
        /\ left \in Nonterminals /\ right \in Nonterminals /\ type \in {"NEXT", "PREC"}
    BY <1>4, <1>6 DEF Nonterminals
  <2> HIDE DEF left, right, type
  <2>2. \E m : Spans(w, left, a, m) /\ w[m].type = type /\ Spans(w, right, m + 1, b)
    BY <1>2, <1>3, <2>1, LinkCut
  <2>3. QED
    BY <2>2 DEF left, right, type
<1>7. CASE n > 2 /\ s \in Links("NEXT", Grammar[n - 2].exp, Boundary)
  <2>1. s \in Links("NEXT", Grammar[n - 2]["exp"], Boundary)
    BY <1>7
  <2>2. \E m : Spans(w, "exp", a, m) /\ w[m].type = "NEXT" /\ BoundaryAt(w, m + 1) /\ b = m + 2
    BY <1>2, <1>3, <1>4, <1>7, <2>1, ToBoundaryCut DEF Nonterminals
  <2>3. QED
    BY <2>2
<1>8. ASSUME NEW i \in Splits(n), s \in Links("NEXT", Grammar[i].exp, Grammar[n - 1 - i].plain)
      PROVE  \E m : Spans(w, "exp", a, m) /\ w[m].type = "NEXT" /\ Spans(w, "plain", m + 1, b)
  <2> DEFINE left == "exp"
             right == "plain"
             type == "NEXT"
  <2>1. s \in Links(type, Grammar[i][left], Grammar[n - 1 - i][right]) /\ Reads(w, a, s.text)
        /\ left \in Nonterminals /\ right \in Nonterminals /\ type \in {"NEXT", "PREC"}
    BY <1>4, <1>8 DEF Nonterminals
  <2> HIDE DEF left, right, type
  <2>2. \E m : Spans(w, left, a, m) /\ w[m].type = type /\ Spans(w, right, m + 1, b)
    BY <1>2, <1>3, <2>1, LinkCut
  <2>3. QED
    BY <2>2 DEF left, right, type
<1>9. \/ s \in Grammar[n].exp
      \/ \E i \in Splits(n) : s \in Links("PREC", Grammar[i].exp, Grammar[n - 1 - i].rseq)
      \/ n > 2 /\ s \in Links("NEXT", Grammar[n - 2].exp, Boundary)
      \/ \E i \in Splits(n) : s \in Links("NEXT", Grammar[i].exp, Grammar[n - 1 - i].plain)
  BY <1>4, PlainCases
<1>10. QED
  BY <1>5, <1>6, <1>7, <1>8, <1>9

(* ... after a PREC ... *)
LEMMA RseqShapes ==
  ASSUME NEW w, Word(w), NEW a, NEW b, Spans(w, "rseq", a, b)
  PROVE  \E m : /\ Spans(w, "exp", a, m)
                /\ \/ m = b
                   \/ w[m].type = "PREC" /\ Spans(w, "rseq", m + 1, b)
                   \/ w[m].type = "PREC" /\ BoundaryAt(w, m + 1) /\ b = m + 2
<1>1. PICK tree : Derives(w, "rseq", a, b, tree)
  BY DEF Spans
<1>2. a \in 1 .. Len(w) /\ b \in 1 .. Len(w) /\ a < b
  BY <1>1, SpanBounds
<1>3. PICK n \in 1 .. MaxLength :
           /\ n = b - a /\ b = a + n
           /\ \E s \in Grammar[n]["rseq"] : s.text \in Seq(Letters) /\ Len(s.text) = n /\ s.tree = tree /\ Reads(w, a, s.text)
  BY <1>1, SpanSentence DEF Nonterminals
<1>4. PICK s \in Grammar[n].rseq : Reads(w, a, s.text)
  BY <1>3
<1>5. CASE s \in Grammar[n].exp
  <2>1. Derives(w, "exp", a, b, s.tree)
    BY <1>2, <1>3, <1>4, <1>5, SpanOf DEF Nonterminals
  <2>2. QED
    BY <2>1 DEF Spans
<1>6. ASSUME NEW i \in Splits(n), s \in Links("PREC", Grammar[i].exp, Grammar[n - 1 - i].rseq)
      PROVE  \E m : Spans(w, "exp", a, m) /\ w[m].type = "PREC" /\ Spans(w, "rseq", m + 1, b)
  <2> DEFINE left == "exp"
             right == "rseq"
             type == "PREC"
  <2>1. s \in Links(type, Grammar[i][left], Grammar[n - 1 - i][right]) /\ Reads(w, a, s.text)
        /\ left \in Nonterminals /\ right \in Nonterminals /\ type \in {"NEXT", "PREC"}
    BY <1>4, <1>6 DEF Nonterminals
  <2> HIDE DEF left, right, type
  <2>2. \E m : Spans(w, left, a, m) /\ w[m].type = type /\ Spans(w, right, m + 1, b)
    BY <1>2, <1>3, <2>1, LinkCut
  <2>3. QED
    BY <2>2 DEF left, right, type
<1>7. CASE n > 2 /\ s \in Links("PREC", Grammar[n - 2].exp, Boundary)
  <2>1. s \in Links("PREC", Grammar[n - 2]["exp"], Boundary)
    BY <1>7
  <2>2. \E m : Spans(w, "exp", a, m) /\ w[m].type = "PREC" /\ BoundaryAt(w, m + 1) /\ b = m + 2
    BY <1>2, <1>3, <1>4, <1>7, <2>1, ToBoundaryCut DEF Nonterminals
  <2>3. QED
    BY <2>2
<1>8. \/ s \in Grammar[n].exp
      \/ \E i \in Splits(n) : s \in Links("PREC", Grammar[i].exp, Grammar[n - 1 - i].rseq)
      \/ n > 2 /\ s \in Links("PREC", Grammar[n - 2].exp, Boundary)
  BY <1>4, RseqCases
<1>9. QED
  BY <1>5, <1>6, <1>7, <1>8

(* ... and with a boundary at the start. *)
LEMMA SeqShapes ==
  ASSUME NEW w, Word(w), NEW a, NEW b, Spans(w, "seq", a, b)
  PROVE  \/ Spans(w, "plain", a, b)
         \/ BoundaryAt(w, a) /\ w[a + 1].type = "PREC" /\ Spans(w, "rseq", a + 2, b)
<1>1. PICK tree : Derives(w, "seq", a, b, tree)
  BY DEF Spans
<1>2. a \in 1 .. Len(w) /\ b \in 1 .. Len(w) /\ a < b
  BY <1>1, SpanBounds
<1>3. PICK n \in 1 .. MaxLength :
           /\ n = b - a /\ b = a + n
           /\ \E s \in Grammar[n]["seq"] : s.text \in Seq(Letters) /\ Len(s.text) = n /\ s.tree = tree /\ Reads(w, a, s.text)
  BY <1>1, SpanSentence DEF Nonterminals
<1>4. PICK s \in Grammar[n].seq : Reads(w, a, s.text)
  BY <1>3
<1>5. CASE s \in Grammar[n].plain
  <2>1. Derives(w, "plain", a, b, s.tree)
    BY <1>2, <1>3, <1>4, <1>5, SpanOf DEF Nonterminals
  <2>2. QED
    BY <2>1 DEF Spans
<1>6. CASE n > 2 /\ s \in Links("PREC", Boundary, Grammar[n - 2].rseq)
  <2>1. s \in Links("PREC", Boundary, Grammar[n - 2]["rseq"])
    BY <1>6
  <2>2. BoundaryAt(w, a) /\ w[a + 1].type = "PREC" /\ Spans(w, "rseq", a + 2, b)
    BY <1>2, <1>3, <1>4, <1>6, <2>1, FromBoundaryCut DEF Nonterminals
  <2>3. QED
    BY <2>2
<1>7. QED
  BY <1>4, <1>5, <1>6, SeqCases

(* The shapes of a list and of a query. *)
LEMMA ListShapes ==
  ASSUME NEW w, Word(w), NEW a, NEW b, NEW tree, Derives(w, "list", a, b, tree)
  PROVE  \/ Spans(w, "seq", a, b) /\ Len(tree) = 1
         \/ \E m, x : Derives(w, "list", a, m, x) /\ w[m].type = "ALT" /\ Spans(w, "seq", m + 1, b) /\ Len(tree) = Len(x) + 1
<1>1. a \in 1 .. Len(w) /\ b \in 1 .. Len(w) /\ a < b
  BY SpanBounds
<1>2. PICK n \in 1 .. MaxLength :
           /\ n = b - a /\ b = a + n
           /\ \E s \in Grammar[n]["list"] : s.text \in Seq(Letters) /\ Len(s.text) = n /\ s.tree = tree /\ Reads(w, a, s.text)
  BY SpanSentence DEF Nonterminals
<1>3. PICK s \in Grammar[n].list : s.tree = tree /\ Reads(w, a, s.text)
  BY <1>2
<1>4. ASSUME NEW u \in Grammar[n].seq, s = Sentence(u.text, <<u.tree>>)
      PROVE  Spans(w, "seq", a, b) /\ Len(tree) = 1
  <2>1. s.text = u.text /\ s.tree = <<u.tree>>
    BY <1>4 DEF Sentence
  <2>2. Derives(w, "seq", a, b, u.tree)
    BY <1>1, <1>2, <1>3, <2>1, SpanOf DEF Nonterminals
  <2>3. QED
    BY <1>3, <2>1, <2>2 DEF Spans
<1>5. ASSUME NEW i \in Splits(n), \E l \in Grammar[i].list, t \in TokensOf({"ALT"}), r \in Grammar[n - 1 - i].seq :
                 s = Sentence(Around(l, t, r), Append(l.tree, r.tree))
      PROVE  \E m, x : Derives(w, "list", a, m, x) /\ w[m].type = "ALT" /\ Spans(w, "seq", m + 1, b) /\ Len(tree) = Len(x) + 1
  <2>1. PICK l \in Grammar[i].list, t \in TokensOf({"ALT"}), r \in Grammar[n - 1 - i].seq :
                 s = Sentence(Around(l, t, r), Append(l.tree, r.tree))
    BY <1>5
  <2>2. s.text = Around(l, t, r) /\ s.tree = Append(l.tree, r.tree)
    BY <2>1 DEF Sentence
  <2>3. t \in Letters /\ t.type = "ALT"
    BY TokenIsLetter
  <2>4. l \in Grammar[i]["list"] /\ r \in Grammar[n - 1 - i]["seq"] /\ Reads(w, a, Around(l, t, r))
    BY <1>3, <2>2
  <2>5. Derives(w, "list", a, a + i, l.tree) /\ w[a + i] = t /\ Derives(w, "seq", (a + i) + 1, b, r.tree)
    BY <1>1, <1>2, <2>3, <2>4, TokenCut DEF Nonterminals
  <2>6. l.tree \in Seq(SeqTrees)
    BY <2>5, SpanProper DEF Nonterminals
  <2>7. Len(tree) = Len(l.tree) + 1
    BY <1>3, <2>2, <2>6
  <2>8. QED
    BY <2>3, <2>5, <2>7 DEF Spans
<1>6. \/ \E u \in Grammar[n].seq : s = Sentence(u.text, <<u.tree>>)
      \/ \E i \in Splits(n) : \E l \in Grammar[i].list, t \in TokensOf({"ALT"}), r \in Grammar[n - 1 - i].seq :
            s = Sentence(Around(l, t, r), Append(l.tree, r.tree))
  BY ListCases
<1>7. QED
  BY <1>4, <1>5, <1>6

(* ... a query. *)
LEMMA QueryShapes ==
  ASSUME NEW w, Word(w), NEW a, NEW b, Spans(w, "query", a, b)
  PROVE  \E m : /\ Spans(w, "seq", a, m)
                /\ \/ m = b
                   \/ w[m].type = "SEP" /\ Spans(w, "query", m + 1, b)
                   \/ w[m].type = "SEP" /\ b = m + 1
<1>1. PICK tree : Derives(w, "query", a, b, tree)
  BY DEF Spans
<1>2. a \in 1 .. Len(w) /\ b \in 1 .. Len(w) /\ a < b /\ a \in Nat \ {0} /\ Len(w) \in Nat
  BY <1>1, SpanBounds
<1>3. PICK n \in 1 .. MaxLength :
           /\ n = b - a /\ b = a + n
           /\ \E s \in Grammar[n]["query"] : s.text \in Seq(Letters) /\ Len(s.text) = n /\ s.tree = tree /\ Reads(w, a, s.text)
  BY <1>1, SpanSentence DEF Nonterminals
<1>4. PICK s \in Grammar[n].query : Reads(w, a, s.text)
  BY <1>3
<1>5. CASE s \in Grammar[n].seq
  <2>1. Derives(w, "seq", a, b, s.tree)
    BY <1>2, <1>3, <1>4, <1>5, SpanOf DEF Nonterminals
  <2>2. QED
    BY <2>1 DEF Spans
<1>6. ASSUME NEW i \in Splits(n), \E l \in Grammar[i].seq, t \in TokensOf({"SEP"}), r \in Grammar[n - 1 - i].query :
                 s = Sentence(Around(l, t, r), SEP(l.tree, r.tree))
      PROVE  \E m : Spans(w, "seq", a, m) /\ w[m].type = "SEP" /\ Spans(w, "query", m + 1, b)
  <2>1. PICK l \in Grammar[i].seq, t \in TokensOf({"SEP"}), r \in Grammar[n - 1 - i].query :
                 s = Sentence(Around(l, t, r), SEP(l.tree, r.tree))
    BY <1>6
  <2>2. s.text = Around(l, t, r)
    BY <2>1 DEF Sentence
  <2>3. t \in Letters /\ t.type = "SEP"
    BY TokenIsLetter
  <2>4. l \in Grammar[i]["seq"] /\ r \in Grammar[n - 1 - i]["query"] /\ Reads(w, a, Around(l, t, r))
    BY <1>4, <2>2
  <2>5. Derives(w, "seq", a, a + i, l.tree) /\ w[a + i] = t /\ Derives(w, "query", (a + i) + 1, b, r.tree)
    BY <1>2, <1>3, <2>3, <2>4, TokenCut DEF Nonterminals
  <2>6. QED
    BY <2>3, <2>5 DEF Spans
<1>7. CASE n > 1 /\ \E u \in Grammar[n - 1].seq, t \in TokensOf({"SEP"}) : s = Sentence(Append(u.text, t), u.tree)
  <2>1. PICK u \in Grammar[n - 1].seq, t \in TokensOf({"SEP"}) : s = Sentence(Append(u.text, t), u.tree)
    BY <1>7
  <2>2. s.text = Append(u.text, t) /\ t \in Letters /\ t.type = "SEP"
    BY <2>1, TokenIsLetter DEF Sentence
  <2> DEFINE k == n - 1
             v == u.text
             m == a + k
  <2>3. k \in 1 .. MaxLength /\ m \in 1 .. Len(w) /\ a < m /\ m - a = k /\ b = m + 1
    BY <1>2, <1>3, <1>7, LengthBound
  <2>4. v \in Seq(Letters) /\ Len(v) = k /\ u \in Grammar[k]["seq"]
    BY <2>1, <2>3, LevelProper DEF AllProper, Nonterminals
  <2>5. Reads(w, a, v) /\ w[a + k] = t
    <3> HIDE DEF v, k
    <3>1. Reads(w, a, Append(v, t))
      BY <1>4, <2>2 DEF v
    <3>2. QED
      BY <1>2, <2>2, <2>4, <3>1, ReadsAppend
  <2> HIDE DEF m
  <2>6. Derives(w, "seq", a, m, u.tree)
    BY <1>2, <2>3, <2>4, <2>5, SpanOf DEF Nonterminals
  <2>7. w[m].type = "SEP"
    BY <2>2, <2>5 DEF m
  <2>8. QED
    BY <2>3, <2>6, <2>7 DEF Spans
<1>8. \/ s \in Grammar[n].seq
      \/ \E i \in Splits(n) : \E l \in Grammar[i].seq, t \in TokensOf({"SEP"}), r \in Grammar[n - 1 - i].query :
            s = Sentence(Around(l, t, r), SEP(l.tree, r.tree))
      \/ n > 1 /\ \E u \in Grammar[n - 1].seq, t \in TokensOf({"SEP"}) : s = Sentence(Append(u.text, t), u.tree)
  BY <1>4, QueryCases
<1>9. QED
  BY <1>5, <1>6, <1>7, <1>8

(* The inside of parentheses, from its first branch. *)
Leads(w, a, b, tree) ==
  \/ Spans(w, "seq", a, b) /\ Len(tree) = 1
  \/ \E q, x : Spans(w, "seq", a, q) /\ w[q].type = "ALT" /\ Derives(w, "list", q + 1, b, x) /\ Len(tree) = Len(x) + 1

(* One branch more at the end leaves the first one. *)
LEMMA LeadsLonger ==
  ASSUME NEW w, Word(w), NEW a, NEW m, NEW b, NEW x, NEW tree, Derives(w, "list", a, m, x), Leads(w, a, m, x),
         w[m].type = "ALT", Spans(w, "seq", m + 1, b), Len(tree) = Len(x) + 1
  PROVE  Leads(w, a, b, tree)
<1>1. PICK y : Derives(w, "seq", m + 1, b, y)
  BY DEF Spans
<1>2. CASE Spans(w, "seq", a, m) /\ Len(x) = 1
  <2> DEFINE z == <<y>>
  <2>1. Derives(w, "list", m + 1, b, z)
    BY <1>1, SeqSpan
  <2>2. Len(z) = 1
    OBVIOUS
  <2> HIDE DEF z
  <2>3. Len(tree) = Len(z) + 1
    BY <1>2, <2>2
  <2>4. QED
    BY <1>2, <2>1, <2>3 DEF Leads
<1>3. ASSUME NEW q, NEW u, Spans(w, "seq", a, q), w[q].type = "ALT", Derives(w, "list", q + 1, m, u), Len(x) = Len(u) + 1
      PROVE  Leads(w, a, b, tree)
  <2> DEFINE z == Append(u, y)
  <2>1. Derives(w, "list", q + 1, b, z)
    BY <1>1, <1>3, BranchSpan
  <2>2. u \in Seq(SeqTrees) /\ y \in SeqTrees
    BY <1>1, <1>3, SpanProper DEF Nonterminals
  <2>3. Len(z) = Len(u) + 1
    BY <2>2
  <2> HIDE DEF z
  <2>4. Len(tree) = Len(z) + 1
    BY <1>3, <2>3
  <2>5. QED
    BY <1>3, <2>1, <2>4 DEF Leads
<1>4. QED
  BY <1>2, <1>3 DEF Leads

(* Lists are built from their last branch; read from the first, they are a  *)
(* sequence and a shorter list.                                             *)
LEMMA FirstBranch ==
  ASSUME NEW w, Word(w), NEW a, NEW b, NEW tree, Derives(w, "list", a, b, tree)
  PROVE  Leads(w, a, b, tree)
<1> DEFINE Wrong(n) == \E c, d, t : Derives(w, "list", c, d, t) /\ d - c = n /\ ~ Leads(w, c, d, t)
           S == {n \in Nat : Wrong(n)}
<1>1. S = {}
  <2>1. SUFFICES ASSUME S # {} PROVE FALSE
    OBVIOUS
  <2>2. PICK n \in S : \A k \in S : n <= k
    <3>1. S \subseteq Nat
      OBVIOUS
    <3> HIDE DEF S
    <3>2. QED
      BY <2>1, <3>1, Least
  <2>3. PICK c, d, t : Derives(w, "list", c, d, t) /\ d - c = n /\ ~ Leads(w, c, d, t)
    OBVIOUS
  <2>4. n \in Nat
    OBVIOUS
  <2>5. CASE Spans(w, "seq", c, d) /\ Len(t) = 1
    BY <2>3, <2>5 DEF Leads
  <2>6. ASSUME NEW m, NEW x, Derives(w, "list", c, m, x), w[m].type = "ALT", Spans(w, "seq", m + 1, d), Len(t) = Len(x) + 1
        PROVE  FALSE
    <3>1. c \in Nat /\ m \in Nat /\ c < m
      BY <2>6, SpanBounds
    <3>2. PICK y : Derives(w, "seq", m + 1, d, y)
      BY <2>6 DEF Spans
    <3>3. d \in Nat /\ m + 1 < d
      BY <3>2, SpanBounds
    <3>4. m - c \in Nat /\ ~ (n <= m - c)
      BY <2>3, <3>1, <3>3
    <3>5. ~ Wrong(m - c)
      BY <2>2, <3>4
    <3>6. Leads(w, c, m, x)
      BY <2>6, <3>5
    <3> HIDE DEF Wrong, S
    <3>7. Leads(w, c, d, t)
      BY <2>6, <3>6, LeadsLonger
    <3>8. QED
      BY <2>3, <3>7
  <2>7. QED
    BY <2>3, <2>5, <2>6, ListShapes
<1>2. b - a \in Nat
  BY SpanBounds
<1>3. QED
  BY <1>1, <1>2

(* What a part of the text can begin with. *)
Starts == Keys \cup {"LPAREN"}

(* An expression begins with a key, an anchor or a parenthesis. *)
LEMMA StartsExp ==
  ASSUME NEW w, Word(w), NEW a, NEW b, Spans(w, "exp", a, b)
  PROVE  w[a].type \in Starts
<1>1. ASSUME NEW m, NEW branches, GroupAt(w, a, m, branches) PROVE w[a].type \in Starts
  BY <1>1 DEF GroupAt, Starts
<1>2. "KEY" \in Starts /\ \A t \in Keys : t \in Starts
  BY DEF Starts, Keys
<1>3. QED
  BY <1>1, <1>2, ExpShapes

(* So does a sequence, a list or a query, or with a boundary. *)
LEMMA StartsSeq ==
  ASSUME NEW w, Word(w), NEW a, NEW b
  PROVE  /\ Spans(w, "plain", a, b) \/ Spans(w, "rseq", a, b) => w[a].type \in Starts
         /\ Spans(w, "seq", a, b) \/ Spans(w, "query", a, b) \/ (\E x : Derives(w, "list", a, b, x))
              => w[a].type \in Starts \cup {"END"}
<1>1. ASSUME NEW c, Spans(w, "plain", a, c) PROVE w[a].type \in Starts
  BY <1>1, PlainShapes, StartsExp
<1>2. ASSUME Spans(w, "rseq", a, b) PROVE w[a].type \in Starts
  BY <1>2, RseqShapes, StartsExp
<1>3. ASSUME NEW c, Spans(w, "seq", a, c) PROVE w[a].type \in Starts \cup {"END"}
  <2>1. CASE Spans(w, "plain", a, c)
    BY <1>1, <2>1
  <2>2. CASE BoundaryAt(w, a)
    BY <2>2 DEF BoundaryAt
  <2>3. QED
    BY <1>3, <2>1, <2>2, SeqShapes
<1>4. ASSUME Spans(w, "query", a, b) PROVE w[a].type \in Starts \cup {"END"}
  BY <1>3, <1>4, QueryShapes
<1>5. ASSUME NEW x, Derives(w, "list", a, b, x) PROVE w[a].type \in Starts \cup {"END"}
  BY <1>3, <1>5, FirstBranch DEF Leads
<1>6. QED
  BY <1>1, <1>2, <1>3, <1>4, <1>5

(* What remains of a text: where each function of the stack ends. *)
Follow(at) ==
  IF at \in {"exp", "exp.quantifier", "domain", "alternative", "domain.more", "domain.quantifier"}
  THEN {"NEXT", "PREC", "ALT", "RPAREN", "SEP", "STOP"}
  ELSE IF at \in {"allExpr", "allExpr.path", "allExpr.more", "sep"} THEN {"STOP"}
  ELSE {"ALT", "RPAREN", "SEP", "STOP"}

(* The end of a group of n branches; of a list of n branches at m; of a     *)
(* right operand.                                                           *)
Quantifies(w, n, p, e) == (QuantifierAt(w, p) /\ e = p + 1) \/ (n > 1 /\ e = p)
Closes(w, n, m, e) == w[m].type = "RPAREN" /\ Quantifies(w, n, m + 1, e)
Arrives(w, nt, p, e) == (BoundaryAt(w, p) /\ e = p + 1) \/ Spans(w, nt, p, e)

(* Where the function of a frame f that goes on at p can end, and what must *)
(* follow.                                                                  *)
After(w, f, p, e) ==
  /\ f.at = "exp" => Spans(w, "exp", p, e)
  /\ f.at = "exp.quantifier" => e = p \/ (QuantifierAt(w, p) /\ e = p + 1)
  /\ f.at = "domain" => Spans(w, "exp", p, e) /\ w[p].type \notin Keys
  /\ f.at = "alternative" => \E m, x : Derives(w, "list", p, m, x) /\ Closes(w, Len(f.kept) + Len(x), m, e)
  /\ f.at = "domain.more" =>
       \/ Closes(w, Len(f.kept) + 1, p, e)
       \/ w[p].type = "ALT" /\ \E m, x : Derives(w, "list", p + 1, m, x) /\ Closes(w, Len(f.kept) + 1 + Len(x), m, e)
  /\ f.at = "domain.quantifier" => Quantifies(w, Len(f.kept), p, e)
  /\ f.at = "seq" => Spans(w, "seq", p, e)
  /\ f.at = "seq.boundary" => w[p].type = "PREC" /\ Spans(w, "rseq", p + 1, e)
  /\ f.at = "seq.exp" =>
       \/ e = p
       \/ w[p].type = "PREC" /\ Spans(w, "rseq", p + 1, e)
       \/ w[p].type = "NEXT" /\ Arrives(w, "plain", p + 1, e)
  /\ f.at = "seq.next" => Arrives(w, "plain", p, e)
  /\ f.at \in {"next", "prec", "sep"} => e = p
  /\ f.at = "rseq" => Spans(w, "rseq", p, e)
  /\ f.at = "rseq.exp" => e = p \/ (w[p].type = "PREC" /\ Arrives(w, "rseq", p + 1, e))
  /\ f.at = "rseq.prec" => Arrives(w, "rseq", p, e)
  /\ f.at = "allExpr" => Spans(w, "query", p, e)
  /\ f.at = "allExpr.path" => e = p \/ (w[p].type = "SEP" /\ (e = p + 1 \/ Spans(w, "query", p + 1, e)))
  /\ f.at = "allExpr.more" => e = p \/ Spans(w, "query", p, e)

(* The frames that end where the one below goes on, up to the end of the    *)
(* word.                                                                    *)
Todo(w) == {d \in Frames \X Nat \X Nat : w[d[3]].type \in Follow(d[1].at) /\ After(w, d[1], d[2], d[3])}
Complete(w, st, p) == st \in Seq(Frames) /\ Reaches(Todo(w), Nat, st, p, Len(w))

(* The frame on top ends where the rest of the stack goes on. *)
LEMMA CompleteTop ==
  ASSUME NEW w, NEW st, st # <<>>, NEW p, Complete(w, st, p)
  PROVE  /\ Head(st) \in Frames /\ Tail(st) \in Seq(Frames) /\ p \in Nat
         /\ \E e \in Nat : w[e].type \in Follow(Head(st).at) /\ After(w, Head(st), p, e) /\ Complete(w, Tail(st), e)
<1>1. st \in Seq(Frames) /\ Reaches(Todo(w), Nat, st, p, Len(w))
  BY DEF Complete
<1>2. Head(st) \in Frames /\ Tail(st) \in Seq(Frames)
  BY <1>1
<1>3. PICK e \in Nat : p \in Nat /\ <<Head(st), p, e>> \in Todo(w) /\ Reaches(Todo(w), Nat, Tail(st), e, Len(w))
  BY <1>1, ReachesUnfold
<1>4. w[e].type \in Follow(Head(st).at) /\ After(w, Head(st), p, e)
  BY <1>3 DEF Todo
<1>5. QED
  BY <1>2, <1>3, <1>4 DEF Complete

(* The frame that makes a stack is a frame, ... *)
LEMMA Pushed ==
  ASSUME NEW f, NEW rest \in Seq(Frames), <<f>> \o rest \in Seq(Frames)
  PROVE  f \in Frames
<1> DEFINE one == <<f>>
           st == one \o rest
           All == {f} \cup Frames
<1>1. one \in Seq(All) /\ Len(one) = 1 /\ one[1] = f /\ rest \in Seq(All)
  OBVIOUS
<1> HIDE DEF one, All
<1>2. st[1] = one[1] /\ Len(st) = 1 + Len(rest)
  <2>1. /\ Len(st) = Len(one) + Len(rest)
        /\ \A i \in 1 .. Len(one) + Len(rest) : st[i] = IF i <= Len(one) THEN one[i] ELSE rest[i - Len(one)]
    BY <1>1, ConcatProperties
  <2>2. 1 \in 1 .. 1 + Len(rest)
    BY <1>1
  <2>3. QED
    BY <1>1, <2>1, <2>2
<1>3. st \in Seq(Frames) /\ 1 \in 1 .. Len(st)
  BY <1>2 DEF one
<1>4. QED
  BY <1>1, <1>2, <1>3

(* ... and so are two. *)
LEMMA PushedTwo ==
  ASSUME NEW g, NEW f, NEW rest \in Seq(Frames), <<g, f>> \o rest \in Seq(Frames)
  PROVE  g \in Frames /\ f \in Frames
<1> DEFINE two == <<g, f>>
           st == two \o rest
           All == {g, f} \cup Frames
<1>1. two \in Seq(All) /\ Len(two) = 2 /\ two[1] = g /\ two[2] = f /\ rest \in Seq(All)
  OBVIOUS
<1> HIDE DEF two, All
<1>2. st[1] = two[1] /\ st[2] = two[2] /\ Len(st) = 2 + Len(rest)
  <2>1. /\ Len(st) = Len(two) + Len(rest)
        /\ \A i \in 1 .. Len(two) + Len(rest) : st[i] = IF i <= Len(two) THEN two[i] ELSE rest[i - Len(two)]
    BY <1>1, ConcatProperties
  <2>2. 1 \in 1 .. 2 + Len(rest) /\ 2 \in 1 .. 2 + Len(rest)
    BY <1>1
  <2>3. QED
    BY <1>1, <2>1, <2>2
<1>3. st \in Seq(Frames) /\ 1 \in 1 .. Len(st) /\ 2 \in 1 .. Len(st)
  BY <1>2 DEF two
<1>4. QED
  BY <1>1, <1>2, <1>3

(* A function goes on in the frame f, which ends at e. *)
LEMMA CompletePush ==
  ASSUME NEW w, NEW f, NEW rest \in Seq(Frames), <<f>> \o rest \in Seq(Frames), NEW p \in Nat, NEW e \in Nat,
         w[e].type \in Follow(f.at), After(w, f, p, e), Complete(w, rest, e)
  PROVE  Complete(w, <<f>> \o rest, p)
<1>1. f \in Frames
  BY Pushed
<1>2. <<f, p, e>> \in Todo(w)
  BY <1>1 DEF Todo
<1>3. Reaches(Todo(w), Nat, <<f>> \o rest, p, Len(w))
  <2>1. Reaches(Todo(w), Nat, rest, e, Len(w))
    BY DEF Complete
  <2>2. QED
    BY <1>1, <1>2, <2>1, ReachesFold
<1>4. QED
  BY <1>3 DEF Complete

(* A function calls another one, which ends at m, and ends itself at e. *)
LEMMA CompleteCall ==
  ASSUME NEW w, NEW g, NEW f, NEW rest \in Seq(Frames), <<g, f>> \o rest \in Seq(Frames), NEW p \in Nat, NEW m \in Nat, NEW e \in Nat,
         w[m].type \in Follow(g.at), After(w, g, p, m), w[e].type \in Follow(f.at), After(w, f, m, e), Complete(w, rest, e)
  PROVE  Complete(w, <<g, f>> \o rest, p)
<1>1. <<f>> \o rest \in Seq(Frames) /\ <<g, f>> \o rest = <<g>> \o (<<f>> \o rest)
  BY PushedTwo, TwoFrames
<1>2. Complete(w, <<f>> \o rest, m)
  BY <1>1, CompletePush
<1> DEFINE below == <<f>> \o rest
<1>3. below \in Seq(Frames) /\ Complete(w, below, m)
  BY <1>1, <1>2
<1> HIDE DEF below
<1>4. <<g>> \o below \in Seq(Frames)
  BY <1>3
<1>5. Complete(w, <<g>> \o below, p)
  BY <1>3, <1>4, CompletePush
<1>6. QED
  BY <1>1, <1>5 DEF below

(* Where a frame goes on and what it has kept. *)
LEMMA FrameAt == \A at, kept, port : /\ Frame(at, kept, port).at = at
                                   /\ Frame(at, kept, port).kept = kept
                                   /\ Call(at).at = at /\ Call(at).kept = <<>>
  BY DEF Call, Frame

(* constructAstExp. *)
LEMMA GoesKey ==
  ASSUME NEW w, Word(w), NEW st, st # <<>>, NEW p, Complete(w, st, p), Head(st).at = "exp", w[p].type \in Keys
  PROVE  /\ w[p].type # "KEY" => Complete(w, Tail(st), p + 1)
         /\ \A g : w[p].type = "KEY" /\ g.at = "exp.quantifier" /\ <<g>> \o Tail(st) \in Seq(Frames)
                     => Complete(w, <<g>> \o Tail(st), p + 1)
<1>1. PICK e \in Nat : w[e].type \in Follow("exp") /\ Spans(w, "exp", p, e) /\ Complete(w, Tail(st), e)
  BY CompleteTop DEF After
<1>2. p \in Nat /\ Tail(st) \in Seq(Frames)
  BY CompleteTop
<1>3. \/ e = p + 1
      \/ e = (p + 1) + 1 /\ w[p].type = "KEY" /\ QuantifierAt(w, p + 1)
  <2>1. ASSUME NEW m, NEW branches, GroupAt(w, p, m, branches) PROVE FALSE
    BY <2>1 DEF GroupAt, Keys
  <2>2. p + 2 = (p + 1) + 1
    BY <1>2
  <2>3. QED
    BY <1>1, <2>1, <2>2, ExpShapes
<1>4. ASSUME NEW g, g.at = "exp.quantifier", <<g>> \o Tail(st) \in Seq(Frames)
      PROVE  Complete(w, <<g>> \o Tail(st), p + 1)
  <2> DEFINE q == p + 1
  <2>0. q \in Nat /\ (e = q \/ (QuantifierAt(w, q) /\ e = q + 1))
    <3>1. q \in Nat
      BY <1>2
    <3>2. e = q \/ (QuantifierAt(w, q) /\ e = q + 1)
      BY <1>3
    <3>3. QED
      BY <3>1, <3>2
  <2> HIDE DEF q
  <2>1. q \in Nat /\ w[e].type \in Follow("exp.quantifier") /\ (e = q \/ (QuantifierAt(w, q) /\ e = q + 1))
    BY <1>1, <2>0 DEF Follow
  <2>2. After(w, g, q, e) /\ w[e].type \in Follow(g.at)
    BY <1>4, <2>1 DEF After
  <2>3. Complete(w, <<g>> \o Tail(st), q)
    BY <1>1, <1>2, <1>4, <2>1, <2>2, CompletePush
  <2>4. QED
    BY <2>3 DEF q
<1>5. w[p].type # "KEY" => Complete(w, Tail(st), p + 1)
  BY <1>1, <1>3
<1>6. QED
  BY <1>4, <1>5

(* A quantifier is read where it stands and only there. *)
LEMMA GoesQuantifier ==
  ASSUME NEW w, Word(w), NEW st, st # <<>>, NEW p, Complete(w, st, p), Head(st).at = "exp.quantifier"
  PROVE  /\ w[p].type \in DOMAIN Symbol => Complete(w, Tail(st), p + 1)
         /\ w[p].type \notin DOMAIN Symbol => Complete(w, Tail(st), p)
<1>1. PICK e \in Nat : /\ w[e].type \in Follow("exp.quantifier") /\ (e = p \/ (QuantifierAt(w, p) /\ e = p + 1))
                       /\ Complete(w, Tail(st), e)
  BY CompleteTop DEF After
<1>2. e = p => w[p].type \notin DOMAIN Symbol
  BY <1>1, QuantifierTypes DEF Follow
<1>3. QED
  BY <1>1, <1>2 DEF QuantifierAt

(* What is no key is a group. *)
LEMMA GoesDomain ==
  ASSUME NEW w, Word(w), NEW st, st # <<>>, NEW p, Complete(w, st, p), Head(st).at = "exp", w[p].type \notin Keys,
         NEW g, g.at = "domain", <<g>> \o Tail(st) \in Seq(Frames)
  PROVE  Complete(w, <<g>> \o Tail(st), p)
<1>1. PICK e \in Nat : w[e].type \in Follow("exp") /\ Spans(w, "exp", p, e) /\ Complete(w, Tail(st), e)
  BY CompleteTop DEF After
<1>2. p \in Nat /\ Tail(st) \in Seq(Frames)
  BY CompleteTop
<1>3. w[e].type \in Follow(g.at) /\ After(w, g, p, e)
  BY <1>1 DEF After, Follow
<1>4. QED
  BY <1>1, <1>2, <1>3, CompletePush

(* constructAstSeq. *)
LEMMA GoesStart ==
  ASSUME NEW w, Word(w), NEW st, st # <<>>, NEW p, Complete(w, st, p), Head(st).at = "seq", w[p].type = "END",
         NEW g, g.at = "seq.boundary", <<g>> \o Tail(st) \in Seq(Frames)
  PROVE  Complete(w, <<g>> \o Tail(st), p + 1)
<1>1. PICK e \in Nat : w[e].type \in Follow("seq") /\ Spans(w, "seq", p, e) /\ Complete(w, Tail(st), e)
  BY CompleteTop DEF After
<1>2. p \in Nat /\ Tail(st) \in Seq(Frames) /\ p + 2 = (p + 1) + 1
  <2>1. p \in Nat /\ Tail(st) \in Seq(Frames)
    BY CompleteTop
  <2>2. QED
    BY <2>1
<1>3. ~ Spans(w, "plain", p, e)
  BY StartsSeq DEF Starts, Keys
<1>4. w[p + 1].type = "PREC" /\ Spans(w, "rseq", (p + 1) + 1, e)
  BY <1>1, <1>2, <1>3, SeqShapes
<1> DEFINE q == p + 1
<1>5. q \in Nat /\ w[q].type = "PREC" /\ Spans(w, "rseq", q + 1, e)
  BY <1>2, <1>4
<1> HIDE DEF q
<1>6. w[e].type \in Follow(g.at) /\ After(w, g, q, e)
  BY <1>1, <1>5 DEF After, Follow
<1>7. Complete(w, <<g>> \o Tail(st), q)
  BY <1>1, <1>2, <1>5, <1>6, CompletePush
<1>8. QED
  BY <1>7 DEF q

(* After the boundary and its PREC a sequence follows. *)
LEMMA GoesBoundary ==
  ASSUME NEW w, Word(w), NEW st, st # <<>>, NEW p, Complete(w, st, p), Head(st).at = "seq.boundary",
         NEW g, g.at = "rseq", NEW f, f.at = "prec", <<g, f>> \o Tail(st) \in Seq(Frames)
  PROVE  Complete(w, <<g, f>> \o Tail(st), p + 1)
<1>1. PICK e \in Nat : w[e].type \in Follow("seq.boundary") /\ Spans(w, "rseq", p + 1, e) /\ Complete(w, Tail(st), e)
  BY CompleteTop DEF After
<1>2. p \in Nat /\ Tail(st) \in Seq(Frames)
  BY CompleteTop
<1> DEFINE q == p + 1
<1>3. q \in Nat /\ Spans(w, "rseq", q, e)
  BY <1>1, <1>2
<1> HIDE DEF q
<1>4. w[e].type \in Follow(g.at) /\ After(w, g, q, e) /\ w[e].type \in Follow(f.at) /\ After(w, f, e, e)
  BY <1>1, <1>3 DEF After, Follow
<1>5. Complete(w, <<g, f>> \o Tail(st), q)
  BY <1>1, <1>2, <1>3, <1>4, CompleteCall
<1>6. QED
  BY <1>5 DEF q

(* A sequence without a boundary at its start begins with an expression. *)
LEMMA GoesSeq ==
  ASSUME NEW w, Word(w), NEW st, st # <<>>, NEW p, Complete(w, st, p), Head(st).at = "seq", w[p].type # "END",
         NEW g, g.at = "exp", NEW f, f.at = "seq.exp", <<g, f>> \o Tail(st) \in Seq(Frames)
  PROVE  Complete(w, <<g, f>> \o Tail(st), p)
<1>1. PICK e \in Nat : w[e].type \in Follow("seq") /\ Spans(w, "seq", p, e) /\ Complete(w, Tail(st), e)
  BY CompleteTop DEF After
<1>2. p \in Nat /\ Tail(st) \in Seq(Frames)
  BY CompleteTop
<1>3. Spans(w, "plain", p, e)
  BY <1>1, SeqShapes DEF BoundaryAt
<1>4. PICK m : /\ Spans(w, "exp", p, m)
               /\ \/ m = e
                  \/ w[m].type = "PREC" /\ Spans(w, "rseq", m + 1, e)
                  \/ w[m].type = "NEXT" /\ BoundaryAt(w, m + 1) /\ e = m + 2
                  \/ w[m].type = "NEXT" /\ Spans(w, "plain", m + 1, e)
  BY <1>3, PlainShapes
<1>5. m \in Nat /\ m + 2 = (m + 1) + 1
  <2>1. PICK x : Derives(w, "exp", p, m, x)
    BY <1>4 DEF Spans
  <2>2. QED
    BY <2>1, SpanBounds
<1>6. w[m].type \in Follow(g.at) /\ w[e].type \in Follow(f.at)
  BY <1>1, <1>4 DEF Follow
<1>7. After(w, g, p, m)
  BY <1>4 DEF After
<1>8. After(w, f, m, e)
  <2>1. CASE m = e
    BY <2>1 DEF After
  <2>2. CASE w[m].type = "PREC" /\ Spans(w, "rseq", m + 1, e)
    BY <2>2 DEF After
  <2>3. CASE w[m].type = "NEXT" /\ Arrives(w, "plain", m + 1, e)
    BY <2>3 DEF After
  <2>4. QED
    BY <1>4, <1>5, <2>1, <2>2, <2>3 DEF Arrives
<1>9. QED
  BY <1>1, <1>2, <1>5, <1>6, <1>7, <1>8, CompleteCall

(* After a NEXT a boundary or a plain sequence follows. *)
LEMMA GoesNext ==
  ASSUME NEW w, Word(w), NEW st, st # <<>>, NEW p, Complete(w, st, p), Head(st).at = "seq.exp", w[p].type = "NEXT",
         NEW g, g.at = "seq.next", <<g>> \o Tail(st) \in Seq(Frames)
  PROVE  Complete(w, <<g>> \o Tail(st), p + 1)
<1>1. PICK e \in Nat : /\ w[e].type \in Follow("seq.exp") /\ After(w, Head(st), p, e) /\ Complete(w, Tail(st), e)
  BY CompleteTop
<1>2. p \in Nat /\ Tail(st) \in Seq(Frames)
  BY CompleteTop
<1>3. Arrives(w, "plain", p + 1, e)
  BY <1>1 DEF After, Follow
<1> DEFINE q == p + 1
<1>4. q \in Nat /\ Arrives(w, "plain", q, e)
  BY <1>2, <1>3
<1> HIDE DEF q
<1>5. w[e].type \in Follow(g.at) /\ After(w, g, q, e)
  BY <1>1, <1>4 DEF After, Follow
<1>6. Complete(w, <<g>> \o Tail(st), q)
  BY <1>1, <1>2, <1>4, <1>5, CompletePush
<1>7. QED
  BY <1>6 DEF q

(* After a PREC a sequence follows. *)
LEMMA GoesPrec ==
  ASSUME NEW w, Word(w), NEW st, st # <<>>, NEW p, Complete(w, st, p), Head(st).at = "seq.exp", w[p].type = "PREC",
         NEW g, g.at = "rseq", NEW f, f.at = "prec", <<g, f>> \o Tail(st) \in Seq(Frames)
  PROVE  Complete(w, <<g, f>> \o Tail(st), p + 1)
<1>1. PICK e \in Nat : /\ w[e].type \in Follow("seq.exp") /\ After(w, Head(st), p, e) /\ Complete(w, Tail(st), e)
  BY CompleteTop
<1>2. p \in Nat /\ Tail(st) \in Seq(Frames)
  BY CompleteTop
<1>3. Spans(w, "rseq", p + 1, e)
  BY <1>1 DEF After, Follow
<1> DEFINE q == p + 1
<1>4. q \in Nat /\ Spans(w, "rseq", q, e)
  BY <1>2, <1>3
<1> HIDE DEF q
<1>5. w[e].type \in Follow(g.at) /\ After(w, g, q, e) /\ w[e].type \in Follow(f.at) /\ After(w, f, e, e)
  BY <1>1, <1>4 DEF After, Follow
<1>6. Complete(w, <<g, f>> \o Tail(st), q)
  BY <1>1, <1>2, <1>4, <1>5, CompleteCall
<1>7. QED
  BY <1>6 DEF q

(* A sequence ends where no arrow follows. *)
LEMMA GoesBack ==
  ASSUME NEW w, Word(w), NEW st, st # <<>>, NEW p, Complete(w, st, p),
         \/ Head(st).at = "seq.exp" /\ w[p].type \notin {"NEXT", "PREC"}
         \/ Head(st).at = "rseq.exp" /\ w[p].type # "PREC"
         \/ Head(st).at \in {"next", "prec", "sep"}
  PROVE  Complete(w, Tail(st), p)
<1>1. PICK e \in Nat : /\ After(w, Head(st), p, e) /\ Complete(w, Tail(st), e)
  BY CompleteTop
<1>2. e = p
  BY <1>1 DEF After
<1>3. QED
  BY <1>1, <1>2

(* A boundary after an arrow ends the sequence. *)
LEMMA GoesToBoundary ==
  ASSUME NEW w, Word(w), NEW st, st # <<>>, NEW p, Complete(w, st, p), Head(st).at \in {"seq.next", "rseq.prec"},
         w[p].type = "END"
  PROVE  Complete(w, Tail(st), p + 1)
<1>1. PICK e \in Nat : /\ After(w, Head(st), p, e) /\ Complete(w, Tail(st), e)
  BY CompleteTop
<1>2. "END" \notin Starts
  BY DEF Starts, Keys
<1>3. ~ Spans(w, "plain", p, e) /\ ~ Spans(w, "rseq", p, e)
  BY <1>2, StartsSeq
<1>4. e = p + 1
  BY <1>1, <1>3 DEF After, Arrives
<1>5. QED
  BY <1>1, <1>4

(* Without a boundary after it, the right operand of an arrow is read. *)
LEMMA GoesRight ==
  ASSUME NEW w, Word(w), NEW st, st # <<>>, NEW p, Complete(w, st, p), w[p].type # "END",
         NEW g, NEW f, <<g, f>> \o Tail(st) \in Seq(Frames),
         \/ Head(st).at = "seq.next" /\ g.at = "seq" /\ f.at = "next"
         \/ Head(st).at = "rseq.prec" /\ g.at = "rseq" /\ f.at = "prec"
  PROVE  Complete(w, <<g, f>> \o Tail(st), p)
<1>1. PICK e \in Nat : /\ w[e].type \in Follow(Head(st).at) /\ After(w, Head(st), p, e) /\ Complete(w, Tail(st), e)
  BY CompleteTop
<1>2. p \in Nat /\ Tail(st) \in Seq(Frames)
  BY CompleteTop
<1>3. /\ Head(st).at = "seq.next" => Spans(w, "plain", p, e)
      /\ Head(st).at = "rseq.prec" => Spans(w, "rseq", p, e)
  BY <1>1 DEF After, Arrives, BoundaryAt
<1>4. Spans(w, "plain", p, e) => Spans(w, "seq", p, e)
  BY PlainSpan DEF Spans
<1>5. After(w, g, p, e) /\ After(w, f, e, e)
  BY <1>3, <1>4 DEF After
<1>6. w[e].type \in Follow(g.at) /\ w[e].type \in Follow(f.at)
  BY <1>1 DEF Follow
<1>7. QED
  BY <1>1, <1>2, <1>5, <1>6, CompleteCall

(* constructAstRseq. *)
LEMMA GoesRseq ==
  ASSUME NEW w, Word(w), NEW st, st # <<>>, NEW p, Complete(w, st, p), Head(st).at = "rseq",
         NEW g, g.at = "exp", NEW f, f.at = "rseq.exp", <<g, f>> \o Tail(st) \in Seq(Frames)
  PROVE  Complete(w, <<g, f>> \o Tail(st), p)
<1>1. PICK e \in Nat : w[e].type \in Follow("rseq") /\ Spans(w, "rseq", p, e) /\ Complete(w, Tail(st), e)
  BY CompleteTop DEF After
<1>2. p \in Nat /\ Tail(st) \in Seq(Frames)
  BY CompleteTop
<1>4. PICK m : /\ Spans(w, "exp", p, m)
               /\ \/ m = e
                  \/ w[m].type = "PREC" /\ Spans(w, "rseq", m + 1, e)
                  \/ w[m].type = "PREC" /\ BoundaryAt(w, m + 1) /\ e = m + 2
  BY <1>1, RseqShapes
<1>5. m \in Nat /\ m + 2 = (m + 1) + 1
  <2>1. PICK x : Derives(w, "exp", p, m, x)
    BY <1>4 DEF Spans
  <2>2. QED
    BY <2>1, SpanBounds
<1>6. w[m].type \in Follow(g.at) /\ w[e].type \in Follow(f.at)
  BY <1>1, <1>4 DEF Follow
<1>7. After(w, g, p, m)
  BY <1>4 DEF After
<1>8. After(w, f, m, e)
  <2>1. CASE m = e
    BY <2>1 DEF After
  <2>2. CASE w[m].type = "PREC" /\ Arrives(w, "rseq", m + 1, e)
    BY <2>2 DEF After
  <2>3. QED
    BY <1>4, <1>5, <2>1, <2>2 DEF Arrives
<1>9. QED
  BY <1>1, <1>2, <1>5, <1>6, <1>7, <1>8, CompleteCall

(* After one more PREC a boundary or a sequence follows. *)
LEMMA GoesPrecAgain ==
  ASSUME NEW w, Word(w), NEW st, st # <<>>, NEW p, Complete(w, st, p), Head(st).at = "rseq.exp", w[p].type = "PREC",
         NEW g, g.at = "rseq.prec", <<g>> \o Tail(st) \in Seq(Frames)
  PROVE  Complete(w, <<g>> \o Tail(st), p + 1)
<1>1. PICK e \in Nat : /\ w[e].type \in Follow("rseq.exp") /\ After(w, Head(st), p, e) /\ Complete(w, Tail(st), e)
  BY CompleteTop
<1>2. p \in Nat /\ Tail(st) \in Seq(Frames)
  BY CompleteTop
<1>3. Arrives(w, "rseq", p + 1, e)
  BY <1>1 DEF After, Follow
<1> DEFINE q == p + 1
<1>4. q \in Nat /\ Arrives(w, "rseq", q, e)
  BY <1>2, <1>3
<1> HIDE DEF q
<1>5. w[e].type \in Follow(g.at) /\ After(w, g, q, e)
  BY <1>1, <1>4 DEF After, Follow
<1>6. Complete(w, <<g>> \o Tail(st), q)
  BY <1>1, <1>2, <1>4, <1>5, CompletePush
<1>7. QED
  BY <1>6 DEF q

(* constructAstDomain. *)
LEMMA GoesInside ==
  ASSUME NEW w, Word(w), NEW st, st # <<>>, NEW p, Complete(w, st, p), Head(st).at = "domain", w[p].type = "LPAREN",
         NEW g, g.at = "alternative", g.kept = <<>>, <<g>> \o Tail(st) \in Seq(Frames)
  PROVE  Complete(w, <<g>> \o Tail(st), p + 1)
<1>1. PICK e \in Nat : w[e].type \in Follow("domain") /\ Spans(w, "exp", p, e) /\ w[p].type \notin Keys /\ Complete(w, Tail(st), e)
  BY CompleteTop DEF After
<1>2. p \in Nat /\ Tail(st) \in Seq(Frames)
  BY CompleteTop
<1> DEFINE q == p + 1
<1>3. PICK m, x : GroupAt(w, p, m, x) /\ Quantifies(w, Len(x), m + 1, e)
  <2>1. "KEY" \in Keys
    BY DEF Keys
  <2>2. ASSUME NEW m, NEW x, GroupAt(w, p, m, x), e = m + 2, QuantifierAt(w, m + 1)
        PROVE  Quantifies(w, Len(x), m + 1, e)
    <3>1. m + 2 = (m + 1) + 1
      <4>1. m \in Nat
        BY <2>2, GroupReads
      <4>2. QED
        BY <4>1
    <3>2. QED
      BY <2>2, <3>1 DEF Quantifies
  <2>3. ASSUME NEW m, NEW x, GroupAt(w, p, m, x), e = m + 1, Len(x) > 1
        PROVE  Quantifies(w, Len(x), m + 1, e)
    BY <2>3 DEF Quantifies
  <2>4. QED
    BY <1>1, <2>1, <2>2, <2>3, ExpShapes
<1>4. q \in Nat /\ Derives(w, "list", q, m, x) /\ w[m].type = "RPAREN"
  BY <1>2, <1>3 DEF GroupAt
<1> HIDE DEF q
<1>5. Len(g.kept) + Len(x) = Len(x)
  <2>1. x \in Seq(SeqTrees)
    BY <1>4, SpanProper DEF Nonterminals
  <2>2. Len(x) \in Nat /\ Len(g.kept) = 0
    BY <2>1
  <2>3. QED
    BY <2>2
<1>6. Closes(w, Len(g.kept) + Len(x), m, e)
  BY <1>3, <1>4, <1>5 DEF Closes
<1>7. After(w, g, q, e)
  BY <1>4, <1>6 DEF After
<1>8. w[e].type \in Follow(g.at)
  BY <1>1 DEF Follow
<1>9. Complete(w, <<g>> \o Tail(st), q)
  BY <1>1, <1>2, <1>4, <1>7, <1>8, CompletePush
<1>10. QED
  BY <1>9 DEF q

(* The first branch ends at an ALT or at the parenthesis. *)
LEMMA GoesAlternative ==
  ASSUME NEW w, Word(w), NEW st, st # <<>>, NEW p, Complete(w, st, p), Head(st).at = "alternative",
         NEW g, g.at = "seq", NEW f, f.at = "domain.more", f.kept = Head(st).kept, <<g, f>> \o Tail(st) \in Seq(Frames)
  PROVE  Complete(w, <<g, f>> \o Tail(st), p)
<1> DEFINE n == Len(Head(st).kept)
<1>1. PICK e \in Nat : /\ w[e].type \in Follow("alternative") /\ After(w, Head(st), p, e) /\ Complete(w, Tail(st), e)
  BY CompleteTop
<1>2. p \in Nat /\ Tail(st) \in Seq(Frames) /\ Head(st) \in Frames
  BY CompleteTop
<1>3. n \in Nat
  BY <1>2, FrameIs
<1>4. PICK m, x : Derives(w, "list", p, m, x) /\ Closes(w, n + Len(x), m, e)
  BY <1>1 DEF After
<1>5. x \in Seq(SeqTrees)
  BY <1>4, SpanProper DEF Nonterminals
<1>6. Leads(w, p, m, x)
  BY <1>4, FirstBranch
<1> HIDE DEF n
<1>7. PICK q \in Nat : /\ Spans(w, "seq", p, q)
                       /\ w[q].type \in {"ALT", "RPAREN"}
                       /\ \/ Closes(w, n + 1, q, e)
                          \/ w[q].type = "ALT" /\ \E y : Derives(w, "list", q + 1, m, y) /\ Closes(w, n + 1 + Len(y), m, e)
  <2>1. CASE Spans(w, "seq", p, m) /\ Len(x) = 1
    <3>1. m \in Nat
      BY <1>4, SpanBounds
    <3>2. w[m].type = "RPAREN" /\ Closes(w, n + 1, m, e)
      BY <1>4, <2>1 DEF Closes
    <3>3. QED
      BY <2>1, <3>1, <3>2
  <2>2. ASSUME NEW q, NEW y, Spans(w, "seq", p, q), w[q].type = "ALT", Derives(w, "list", q + 1, m, y), Len(x) = Len(y) + 1
        PROVE  q \in Nat /\ Closes(w, n + 1 + Len(y), m, e)
    <3>1. y \in Seq(SeqTrees)
      BY <2>2, SpanProper DEF Nonterminals
    <3>2. Len(y) \in Nat
      BY <3>1
    <3>3. n + Len(x) = n + 1 + Len(y)
      BY <1>3, <2>2, <3>2
    <3>4. PICK u : Derives(w, "seq", p, q, u)
      BY <2>2 DEF Spans
    <3>5. q \in Nat
      BY <3>4, SpanBounds
    <3>6. QED
      BY <1>4, <3>3, <3>5
  <2>3. QED
    BY <1>6, <2>1, <2>2 DEF Leads
<1>8. After(w, g, p, q) /\ w[q].type \in Follow(g.at) /\ w[e].type \in Follow(f.at)
  BY <1>1, <1>7 DEF After, Follow
<1>9. After(w, f, q, e)
  BY <1>7 DEF After, n
<1>10. QED
  BY <1>1, <1>2, <1>7, <1>8, <1>9, CompleteCall

(* At an ALT another branch follows, at a parenthesis the group ends. *)
LEMMA GoesMore ==
  ASSUME NEW w, Word(w), NEW st, st # <<>>, NEW p, Complete(w, st, p), Head(st).at = "domain.more",
         NEW tree, NEW g, g.kept = Append(Head(st).kept, tree), <<g>> \o Tail(st) \in Seq(Frames),
         \/ w[p].type = "ALT" /\ g.at = "alternative"
         \/ w[p].type = "RPAREN" /\ g.at = "domain.quantifier"
  PROVE  Complete(w, <<g>> \o Tail(st), p + 1)
<1> DEFINE n == Len(Head(st).kept)
           q == p + 1
<1>1. PICK e \in Nat : /\ w[e].type \in Follow("domain.more") /\ After(w, Head(st), p, e) /\ Complete(w, Tail(st), e)
  BY CompleteTop
<1>2. p \in Nat /\ Tail(st) \in Seq(Frames) /\ Head(st) \in Frames
  BY CompleteTop
<1>3. g \in Frames
  BY <1>2, Pushed
<1>4. n \in Nat /\ Len(g.kept) = n + 1
  <2>1. Head(st).kept \in Seq(Trees) /\ g.kept \in Seq(Trees)
    BY <1>2, <1>3, FrameIs
  <2> DEFINE kept == Head(st).kept
  <2>2. kept \in Seq(Trees \cup {tree})
    BY <2>1
  <2>3. Len(Append(kept, tree)) = Len(kept) + 1
    BY <2>2, AppendProperties
  <2>4. QED
    BY <2>1, <2>3
<1>5. /\ w[p].type = "ALT" => \E m, x : Derives(w, "list", q, m, x) /\ Closes(w, n + 1 + Len(x), m, e)
      /\ w[p].type = "RPAREN" => Quantifies(w, n + 1, q, e)
  BY <1>1 DEF After, Closes
<1>6. q \in Nat
  BY <1>2
<1> HIDE DEF n, q
<1>7. After(w, g, q, e)
  BY <1>4, <1>5 DEF After
<1>8. w[e].type \in Follow(g.at)
  BY <1>1 DEF Follow
<1>9. Complete(w, <<g>> \o Tail(st), q)
  BY <1>1, <1>2, <1>6, <1>7, <1>8, CompletePush
<1>10. QED
  BY <1>9 DEF q

(* A group without alternatives has a quantifier. *)
LEMMA GoesOut ==
  ASSUME NEW w, Word(w), NEW st, st # <<>>, NEW p, Complete(w, st, p), Head(st).at = "domain.quantifier"
  PROVE  /\ w[p].type \in DOMAIN Symbol => Complete(w, Tail(st), p + 1)
         /\ w[p].type \notin DOMAIN Symbol => Len(Head(st).kept) > 1 /\ Complete(w, Tail(st), p)
<1>1. PICK e \in Nat : /\ w[e].type \in Follow("domain.quantifier") /\ Quantifies(w, Len(Head(st).kept), p, e)
                       /\ Complete(w, Tail(st), e)
  BY CompleteTop DEF After
<1>2. e = p => w[p].type \notin DOMAIN Symbol
  BY <1>1, QuantifierTypes DEF Follow
<1>3. QED
  BY <1>1, <1>2 DEF Quantifies, QuantifierAt

(* constructAstAllExpr. *)
LEMMA GoesPaths ==
  ASSUME NEW w, Word(w), NEW st, st # <<>>, NEW p, Complete(w, st, p), Head(st).at = "allExpr",
         NEW g, g.at = "seq", NEW f, f.at = "allExpr.path", <<g, f>> \o Tail(st) \in Seq(Frames)
  PROVE  Complete(w, <<g, f>> \o Tail(st), p)
<1>1. PICK e \in Nat : w[e].type \in Follow("allExpr") /\ Spans(w, "query", p, e) /\ Complete(w, Tail(st), e)
  BY CompleteTop DEF After
<1>2. p \in Nat /\ Tail(st) \in Seq(Frames)
  BY CompleteTop
<1>3. PICK m : /\ Spans(w, "seq", p, m)
               /\ \/ m = e
                  \/ w[m].type = "SEP" /\ Spans(w, "query", m + 1, e)
                  \/ w[m].type = "SEP" /\ e = m + 1
  BY <1>1, QueryShapes
<1>4. m \in Nat
  <2>1. PICK x : Derives(w, "seq", p, m, x)
    BY <1>3 DEF Spans
  <2>2. QED
    BY <2>1, SpanBounds
<1>5. w[m].type \in Follow(g.at) /\ w[e].type \in Follow(f.at)
  BY <1>1, <1>3 DEF Follow
<1>6. After(w, g, p, m) /\ After(w, f, m, e)
  BY <1>3 DEF After
<1>7. QED
  BY <1>1, <1>2, <1>4, <1>5, <1>6, CompleteCall

(* A path ends at the end of the text or at a SEP, ... *)
LEMMA GoesPath ==
  ASSUME NEW w, Word(w), NEW st, st # <<>>, NEW p, Complete(w, st, p), Head(st).at = "allExpr.path"
  PROVE  /\ w[p].type = "STOP" => Complete(w, Tail(st), p)
         /\ \A g : w[p].type = "SEP" /\ g.at = "allExpr.more" /\ <<g>> \o Tail(st) \in Seq(Frames)
                     => Complete(w, <<g>> \o Tail(st), p + 1)
<1>1. PICK e \in Nat : /\ w[e].type \in Follow("allExpr.path") /\ After(w, Head(st), p, e) /\ Complete(w, Tail(st), e)
  BY CompleteTop
<1>2. p \in Nat /\ Tail(st) \in Seq(Frames)
  BY CompleteTop
<1>3. w[p].type = "STOP" => e = p
  BY <1>1 DEF After
<1>4. ASSUME NEW g, w[p].type = "SEP", g.at = "allExpr.more", <<g>> \o Tail(st) \in Seq(Frames)
      PROVE  Complete(w, <<g>> \o Tail(st), p + 1)
  <2> DEFINE q == p + 1
  <2>1. q \in Nat /\ (e = q \/ Spans(w, "query", q, e))
    BY <1>1, <1>2, <1>4 DEF After, Follow
  <2> HIDE DEF q
  <2>2. After(w, g, q, e) /\ w[e].type \in Follow(g.at)
    BY <1>1, <1>4, <2>1 DEF After, Follow
  <2>3. Complete(w, <<g>> \o Tail(st), q)
    BY <1>1, <1>2, <1>4, <2>1, <2>2, CompletePush
  <2>4. QED
    BY <2>3 DEF q
<1>5. QED
  BY <1>1, <1>3, <1>4

(* ... behind which the text ends or more paths follow. *)
LEMMA GoesMorePaths ==
  ASSUME NEW w, Word(w), NEW st, st # <<>>, NEW p, Complete(w, st, p), Head(st).at = "allExpr.more"
  PROVE  /\ w[p].type = "STOP" => Complete(w, Tail(st), p)
         /\ \A g, f : w[p].type # "STOP" /\ g.at = "allExpr" /\ f.at = "sep" /\ <<g, f>> \o Tail(st) \in Seq(Frames)
                        => Complete(w, <<g, f>> \o Tail(st), p)
<1>1. PICK e \in Nat : /\ w[e].type \in Follow("allExpr.more") /\ After(w, Head(st), p, e) /\ Complete(w, Tail(st), e)
  BY CompleteTop
<1>2. p \in Nat /\ Tail(st) \in Seq(Frames)
  BY CompleteTop
<1>3. e = p \/ Spans(w, "query", p, e)
  BY <1>1 DEF After
<1>4. Spans(w, "query", p, e) => w[p].type # "STOP"
  BY StartsSeq DEF Starts, Keys
<1>5. w[e].type = "STOP"
  BY <1>1 DEF Follow
<1>6. ASSUME NEW g, NEW f, w[p].type # "STOP", g.at = "allExpr", f.at = "sep", <<g, f>> \o Tail(st) \in Seq(Frames)
      PROVE  Complete(w, <<g, f>> \o Tail(st), p)
  <2>1. Spans(w, "query", p, e)
    BY <1>3, <1>5, <1>6
  <2>2. After(w, g, p, e) /\ After(w, f, e, e) /\ w[e].type \in Follow(g.at) /\ w[e].type \in Follow(f.at)
    BY <1>5, <1>6, <2>1 DEF After, Follow
  <2>3. QED
    BY <1>1, <1>2, <1>6, <2>2, CompleteCall
<1>7. QED
  BY <1>1, <1>3, <1>4, <1>6

(* Where parse fails, nothing completes the text. *)
LEMMA NeverFails ==
  ASSUME NEW w, Word(w), NEW st, st # <<>>, NEW p, Complete(w, st, p)
  PROVE  /\ Head(st).at = "seq.boundary" => w[p].type = "PREC"
         /\ Head(st).at = "domain" => w[p].type = "LPAREN"
         /\ Head(st).at = "alternative" => w[p].type \notin {"ALT", "RPAREN", "STOP"}
         /\ Head(st).at = "domain.more" => w[p].type \in {"ALT", "RPAREN"}
         /\ Head(st).at = "domain.quantifier" => w[p].type \in DOMAIN Symbol \/ Len(Head(st).kept) > 1
         /\ Head(st).at = "allExpr.path" => w[p].type \in {"SEP", "STOP"}
<1>1. PICK e \in Nat : /\ w[e].type \in Follow(Head(st).at) /\ After(w, Head(st), p, e)
  BY CompleteTop
<1>2. Head(st).at = "seq.boundary" => w[p].type = "PREC"
  BY <1>1 DEF After
<1>3. ASSUME Head(st).at = "domain" PROVE w[p].type = "LPAREN"
  <2>1. Spans(w, "exp", p, e) /\ w[p].type \notin Keys
    BY <1>1, <1>3 DEF After
  <2>2. QED
    BY <2>1, StartsExp DEF Starts
<1>4. ASSUME Head(st).at = "alternative" PROVE w[p].type \notin {"ALT", "RPAREN", "STOP"}
  <2>1. PICK m, x : Derives(w, "list", p, m, x)
    BY <1>1, <1>4 DEF After
  <2>2. w[p].type \in Starts \cup {"END"}
    BY <2>1, StartsSeq
  <2>3. QED
    BY <2>2 DEF Starts, Keys
<1>5. Head(st).at = "domain.more" => w[p].type \in {"ALT", "RPAREN"}
  BY <1>1 DEF After, Closes
<1>6. Head(st).at = "domain.quantifier" => w[p].type \in DOMAIN Symbol \/ Len(Head(st).kept) > 1
  BY GoesOut
<1>7. Head(st).at = "allExpr.path" => w[p].type \in {"SEP", "STOP"}
  BY <1>1 DEF After, Follow
<1>8. QED
  BY <1>2, <1>3, <1>4, <1>5, <1>6, <1>7

(* A sentence is its text and its tree. *)
Built(s) == s = Sentence(s.text, s.tree)

(* What the productions build is a sentence of a text and a tree. *)
LEMMA Builds ==
  /\ \A words, tree : Built(Sentence(words, tree))
  /\ \A l : Built(InParentheses(l))
  /\ \A l, q : Built(Quantified(l, q))
  /\ \A l, t, r : Built(Chained(l, t, r))
<1>1. \A words, tree : Built(Sentence(words, tree))
  BY DEF Built, Sentence
<1>2. QED
  BY <1>1 DEF InParentheses, Quantified, Chained

(* Every query is. *)
LEMMA QueryBuilt ==
  ASSUME NEW n \in 1 .. MaxLength, NEW s \in Grammar[n].query
  PROVE  Built(s)
<1>1. ASSUME NEW type, NEW lefts, NEW rights, NEW t \in Links(type, lefts, rights) PROVE Built(t)
  <2>1. PICK l \in lefts, u \in TokensOf({type}), r \in rights : t = Chained(l, u, r)
    BY <1>1, LinkCases
  <2>2. QED
    BY <2>1, Builds
<1>2. ASSUME NEW k \in 1 .. MaxLength, NEW t \in Grammar[k].exp PROVE Built(t)
  <2>1. \/ \E words, tree : t = Sentence(words, tree)
        \/ \E l, q : t = Quantified(l, q)
        \/ \E l : t = InParentheses(l)
    <3>1. \/ k = 1 /\ \E x \in TokensOf(Keys) : t = Sentence(<<x>>, x.content)
          \/ k = 2 /\ \E x \in TokensOf({"KEY"}), q \in QuantifierTokens : t = Quantified(Sentence(<<x>>, x.content), q)
          \/ k > 3 /\ \E l \in Grammar[k - 3].list, q \in QuantifierTokens : t = Quantified(InParentheses(l), q)
          \/ k > 2 /\ \E l \in Grammar[k - 2].list : Len(l.tree) > 1 /\ t = InParentheses(l)
      BY <1>2, ExpCases
    <3>2. QED
      BY <3>1
  <2>2. ASSUME NEW words, NEW tree, t = Sentence(words, tree) PROVE Built(t)
    BY <2>2, Builds
  <2>3. ASSUME NEW l, NEW q, t = Quantified(l, q) PROVE Built(t)
    BY <2>3, Builds
  <2>4. ASSUME NEW l, t = InParentheses(l) PROVE Built(t)
    BY <2>4, Builds
  <2>5. QED
    BY <2>1, <2>2, <2>3, <2>4
<1>3. ASSUME NEW k \in 1 .. MaxLength, NEW t \in Grammar[k].plain PROVE Built(t)
  BY <1>1, <1>2, <1>3, PlainCases
<1>4. ASSUME NEW k \in 1 .. MaxLength, NEW t \in Grammar[k].seq PROVE Built(t)
  BY <1>1, <1>3, <1>4, SeqCases
<1>5. QED
  BY <1>4, QueryCases, Builds

(* The language is the queries of all levels. *)
LEMMA LanguageIs == \A s : s \in Language <=> \E n \in 1 .. MaxLength : s \in Grammar[n].query
  BY DEF Language, QueriesOf

(* A sentence and its end. *)
Full(w) == \E s \in Language : w = Append(s.text, Stop)

(* A sentence and its end are a word, and the sentence spans it up to the   *)
(* end.                                                                     *)
LEMMA FullWord ==
  ASSUME NEW w, Full(w)
  PROVE  /\ Word(w) /\ Len(w) \in Nat \ {0, 1} /\ w[Len(w)] = Stop
         /\ \A i \in 1 .. Len(w) - 1 : w[i] \in Letters
         /\ Spans(w, "query", 1, Len(w))
<1>1. PICK s \in Language : w = Append(s.text, Stop)
  BY DEF Full
<1>2. PICK n \in 1 .. MaxLength : s \in Grammar[n].query
  BY <1>1, LanguageIs
<1>3. s.text \in Seq(Letters) /\ Len(s.text) = n
  BY <1>2, LevelProper DEF AllProper, Nonterminals
<1>4. n \in Nat \ {0} /\ MaxLength \in Nat /\ n <= MaxLength
  BY LengthBound
<1> DEFINE u == s.text
<1>5. u \in Seq(Alphabet) /\ Stop \in Alphabet /\ Len(u) = n /\ \A i \in 1 .. n : u[i] \in Letters
  <2>1. Stop \in Alphabet /\ Letters \subseteq Alphabet
    BY DEF Letters, Alphabet
  <2>2. u \in Seq(Alphabet) /\ Len(u) = n
    BY <1>3 DEF Letters
  <2>3. \A i \in 1 .. n : u[i] \in Letters
    BY <1>3
  <2>4. QED
    BY <2>1, <2>2, <2>3
<1>6. w \in Seq(Alphabet) /\ Len(w) = n + 1 /\ w[n + 1] = Stop /\ \A i \in 1 .. n : w[i] = u[i]
  <2> HIDE DEF u
  <2>1. w = Append(u, Stop)
    BY <1>1 DEF u
  <2>2. QED
    BY <1>5, <2>1, AppendProperties
<1> HIDE DEF u
<1>7. Word(w)
  BY <1>4, <1>6 DEF Word
<1>8. (n + 1) - 1 = n /\ n + 1 \in Nat \ {0, 1} /\ 1 \in 1 .. n + 1 /\ n + 1 \in 1 .. n + 1 /\ 1 < n + 1
  BY <1>4
<1>9. Spans(w, "query", 1, Len(w))
  <2> DEFINE a == 1
             b == Len(w)
  <2>1. a \in 1 .. Len(w) /\ b \in 1 .. Len(w) /\ a < b /\ s \in Grammar[b - a]["query"]
    BY <1>2, <1>6, <1>8
  <2>2. Reads(w, a, s.text)
    <3>1. \A k \in 1 .. n : a - 1 + k = k
      BY <1>4
    <3>2. QED
      BY <1>5, <1>6, <3>1 DEF Reads, u
  <2> HIDE DEF a, b
  <2>3. Derives(w, "query", a, b, s.tree)
    BY <1>7, <2>1, <2>2, SpanOf DEF Nonterminals
  <2>4. QED
    BY <2>3 DEF Spans, a, b
<1>10. QED
  BY <1>5, <1>6, <1>7, <1>8, <1>9

(* The start and the end of parse. *)
LEMMA StartFine ==
  ASSUME NEW w, NEW v
  PROVE  Fine(w, <<Call("allExpr")>>, 1, v)
<1> DEFINE f == Call("allExpr")
           p == 1
           rest == <<>>
<1>1. /\ f \in Frames /\ Before(w, f, p, p) /\ Awaits(f) = "none" /\ Computes(f) = {"query"}
  BY BeginsHere
<1>2. p \in Nat \ {0} /\ rest \in Seq(Frames)
  OBVIOUS
<1>3. Began(w, rest, Cut(p, "query"))
  <2>1. Cut(p, "query") \in Cuts
    BY <1>2, CutOf DEF Nonterminals
  <2>2. QED
    BY <2>1, ReachesNothing DEF Began
<1>4. <<f>> \o rest = <<f>>
  <2> DEFINE one == <<f>>
  <2>1. one \in Seq(Frames)
    BY <1>1
  <2> HIDE DEF one
  <2>2. one \o <<>> = one
    BY <2>1, ConcatEmptySeq
  <2>3. QED
    BY <2>2 DEF one
<1> HIDE DEF f, p, rest
<1>5. Fine(w, <<f>> \o rest, p, v)
  BY <1>1, <1>2, <1>3, FineStay
<1>6. QED
  BY <1>4, <1>5 DEF f, p

(* ... at the end a query has been read, up to the end of the text, ... *)
LEMMA EndFine ==
  ASSUME NEW w, NEW p, NEW v, Fine(w, <<>>, p, v)
  PROVE  Derives(w, "query", 1, p, v) /\ w[p].type = "STOP"
<1>1. PICK x \in Cuts : Began(w, <<>>, x) /\ IF x.nt = "none" THEN x.at = p ELSE Given(w, x.nt, x.at, p, v)
  BY DEF Fine, Sound
<1>2. x = Cut(1, "query")
  BY <1>1, ReachesNothing DEF Began
<1>3. x.nt = "query" /\ x.at = 1
  BY <1>2 DEF Cut
<1>4. QED
  BY <1>1, <1>3 DEF Given

(* ... and at the start a sentence completes the text. *)
LEMMA StartComplete ==
  ASSUME NEW w, Full(w)
  PROVE  Complete(w, <<Call("allExpr")>>, 1)
<1> DEFINE f == Call("allExpr")
           p == 1
           e == Len(w)
           rest == <<>>
<1>1. p \in Nat /\ e \in Nat /\ rest \in Seq(Frames) /\ f \in Frames /\ f.at = "allExpr"
  BY FullWord, BeginsHere, FrameAt
<1>2. w[e].type = "STOP" /\ Spans(w, "query", p, e)
  <2>1. w[Len(w)] = Stop /\ Spans(w, "query", 1, Len(w))
    BY FullWord
  <2>2. Stop.type = "STOP"
    BY TokenType DEF Stop
  <2>3. QED
    BY <2>1, <2>2
<1>3. Complete(w, rest, e)
  <2>1. Reaches(Todo(w), Nat, <<>>, e, e)
    BY <1>1, ReachesNothing
  <2>2. QED
    BY <1>1, <2>1 DEF Complete
<1>4. <<f>> \o rest = <<f>>
  <2> DEFINE one == <<f>>
  <2>1. one \in Seq(Frames)
    BY <1>1
  <2> HIDE DEF one
  <2>2. one \o <<>> = one
    BY <2>1, ConcatEmptySeq
  <2>3. QED
    BY <2>2 DEF one
<1> HIDE DEF f, p, e, rest
<1>5. w[e].type \in Follow(f.at) /\ After(w, f, p, e)
  BY <1>1, <1>2 DEF After, Follow
<1>6. <<f>> \o rest \in Seq(Frames)
  BY <1>1, <1>4
<1>7. Complete(w, <<f>> \o rest, p)
  BY <1>1, <1>3, <1>5, <1>6, CompletePush
<1>8. QED
  BY <1>4, <1>7 DEF f, p

(* What parse returns. *)
LEMMA ResultIs ==
  ASSUME NEW w, Word(w), NEW tree, Derives(w, "query", 1, Len(w), tree)
  PROVE  Sentence(Front(w), tree) \in Language
<1> DEFINE a == 1
           b == Len(w)
<1>1. PICK n \in 1 .. MaxLength :
        /\ n = b - a /\ b = a + n
        /\ \E s \in Grammar[n]["query"] : s.text \in Seq(Letters) /\ Len(s.text) = n /\ s.tree = tree /\ Reads(w, a, s.text)
  <2>1. Derives(w, "query", a, b, tree)
    OBVIOUS
  <2> HIDE DEF a, b
  <2>2. QED
    BY <2>1, SpanSentence DEF Nonterminals
<1>2. PICK s \in Grammar[n].query : s.text \in Seq(Letters) /\ Len(s.text) = n /\ s.tree = tree /\ Reads(w, a, s.text)
  BY <1>1
<1>3. w \in Seq(Alphabet) /\ n \in Nat \ {0} /\ Len(w) = n + 1
  BY <1>1, LengthBound DEF Word
<1>4. Front(w) = s.text
  <2> DEFINE u == s.text
             v == SubSeq(w, 1, n)
  <2>1. v \in Seq(Alphabet) /\ Len(v) = n /\ \A i \in 1 .. n : v[i] = w[i]
    BY <1>3
  <2>2. u \in Seq(Alphabet) /\ Len(u) = n /\ \A i \in 1 .. n : w[1 - 1 + i] = u[i]
    BY <1>2 DEF Reads, Letters
  <2>3. \A i \in 1 .. n : 1 - 1 + i = i
    OBVIOUS
  <2> HIDE DEF u, v
  <2>4. u = v
    BY <1>3, <2>1, <2>2, <2>3, SeqEqual
  <2>5. Front(w) = v
    <3>1. Len(w) - 1 = n
      BY <1>3
    <3>2. QED
      BY <3>1 DEF Front, v
  <2>6. QED
    BY <2>4, <2>5 DEF u
<1>5. s \in Language /\ Built(s)
  BY <1>2, LanguageIs, QueryBuilt
<1>6. QED
  BY <1>2, <1>4, <1>5 DEF Built

-----------------------------------------------------------------------------
(* The state of the parser.  The text: tokens of the lexer, and at most one  *)
(* STOP, at its end.  w is a word that begins with the text.                 *)
TextInv ==
  /\ text \in Seq(Tokens \cup {Stop}) /\ Len(text) \in 1 .. MaxLength + 1
  /\ \A i \in 1 .. Len(text) - 1 : text[i] \in Tokens
  /\ Len(text) = MaxLength + 1 => text[Len(text)] = Stop

Extends(w) == Word(w) /\ Len(text) <= Len(w) /\ \A i \in 1 .. Len(text) : w[i] = text[i]

(* What has been read: Fine for every word that begins with the text. *)
ReadingInv ==
  outcome \in {"parsing", "error"} =>
    /\ position \in 1 .. Len(text)
    /\ \A w : Extends(w) => Fine(w, stack, position, value)

(* A sentence that begins with the text can still be read to its end. *)
ViableInv ==
  \A w : Full(w) /\ Extends(w) =>
    /\ outcome # "error"
    /\ outcome = "parsing" => Complete(w, stack, position)

Parsed(w) == {r \in [outcome : {"parsed", "refused"}, tree : {s.tree : s \in Language}] :
                Sentence(Front(w), r.tree) \in Language}

(* The calls of parse that ended, and when they did. *)
ResultsInv ==
  /\ outcome \in {"parsing", "error", "parsed", "refused"}
  /\ outcome \in {"parsed", "refused"} => stack = <<>> /\ position = 1 /\ results # <<>>
  /\ results \in Seq(Parsed(text)) /\ Len(results) <= MaxParses
  /\ outcome = "parsing" => Len(results) < MaxParses
  /\ results # <<>> => text[Len(text)] = Stop

ParserInv == TextInv /\ ReadingInv /\ ViableInv /\ ResultsInv

(* STOP is no token of the lexer. *)
LEMMA StopIs == Stop.type = "STOP" /\ Stop \notin Tokens /\ \A t \in Tokens : t.type # "STOP"
<1>1. \A t \in Tokens : t.type # "STOP"
  BY TokensAssumption DEF Keys, Marks
<1>2. Stop.type = "STOP"
  BY TokenType DEF Stop
<1>3. QED
  BY <1>1, <1>2

(* What was asked for so far is a word. *)
LEMMA TextBounds ==
  ASSUME TextInv
  PROVE  /\ Len(text) \in Nat \ {0} /\ MaxLength \in Nat \ {0} /\ Len(text) <= MaxLength + 1
         /\ text \in Seq(Alphabet) /\ Extends(text)
<1>1. Len(text) \in Nat \ {0} /\ MaxLength \in Nat \ {0} /\ Len(text) <= MaxLength + 1
  BY LengthBound DEF TextInv
<1>2. text \in Seq(Alphabet)
  <2>1. Tokens \cup {Stop} \subseteq Alphabet
    BY DEF Alphabet
  <2>2. text \in Seq(Tokens \cup {Stop})
    BY DEF TextInv
  <2>3. QED
    BY <2>1, <2>2
<1>3. QED
  BY <1>1, <1>2 DEF Extends, Word

(* getNextToken. *)
LEMMA ReadsOn ==
  ASSUME TextInv, position \in 1 .. Len(text), current.type # "STOP", ReadToken
  PROVE  /\ TextInv' /\ position' = position + 1 /\ position + 1 \in 1 .. Len(text')
         /\ text[Len(text)] = Stop => text' = text
         /\ \A w : Extends(w)' => Extends(w) /\ Word(w) /\ position + 1 \in 1 .. Len(w)
         /\ outcome' = outcome \/ (outcome' = "error" /\ text'[position + 1].type = "BAD")
<1>1. PICK token \in Following :
        /\ text' = IF position < Len(text) THEN text ELSE Append(text, token)
        /\ position' = position + 1
        /\ outcome' = IF token.type = "BAD" THEN "error" ELSE outcome
  BY DEF ReadToken
<1>2. /\ Len(text) \in Nat \ {0} /\ MaxLength \in Nat \ {0} /\ Len(text) <= MaxLength + 1 /\ position \in Nat \ {0}
      /\ position <= Len(text)
  BY TextBounds
<1>3. CASE position < Len(text)
  <2>1. text' = text /\ position + 1 \in 1 .. Len(text) /\ position' = position + 1
    BY <1>1, <1>2, <1>3
  <2>2. token = text[position + 1]
    BY <1>3 DEF Following
  <2>3. TextInv'
    BY <2>1 DEF TextInv
  <2>4. \A w : Extends(w)' => Extends(w) /\ Word(w) /\ position + 1 \in 1 .. Len(w)
    <3>1. \A w : Extends(w)' => Extends(w)
      BY <2>1 DEF Extends
    <3>2. ASSUME NEW w, Extends(w) PROVE Word(w) /\ position + 1 \in 1 .. Len(w)
      <4>1. Word(w) /\ Len(text) <= Len(w)
        BY <3>2 DEF Extends
      <4>2. Len(w) \in Nat
        BY <4>1, WordLength
      <4>3. QED
        BY <1>2, <1>3, <4>1, <4>2
    <3>3. QED
      BY <3>1, <3>2
  <2>5. QED
    BY <1>1, <2>1, <2>2, <2>3, <2>4
<1>4. CASE ~ (position < Len(text))
  <2>1. position = Len(text) /\ text' = Append(text, token)
    BY <1>1, <1>2, <1>4
  <2> DEFINE n == Len(text)
  <2>2. text[n] # Stop
    BY <2>1, StopIs DEF current
  <2>3. n # MaxLength + 1 /\ n \in Nat \ {0} /\ n <= MaxLength
    BY <1>2, <2>2 DEF TextInv
  <2>4. token \in Tokens \cup {Stop} /\ (n = MaxLength => token = Stop)
    <3>1. CASE n < MaxLength
      <4>1. Following = Tokens \cup {Stop}
        BY <1>2, <2>1, <3>1 DEF Following
      <4>2. QED
        BY <1>2, <3>1, <4>1
    <3>2. CASE ~ (n < MaxLength)
      BY <1>2, <2>1, <2>3, <3>2 DEF Following
    <3>3. QED
      BY <3>1, <3>2
  <2>5. text[n] \in Tokens
    <3>1. text[n] \in Tokens \cup {Stop}
      BY <1>2 DEF TextInv
    <3>2. QED
      BY <2>2, <3>1
  <2>6. /\ text' \in Seq(Tokens \cup {Stop}) /\ Len(text') = n + 1 /\ text'[n + 1] = token
        /\ \A i \in 1 .. n : text'[i] = text[i]
    <3>1. text \in Seq(Tokens \cup {Stop})
      BY DEF TextInv
    <3>2. QED
      BY <2>1, <2>4, <3>1, AppendProperties
  <2>7. \A i \in 1 .. n : text[i] \in Tokens
    <3>1. \A i \in 1 .. n : i = n \/ i \in 1 .. n - 1
      BY <1>2
    <3>2. QED
      BY <2>5, <3>1 DEF TextInv
  <2> HIDE DEF n
  <2>8. TextInv'
    <3>1. Len(text') \in 1 .. MaxLength + 1 /\ (n + 1) - 1 = n
      BY <1>2, <2>3, <2>6
    <3>2. \A i \in 1 .. Len(text') - 1 : text'[i] \in Tokens
      BY <2>6, <2>7, <3>1
    <3>3. Len(text') = MaxLength + 1 => text'[Len(text')] = Stop
      BY <1>2, <2>3, <2>4, <2>6
    <3>4. QED
      BY <2>6, <3>1, <3>2, <3>3 DEF TextInv
  <2>9. ASSUME NEW w, Extends(w)' PROVE Extends(w) /\ Word(w) /\ position + 1 \in 1 .. Len(w)
    <3>1. Word(w) /\ Len(text') <= Len(w) /\ \A i \in 1 .. Len(text') : w[i] = text'[i]
      BY <2>9 DEF Extends
    <3>2. Len(w) \in Nat /\ n + 1 <= Len(w)
      BY <2>6, <3>1, WordLength
    <3>3. \A i \in 1 .. n : i \in 1 .. n + 1
      BY <2>3
    <3>4. \A i \in 1 .. n : w[i] = text[i]
      BY <2>6, <3>1, <3>3
    <3>5. n <= Len(w)
      BY <2>3, <3>2
    <3>6. QED
      BY <2>1, <2>3, <3>1, <3>2, <3>4, <3>5 DEF Extends, n
  <2>10. position' = position + 1 /\ position + 1 \in 1 .. Len(text')
    BY <1>1, <1>2, <2>1, <2>6 DEF n
  <2>11. text'[position + 1] = token
    BY <2>1, <2>6 DEF n
  <2>12. QED
    BY <1>1, <2>2, <2>8, <2>9, <2>10, <2>11 DEF n
<1>5. QED
  BY <1>3, <1>4

(* No sentence has a BAD token. *)
LEMMA NoBadToken ==
  ASSUME NEW w, Full(w), NEW i \in 1 .. Len(w)
  PROVE  w[i].type # "BAD"
<1>1. /\ Len(w) \in Nat \ {0, 1} /\ w[Len(w)] = Stop
      /\ \A k \in 1 .. Len(w) - 1 : w[k] \in Letters
  BY FullWord
<1>2. i \in 1 .. Len(w) - 1 \/ i = Len(w)
  BY <1>1
<1>3. QED
  BY <1>1, <1>2, StopIs DEF Letters

(* The steps of parse: it stays at the token, goes on to the next, or fails. *)
Correct(p) ==
  \A w : Extends(w) /\ InWord(w, p) =>
    /\ Fine(w, stack', p, value')
    /\ Full(w) => Complete(w, stack', p)
Stays == UNCHANGED <<text, position, outcome, results>> /\ Correct(position)
Goes  == ReadToken /\ current.type # "STOP" /\ UNCHANGED results /\ Correct(position + 1)
Stops == Fail /\ \A w : ~ (Extends(w) /\ Full(w))

(* What the invariant says at the current token. *)
LEMMA NowIs ==
  ASSUME ParserInv, outcome = "parsing", NEW w, Extends(w)
  PROVE  /\ Word(w) /\ InWord(w, position) /\ w[position] = current /\ Fine(w, stack, position, value)
         /\ Full(w) => Complete(w, stack, position)
<1>1. position \in 1 .. Len(text) /\ Fine(w, stack, position, value)
  BY DEF ParserInv, ReadingInv
<1>2. Word(w) /\ Len(text) <= Len(w) /\ w[position] = text[position] /\ TextInv
  BY <1>1 DEF Extends, ParserInv
<1>3. position \in 1 .. Len(w)
  BY <1>1, <1>2, TextBounds, WordLength
<1>4. Full(w) => Complete(w, stack, position)
  BY DEF ParserInv, ViableInv
<1>5. QED
  BY <1>1, <1>2, <1>3, <1>4 DEF InWord, current

(* A step that reads nothing keeps the invariant, ... *)
LEMMA StaysInv ==
  ASSUME ParserInv, outcome = "parsing", Stays
  PROVE  ParserInv'
<1>1. text' = text /\ position' = position /\ outcome' = outcome /\ results' = results
  BY DEF Stays
<1>2. ASSUME NEW w, Extends(w) PROVE Fine(w, stack', position, value') /\ (Full(w) => Complete(w, stack', position))
  BY <1>2, NowIs DEF Stays, Correct
<1>3. \A w : Extends(w)' <=> Extends(w)
  BY <1>1 DEF Extends
<1>4. TextInv' /\ ResultsInv'
  BY <1>1 DEF ParserInv, TextInv, ResultsInv
<1>5. ReadingInv'
  BY <1>1, <1>2, <1>3 DEF ParserInv, ReadingInv
<1>6. ViableInv'
  BY <1>1, <1>2, <1>3 DEF ViableInv
<1>7. QED
  BY <1>4, <1>5, <1>6 DEF ParserInv

(* ... so does one that reads a token ... *)
LEMMA GoesInv ==
  ASSUME ParserInv, outcome = "parsing", Goes
  PROVE  ParserInv'
<1>1. TextInv /\ position \in 1 .. Len(text) /\ current.type # "STOP" /\ ReadToken /\ results' = results
  BY DEF ParserInv, ReadingInv, Goes
<1>2. /\ TextInv' /\ position' = position + 1 /\ position + 1 \in 1 .. Len(text')
      /\ text[Len(text)] = Stop => text' = text
      /\ \A w : Extends(w)' => Extends(w) /\ Word(w) /\ position + 1 \in 1 .. Len(w)
      /\ outcome' = outcome \/ (outcome' = "error" /\ text'[position + 1].type = "BAD")
  BY <1>1, ReadsOn
<1>3. ASSUME NEW w, Extends(w)'
      PROVE  Fine(w, stack', position', value') /\ (Full(w) => Complete(w, stack', position'))
  BY <1>2, <1>3 DEF Goes, Correct, InWord
<1>4. ReadingInv'
  BY <1>2, <1>3 DEF ReadingInv
<1>5. ViableInv'
  <2>1. ASSUME NEW w, Full(w), Extends(w)' PROVE text'[position + 1].type # "BAD"
    <3>1. Word(w) /\ w[position + 1] = text'[position + 1] /\ position + 1 \in 1 .. Len(w)
      BY <1>2, <2>1 DEF Extends
    <3>2. QED
      BY <2>1, <3>1, NoBadToken
  <2>2. QED
    BY <1>2, <1>3, <2>1 DEF ViableInv
<1>6. ResultsInv'
  <2>1. CASE results = <<>>
    <3>1. results \in Seq(Parsed(text)')
      BY <2>1
    <3>2. QED
      BY <1>1, <1>2, <2>1, <3>1 DEF ParserInv, ResultsInv
  <2>2. CASE results # <<>>
    <3>1. text' = text
      BY <1>2, <2>2 DEF ParserInv, ResultsInv
    <3>2. QED
      BY <1>1, <1>2, <2>2, <3>1 DEF ParserInv, ResultsInv
  <2>3. QED
    BY <2>1, <2>2
<1>7. QED
  BY <1>2, <1>4, <1>5, <1>6 DEF ParserInv

(* ... and a failure, when no sentence continues the text. *)
LEMMA StopsInv ==
  ASSUME ParserInv, outcome = "parsing", Stops
  PROVE  ParserInv'
<1>1. text' = text /\ position' = position /\ stack' = stack /\ value' = value /\ results' = results /\ outcome' = "error"
  BY DEF Stops, Fail
<1>2. \A w : Extends(w)' <=> Extends(w)
  BY <1>1 DEF Extends
<1>3. TextInv' /\ ResultsInv'
  BY <1>1 DEF ParserInv, TextInv, ResultsInv
<1>4. ReadingInv'
  BY <1>1, <1>2 DEF ParserInv, ReadingInv
<1>5. ViableInv'
  BY <1>1, <1>2 DEF ViableInv, Stops
<1>6. QED
  BY <1>3, <1>4, <1>5 DEF ParserInv

(* Exp keeps the invariant. *)
LEMMA ExpStep ==
  ASSUME ParserInv, Exp
  PROVE  ParserInv'
<1>0. outcome = "parsing" /\ stack # <<>> /\ Head(stack).at = "exp"
  BY DEF Exp, Active, Top
<1>1. CASE (At("KEY")) /\ Take(<<Frame("exp.quantifier", <<current.content>>, 0)>>)
  <2> DEFINE next == <<Frame("exp.quantifier", <<current.content>>, 0)>> \o Tail(stack)
             tree == value
  <2>1. ReadToken /\ stack' = next /\ value' = tree /\ results' = results
    BY <1>1 DEF Take
  <2>2. current.type = "KEY" /\ current.type # "STOP"
    BY <1>1 DEF At, Keys
  <2>3. ASSUME NEW w, Extends(w), InWord(w, position + 1)
        PROVE  Fine(w, next, position + 1, tree) /\ (Full(w) => Complete(w, next, position + 1))
    <3>1. Word(w) /\ InWord(w, position) /\ w[position] = current /\ Fine(w, stack, position, value) /\ (Full(w) => Complete(w, stack, position))
      BY <1>0, <2>3, NowIs
    <3>2. Fine(w, next, position + 1, tree)
      BY <1>0, <2>2, <2>3, <3>1, FineKey DEF Top, Keys
    <3>3. next \in Seq(Frames)
      BY <3>2 DEF Fine
    <3>4. Full(w) => Complete(w, next, position + 1)
      BY <1>0, <2>2, <3>1, <3>3, FrameAt, GoesKey DEF Top, Keys
    <3>5. QED
      BY <3>2, <3>4
  <2> HIDE DEF next, tree
  <2>4. Correct(position + 1)
    BY <2>1, <2>3 DEF Correct
  <2>5. QED
    BY <1>0, <2>1, <2>2, <2>4, GoesInv DEF Goes
<1>2. CASE (At("CKEY") \/ At("SCKEY")) /\ TakeAndReturn(current.content)
  <2> DEFINE next == Tail(stack)
             tree == current.content
  <2>1. ReadToken /\ stack' = next /\ value' = tree /\ results' = results
    BY <1>2 DEF TakeAndReturn
  <2>2. current.type \in {"CKEY", "SCKEY"} /\ current.type # "STOP"
    BY <1>2 DEF At, Keys
  <2>3. ASSUME NEW w, Extends(w), InWord(w, position + 1)
        PROVE  Fine(w, next, position + 1, tree) /\ (Full(w) => Complete(w, next, position + 1))
    <3>1. Word(w) /\ InWord(w, position) /\ w[position] = current /\ Fine(w, stack, position, value) /\ (Full(w) => Complete(w, stack, position))
      BY <1>0, <2>3, NowIs
    <3>2. Fine(w, next, position + 1, tree)
      BY <1>0, <2>2, <2>3, <3>1, FineKey DEF Top, Keys
    <3>4. Full(w) => Complete(w, next, position + 1)
      BY <1>0, <2>2, <3>1, GoesKey DEF Top, Keys
    <3>5. QED
      BY <3>2, <3>4
  <2> HIDE DEF next, tree
  <2>4. Correct(position + 1)
    BY <2>1, <2>3 DEF Correct
  <2>5. QED
    BY <1>0, <2>1, <2>2, <2>4, GoesInv DEF Goes
<1>3. CASE (~ (At("KEY") \/ At("CKEY") \/ At("SCKEY"))) /\ Enter(<<Call("domain")>>)
  <2> DEFINE next == <<Call("domain")>> \o Tail(stack)
             tree == value
  <2>1. UNCHANGED <<text, position, outcome, results>> /\ stack' = next /\ value' = tree
    BY <1>3 DEF Enter
  <2>2. current.type \notin Keys
    BY <1>3 DEF At, Keys
  <2>3. ASSUME NEW w, Extends(w), InWord(w, position)
        PROVE  Fine(w, next, position, tree) /\ (Full(w) => Complete(w, next, position))
    <3>1. Word(w) /\ InWord(w, position) /\ w[position] = current /\ Fine(w, stack, position, value) /\ (Full(w) => Complete(w, stack, position))
      BY <1>0, <2>3, NowIs
    <3>2. Fine(w, next, position, tree)
      BY <1>0, <2>2, <2>3, <3>1, FineEnter DEF Top, Keys
    <3>3. next \in Seq(Frames)
      BY <3>2 DEF Fine
    <3>4. Full(w) => Complete(w, next, position)
      BY <1>0, <2>2, <3>1, <3>3, FrameAt, GoesDomain DEF Top, Keys
    <3>5. QED
      BY <3>2, <3>4
  <2> HIDE DEF next, tree
  <2>4. Correct(position)
    BY <2>1, <2>3 DEF Correct
  <2>5. QED
    BY <1>0, <2>1, <2>2, <2>4, StaysInv DEF Stays
<1>4. QED
  BY <1>1, <1>2, <1>3 DEF Exp, At

(* ExpQuantifier keeps the invariant. *)
LEMMA ExpQuantifierStep ==
  ASSUME ParserInv, ExpQuantifier
  PROVE  ParserInv'
<1>0. outcome = "parsing" /\ stack # <<>> /\ Head(stack).at = "exp.quantifier"
  BY DEF ExpQuantifier, Active, Top
<1>1. CASE (current.type \in DOMAIN Symbol) /\ TakeAndReturn(QUANTIFIED(Top.kept[1], Symbol[current.type]))
  <2> DEFINE next == Tail(stack)
             tree == QUANTIFIED(Top.kept[1], Symbol[current.type])
  <2>1. ReadToken /\ stack' = next /\ value' = tree /\ results' = results
    BY <1>1 DEF TakeAndReturn
  <2>2. current.type \in DOMAIN Symbol /\ current.type # "STOP"
    BY <1>1, QuantifierTypes DEF At
  <2>3. ASSUME NEW w, Extends(w), InWord(w, position + 1)
        PROVE  Fine(w, next, position + 1, tree) /\ (Full(w) => Complete(w, next, position + 1))
    <3>1. Word(w) /\ InWord(w, position) /\ w[position] = current /\ Fine(w, stack, position, value) /\ (Full(w) => Complete(w, stack, position))
      BY <1>0, <2>3, NowIs
    <3>2. Fine(w, next, position + 1, tree)
      BY <1>0, <2>2, <2>3, <3>1, FineQuantifier DEF Top
    <3>4. Full(w) => Complete(w, next, position + 1)
      BY <1>0, <2>2, <3>1, GoesQuantifier DEF Top
    <3>5. QED
      BY <3>2, <3>4
  <2> HIDE DEF next, tree
  <2>4. Correct(position + 1)
    BY <2>1, <2>3 DEF Correct
  <2>5. QED
    BY <1>0, <2>1, <2>2, <2>4, GoesInv DEF Goes
<1>2. CASE (current.type \notin DOMAIN Symbol) /\ Return(Top.kept[1])
  <2> DEFINE next == Tail(stack)
             tree == Top.kept[1]
  <2>1. UNCHANGED <<text, position, outcome, results>> /\ stack' = next /\ value' = tree
    BY <1>2 DEF Return
  <2>2. current.type \notin DOMAIN Symbol
    BY <1>2, QuantifierTypes DEF At
  <2>3. ASSUME NEW w, Extends(w), InWord(w, position)
        PROVE  Fine(w, next, position, tree) /\ (Full(w) => Complete(w, next, position))
    <3>1. Word(w) /\ InWord(w, position) /\ w[position] = current /\ Fine(w, stack, position, value) /\ (Full(w) => Complete(w, stack, position))
      BY <1>0, <2>3, NowIs
    <3>2. Fine(w, next, position, tree)
      BY <1>0, <2>2, <2>3, <3>1, FineQuantifier DEF Top
    <3>4. Full(w) => Complete(w, next, position)
      BY <1>0, <2>2, <3>1, GoesQuantifier DEF Top
    <3>5. QED
      BY <3>2, <3>4
  <2> HIDE DEF next, tree
  <2>4. Correct(position)
    BY <2>1, <2>3 DEF Correct
  <2>5. QED
    BY <1>0, <2>1, <2>2, <2>4, StaysInv DEF Stays
<1>3. QED
  BY <1>1, <1>2 DEF ExpQuantifier

(* SeqStart keeps the invariant. *)
LEMMA SeqStartStep ==
  ASSUME ParserInv, SeqStart
  PROVE  ParserInv'
<1>0. outcome = "parsing" /\ stack # <<>> /\ Head(stack).at = "seq"
  BY DEF SeqStart, Active, Top
<1>1. CASE (At("END")) /\ Take(<<Call("seq.boundary")>>)
  <2> DEFINE next == <<Call("seq.boundary")>> \o Tail(stack)
             tree == value
  <2>1. ReadToken /\ stack' = next /\ value' = tree /\ results' = results
    BY <1>1 DEF Take
  <2>2. current.type = "END" /\ current.type # "STOP"
    BY <1>1 DEF At
  <2>3. ASSUME NEW w, Extends(w), InWord(w, position + 1)
        PROVE  Fine(w, next, position + 1, tree) /\ (Full(w) => Complete(w, next, position + 1))
    <3>1. Word(w) /\ InWord(w, position) /\ w[position] = current /\ Fine(w, stack, position, value) /\ (Full(w) => Complete(w, stack, position))
      BY <1>0, <2>3, NowIs
    <3>2. Fine(w, next, position + 1, tree)
      BY <1>0, <2>2, <2>3, <3>1, FineStartBoundary DEF Top
    <3>3. next \in Seq(Frames)
      BY <3>2 DEF Fine
    <3>4. Full(w) => Complete(w, next, position + 1)
      BY <1>0, <2>2, <3>1, <3>3, FrameAt, GoesStart DEF Top
    <3>5. QED
      BY <3>2, <3>4
  <2> HIDE DEF next, tree
  <2>4. Correct(position + 1)
    BY <2>1, <2>3 DEF Correct
  <2>5. QED
    BY <1>0, <2>1, <2>2, <2>4, GoesInv DEF Goes
<1>2. CASE (~ At("END")) /\ Enter(<<Call("exp"), Call("seq.exp")>>)
  <2> DEFINE next == <<Call("exp"), Call("seq.exp")>> \o Tail(stack)
             tree == value
  <2>1. UNCHANGED <<text, position, outcome, results>> /\ stack' = next /\ value' = tree
    BY <1>2 DEF Enter
  <2>2. current.type # "END"
    BY <1>2 DEF At
  <2>3. ASSUME NEW w, Extends(w), InWord(w, position)
        PROVE  Fine(w, next, position, tree) /\ (Full(w) => Complete(w, next, position))
    <3>1. Word(w) /\ InWord(w, position) /\ w[position] = current /\ Fine(w, stack, position, value) /\ (Full(w) => Complete(w, stack, position))
      BY <1>0, <2>3, NowIs
    <3>2. Fine(w, next, position, tree)
      BY <1>0, <2>2, <2>3, <3>1, FineEnter DEF Top
    <3>3. next \in Seq(Frames)
      BY <3>2 DEF Fine
    <3>4. Full(w) => Complete(w, next, position)
      BY <1>0, <2>2, <3>1, <3>3, FrameAt, GoesSeq DEF Top
    <3>5. QED
      BY <3>2, <3>4
  <2> HIDE DEF next, tree
  <2>4. Correct(position)
    BY <2>1, <2>3 DEF Correct
  <2>5. QED
    BY <1>0, <2>1, <2>2, <2>4, StaysInv DEF Stays
<1>3. QED
  BY <1>1, <1>2 DEF SeqStart, At

(* SeqBoundary keeps the invariant. *)
LEMMA SeqBoundaryStep ==
  ASSUME ParserInv, SeqBoundary
  PROVE  ParserInv'
<1>0. outcome = "parsing" /\ stack # <<>> /\ Head(stack).at = "seq.boundary"
  BY DEF SeqBoundary, Active, Top
<1>1. CASE (At("PREC")) /\ Take(<<Call("rseq"), Frame("prec", <<END>>, current.content)>>)
  <2> DEFINE next == <<Call("rseq"), Frame("prec", <<END>>, current.content)>> \o Tail(stack)
             tree == value
  <2>1. ReadToken /\ stack' = next /\ value' = tree /\ results' = results
    BY <1>1 DEF Take
  <2>2. current.type = "PREC" /\ current.type # "STOP"
    BY <1>1 DEF At
  <2>3. ASSUME NEW w, Extends(w), InWord(w, position + 1)
        PROVE  Fine(w, next, position + 1, tree) /\ (Full(w) => Complete(w, next, position + 1))
    <3>1. Word(w) /\ InWord(w, position) /\ w[position] = current /\ Fine(w, stack, position, value) /\ (Full(w) => Complete(w, stack, position))
      BY <1>0, <2>3, NowIs
    <3>2. Fine(w, next, position + 1, tree)
      BY <1>0, <2>2, <2>3, <3>1, FineBoundary DEF Top
    <3>3. next \in Seq(Frames)
      BY <3>2 DEF Fine
    <3>4. Full(w) => Complete(w, next, position + 1)
      BY <1>0, <2>2, <3>1, <3>3, FrameAt, GoesBoundary DEF Top
    <3>5. QED
      BY <3>2, <3>4
  <2> HIDE DEF next, tree
  <2>4. Correct(position + 1)
    BY <2>1, <2>3 DEF Correct
  <2>5. QED
    BY <1>0, <2>1, <2>2, <2>4, GoesInv DEF Goes
<1>2. CASE (~ At("PREC")) /\ Fail
  <2>1. ASSUME NEW w, Extends(w), Full(w) PROVE FALSE
    <3>1. Word(w) /\ InWord(w, position) /\ w[position] = current /\ Fine(w, stack, position, value) /\ (Full(w) => Complete(w, stack, position))
      BY <1>0, <2>1, NowIs
    <3>2. current.type # "PREC"
      BY <1>2 DEF At
    <3>3. QED
      BY <1>0, <2>1, <3>1, <3>2, NeverFails
  <2>2. QED
    BY <1>0, <1>2, <2>1, StopsInv DEF Stops
<1>3. QED
  BY <1>1, <1>2 DEF SeqBoundary, At

(* SeqExp keeps the invariant. *)
LEMMA SeqExpStep ==
  ASSUME ParserInv, SeqExp
  PROVE  ParserInv'
<1>0. outcome = "parsing" /\ stack # <<>> /\ Head(stack).at = "seq.exp"
  BY DEF SeqExp, Active, Top
<1>1. CASE (At("NEXT")) /\ Take(<<Frame("seq.next", <<value>>, current.content)>>)
  <2> DEFINE next == <<Frame("seq.next", <<value>>, current.content)>> \o Tail(stack)
             tree == value
  <2>1. ReadToken /\ stack' = next /\ value' = tree /\ results' = results
    BY <1>1 DEF Take
  <2>2. current.type = "NEXT" /\ current.type # "STOP"
    BY <1>1 DEF At
  <2>3. ASSUME NEW w, Extends(w), InWord(w, position + 1)
        PROVE  Fine(w, next, position + 1, tree) /\ (Full(w) => Complete(w, next, position + 1))
    <3>1. Word(w) /\ InWord(w, position) /\ w[position] = current /\ Fine(w, stack, position, value) /\ (Full(w) => Complete(w, stack, position))
      BY <1>0, <2>3, NowIs
    <3>2. Fine(w, next, position + 1, tree)
      BY <1>0, <2>2, <2>3, <3>1, FineNext DEF Top
    <3>3. next \in Seq(Frames)
      BY <3>2 DEF Fine
    <3>4. Full(w) => Complete(w, next, position + 1)
      BY <1>0, <2>2, <3>1, <3>3, FrameAt, GoesNext DEF Top
    <3>5. QED
      BY <3>2, <3>4
  <2> HIDE DEF next, tree
  <2>4. Correct(position + 1)
    BY <2>1, <2>3 DEF Correct
  <2>5. QED
    BY <1>0, <2>1, <2>2, <2>4, GoesInv DEF Goes
<1>2. CASE (At("PREC")) /\ Take(<<Call("rseq"), Frame("prec", <<value>>, current.content)>>)
  <2> DEFINE next == <<Call("rseq"), Frame("prec", <<value>>, current.content)>> \o Tail(stack)
             tree == value
  <2>1. ReadToken /\ stack' = next /\ value' = tree /\ results' = results
    BY <1>2 DEF Take
  <2>2. current.type = "PREC" /\ current.type # "STOP"
    BY <1>2 DEF At
  <2>3. ASSUME NEW w, Extends(w), InWord(w, position + 1)
        PROVE  Fine(w, next, position + 1, tree) /\ (Full(w) => Complete(w, next, position + 1))
    <3>1. Word(w) /\ InWord(w, position) /\ w[position] = current /\ Fine(w, stack, position, value) /\ (Full(w) => Complete(w, stack, position))
      BY <1>0, <2>3, NowIs
    <3>2. Fine(w, next, position + 1, tree)
      BY <1>0, <2>2, <2>3, <3>1, FinePrec DEF Top
    <3>3. next \in Seq(Frames)
      BY <3>2 DEF Fine
    <3>4. Full(w) => Complete(w, next, position + 1)
      BY <1>0, <2>2, <3>1, <3>3, FrameAt, GoesPrec DEF Top
    <3>5. QED
      BY <3>2, <3>4
  <2> HIDE DEF next, tree
  <2>4. Correct(position + 1)
    BY <2>1, <2>3 DEF Correct
  <2>5. QED
    BY <1>0, <2>1, <2>2, <2>4, GoesInv DEF Goes
<1>3. CASE (~ (At("NEXT") \/ At("PREC"))) /\ Return(value)
  <2> DEFINE next == Tail(stack)
             tree == value
  <2>1. UNCHANGED <<text, position, outcome, results>> /\ stack' = next /\ value' = tree
    BY <1>3 DEF Return
  <2>2. current.type \notin {"NEXT", "PREC"}
    BY <1>3 DEF At
  <2>3. ASSUME NEW w, Extends(w), InWord(w, position)
        PROVE  Fine(w, next, position, tree) /\ (Full(w) => Complete(w, next, position))
    <3>1. Word(w) /\ InWord(w, position) /\ w[position] = current /\ Fine(w, stack, position, value) /\ (Full(w) => Complete(w, stack, position))
      BY <1>0, <2>3, NowIs
    <3>2. Fine(w, next, position, tree)
      BY <1>0, <2>2, <2>3, <3>1, FineAlone DEF Top
    <3>4. Full(w) => Complete(w, next, position)
      BY <1>0, <2>2, <3>1, GoesBack DEF Top
    <3>5. QED
      BY <3>2, <3>4
  <2> HIDE DEF next, tree
  <2>4. Correct(position)
    BY <2>1, <2>3 DEF Correct
  <2>5. QED
    BY <1>0, <2>1, <2>2, <2>4, StaysInv DEF Stays
<1>4. QED
  BY <1>1, <1>2, <1>3 DEF SeqExp, At

(* SeqNext keeps the invariant. *)
LEMMA SeqNextStep ==
  ASSUME ParserInv, SeqNext
  PROVE  ParserInv'
<1>0. outcome = "parsing" /\ stack # <<>> /\ Head(stack).at = "seq.next"
  BY DEF SeqNext, Active, Top
<1>1. CASE (At("END")) /\ TakeAndReturn(NEXT(Top.kept[1], END, Top.port))
  <2> DEFINE next == Tail(stack)
             tree == NEXT(Top.kept[1], END, Top.port)
  <2>1. ReadToken /\ stack' = next /\ value' = tree /\ results' = results
    BY <1>1 DEF TakeAndReturn
  <2>2. current.type = "END" /\ current.type # "STOP"
    BY <1>1 DEF At
  <2>3. ASSUME NEW w, Extends(w), InWord(w, position + 1)
        PROVE  Fine(w, next, position + 1, tree) /\ (Full(w) => Complete(w, next, position + 1))
    <3>1. Word(w) /\ InWord(w, position) /\ w[position] = current /\ Fine(w, stack, position, value) /\ (Full(w) => Complete(w, stack, position))
      BY <1>0, <2>3, NowIs
    <3>2. Fine(w, next, position + 1, tree)
      BY <1>0, <2>2, <2>3, <3>1, FineToBoundary DEF Top
    <3>4. Full(w) => Complete(w, next, position + 1)
      BY <1>0, <2>2, <3>1, GoesToBoundary DEF Top
    <3>5. QED
      BY <3>2, <3>4
  <2> HIDE DEF next, tree
  <2>4. Correct(position + 1)
    BY <2>1, <2>3 DEF Correct
  <2>5. QED
    BY <1>0, <2>1, <2>2, <2>4, GoesInv DEF Goes
<1>2. CASE (~ At("END")) /\ Enter(<<Call("seq"), Frame("next", Top.kept, Top.port)>>)
  <2> DEFINE next == <<Call("seq"), Frame("next", Top.kept, Top.port)>> \o Tail(stack)
             tree == value
  <2>1. UNCHANGED <<text, position, outcome, results>> /\ stack' = next /\ value' = tree
    BY <1>2 DEF Enter
  <2>2. current.type # "END"
    BY <1>2 DEF At
  <2>3. ASSUME NEW w, Extends(w), InWord(w, position)
        PROVE  Fine(w, next, position, tree) /\ (Full(w) => Complete(w, next, position))
    <3>1. Word(w) /\ InWord(w, position) /\ w[position] = current /\ Fine(w, stack, position, value) /\ (Full(w) => Complete(w, stack, position))
      BY <1>0, <2>3, NowIs
    <3>2. Fine(w, next, position, tree)
      BY <1>0, <2>2, <2>3, <3>1, FineRight DEF Top
    <3>3. next \in Seq(Frames)
      BY <3>2 DEF Fine
    <3>4. Full(w) => Complete(w, next, position)
      BY <1>0, <2>2, <3>1, <3>3, FrameAt, GoesRight DEF Top
    <3>5. QED
      BY <3>2, <3>4
  <2> HIDE DEF next, tree
  <2>4. Correct(position)
    BY <2>1, <2>3 DEF Correct
  <2>5. QED
    BY <1>0, <2>1, <2>2, <2>4, StaysInv DEF Stays
<1>3. QED
  BY <1>1, <1>2 DEF SeqNext, At

(* Rseq keeps the invariant. *)
LEMMA RseqStep ==
  ASSUME ParserInv, Rseq
  PROVE  ParserInv'
<1>0. outcome = "parsing" /\ stack # <<>> /\ Head(stack).at = "rseq"
  BY DEF Rseq, Active, Top
<1>1. CASE Enter(<<Call("exp"), Call("rseq.exp")>>)
  <2> DEFINE next == <<Call("exp"), Call("rseq.exp")>> \o Tail(stack)
             tree == value
  <2>1. UNCHANGED <<text, position, outcome, results>> /\ stack' = next /\ value' = tree
    BY <1>1 DEF Enter
  <2>2. TRUE
    BY <1>1 DEF At
  <2>3. ASSUME NEW w, Extends(w), InWord(w, position)
        PROVE  Fine(w, next, position, tree) /\ (Full(w) => Complete(w, next, position))
    <3>1. Word(w) /\ InWord(w, position) /\ w[position] = current /\ Fine(w, stack, position, value) /\ (Full(w) => Complete(w, stack, position))
      BY <1>0, <2>3, NowIs
    <3>2. Fine(w, next, position, tree)
      BY <1>0, <2>2, <2>3, <3>1, FineEnter DEF Top
    <3>3. next \in Seq(Frames)
      BY <3>2 DEF Fine
    <3>4. Full(w) => Complete(w, next, position)
      BY <1>0, <2>2, <3>1, <3>3, FrameAt, GoesRseq DEF Top
    <3>5. QED
      BY <3>2, <3>4
  <2> HIDE DEF next, tree
  <2>4. Correct(position)
    BY <2>1, <2>3 DEF Correct
  <2>5. QED
    BY <1>0, <2>1, <2>2, <2>4, StaysInv DEF Stays
<1>2. QED
  BY <1>1 DEF Rseq

(* RseqExp keeps the invariant. *)
LEMMA RseqExpStep ==
  ASSUME ParserInv, RseqExp
  PROVE  ParserInv'
<1>0. outcome = "parsing" /\ stack # <<>> /\ Head(stack).at = "rseq.exp"
  BY DEF RseqExp, Active, Top
<1>1. CASE (At("PREC")) /\ Take(<<Frame("rseq.prec", <<value>>, current.content)>>)
  <2> DEFINE next == <<Frame("rseq.prec", <<value>>, current.content)>> \o Tail(stack)
             tree == value
  <2>1. ReadToken /\ stack' = next /\ value' = tree /\ results' = results
    BY <1>1 DEF Take
  <2>2. current.type = "PREC" /\ current.type # "STOP"
    BY <1>1 DEF At
  <2>3. ASSUME NEW w, Extends(w), InWord(w, position + 1)
        PROVE  Fine(w, next, position + 1, tree) /\ (Full(w) => Complete(w, next, position + 1))
    <3>1. Word(w) /\ InWord(w, position) /\ w[position] = current /\ Fine(w, stack, position, value) /\ (Full(w) => Complete(w, stack, position))
      BY <1>0, <2>3, NowIs
    <3>2. Fine(w, next, position + 1, tree)
      BY <1>0, <2>2, <2>3, <3>1, FinePrecAgain DEF Top
    <3>3. next \in Seq(Frames)
      BY <3>2 DEF Fine
    <3>4. Full(w) => Complete(w, next, position + 1)
      BY <1>0, <2>2, <3>1, <3>3, FrameAt, GoesPrecAgain DEF Top
    <3>5. QED
      BY <3>2, <3>4
  <2> HIDE DEF next, tree
  <2>4. Correct(position + 1)
    BY <2>1, <2>3 DEF Correct
  <2>5. QED
    BY <1>0, <2>1, <2>2, <2>4, GoesInv DEF Goes
<1>2. CASE (~ At("PREC")) /\ Return(value)
  <2> DEFINE next == Tail(stack)
             tree == value
  <2>1. UNCHANGED <<text, position, outcome, results>> /\ stack' = next /\ value' = tree
    BY <1>2 DEF Return
  <2>2. current.type # "PREC"
    BY <1>2 DEF At
  <2>3. ASSUME NEW w, Extends(w), InWord(w, position)
        PROVE  Fine(w, next, position, tree) /\ (Full(w) => Complete(w, next, position))
    <3>1. Word(w) /\ InWord(w, position) /\ w[position] = current /\ Fine(w, stack, position, value) /\ (Full(w) => Complete(w, stack, position))
      BY <1>0, <2>3, NowIs
    <3>2. Fine(w, next, position, tree)
      BY <1>0, <2>2, <2>3, <3>1, FineAlone DEF Top
    <3>4. Full(w) => Complete(w, next, position)
      BY <1>0, <2>2, <3>1, GoesBack DEF Top
    <3>5. QED
      BY <3>2, <3>4
  <2> HIDE DEF next, tree
  <2>4. Correct(position)
    BY <2>1, <2>3 DEF Correct
  <2>5. QED
    BY <1>0, <2>1, <2>2, <2>4, StaysInv DEF Stays
<1>3. QED
  BY <1>1, <1>2 DEF RseqExp, At

(* RseqPrec keeps the invariant. *)
LEMMA RseqPrecStep ==
  ASSUME ParserInv, RseqPrec
  PROVE  ParserInv'
<1>0. outcome = "parsing" /\ stack # <<>> /\ Head(stack).at = "rseq.prec"
  BY DEF RseqPrec, Active, Top
<1>1. CASE (At("END")) /\ TakeAndReturn(PREC(Top.kept[1], END, Top.port))
  <2> DEFINE next == Tail(stack)
             tree == PREC(Top.kept[1], END, Top.port)
  <2>1. ReadToken /\ stack' = next /\ value' = tree /\ results' = results
    BY <1>1 DEF TakeAndReturn
  <2>2. current.type = "END" /\ current.type # "STOP"
    BY <1>1 DEF At
  <2>3. ASSUME NEW w, Extends(w), InWord(w, position + 1)
        PROVE  Fine(w, next, position + 1, tree) /\ (Full(w) => Complete(w, next, position + 1))
    <3>1. Word(w) /\ InWord(w, position) /\ w[position] = current /\ Fine(w, stack, position, value) /\ (Full(w) => Complete(w, stack, position))
      BY <1>0, <2>3, NowIs
    <3>2. Fine(w, next, position + 1, tree)
      BY <1>0, <2>2, <2>3, <3>1, FineToBoundary DEF Top
    <3>4. Full(w) => Complete(w, next, position + 1)
      BY <1>0, <2>2, <3>1, GoesToBoundary DEF Top
    <3>5. QED
      BY <3>2, <3>4
  <2> HIDE DEF next, tree
  <2>4. Correct(position + 1)
    BY <2>1, <2>3 DEF Correct
  <2>5. QED
    BY <1>0, <2>1, <2>2, <2>4, GoesInv DEF Goes
<1>2. CASE (~ At("END")) /\ Enter(<<Call("rseq"), Frame("prec", Top.kept, Top.port)>>)
  <2> DEFINE next == <<Call("rseq"), Frame("prec", Top.kept, Top.port)>> \o Tail(stack)
             tree == value
  <2>1. UNCHANGED <<text, position, outcome, results>> /\ stack' = next /\ value' = tree
    BY <1>2 DEF Enter
  <2>2. current.type # "END"
    BY <1>2 DEF At
  <2>3. ASSUME NEW w, Extends(w), InWord(w, position)
        PROVE  Fine(w, next, position, tree) /\ (Full(w) => Complete(w, next, position))
    <3>1. Word(w) /\ InWord(w, position) /\ w[position] = current /\ Fine(w, stack, position, value) /\ (Full(w) => Complete(w, stack, position))
      BY <1>0, <2>3, NowIs
    <3>2. Fine(w, next, position, tree)
      BY <1>0, <2>2, <2>3, <3>1, FineRight DEF Top
    <3>3. next \in Seq(Frames)
      BY <3>2 DEF Fine
    <3>4. Full(w) => Complete(w, next, position)
      BY <1>0, <2>2, <3>1, <3>3, FrameAt, GoesRight DEF Top
    <3>5. QED
      BY <3>2, <3>4
  <2> HIDE DEF next, tree
  <2>4. Correct(position)
    BY <2>1, <2>3 DEF Correct
  <2>5. QED
    BY <1>0, <2>1, <2>2, <2>4, StaysInv DEF Stays
<1>3. QED
  BY <1>1, <1>2 DEF RseqPrec, At

(* Domain keeps the invariant. *)
LEMMA DomainStep ==
  ASSUME ParserInv, Domain
  PROVE  ParserInv'
<1>0. outcome = "parsing" /\ stack # <<>> /\ Head(stack).at = "domain"
  BY DEF Domain, Active, Top
<1>1. CASE (At("LPAREN")) /\ Take(<<Call("alternative")>>)
  <2> DEFINE next == <<Call("alternative")>> \o Tail(stack)
             tree == value
  <2>1. ReadToken /\ stack' = next /\ value' = tree /\ results' = results
    BY <1>1 DEF Take
  <2>2. current.type = "LPAREN" /\ current.type # "STOP"
    BY <1>1 DEF At
  <2>3. ASSUME NEW w, Extends(w), InWord(w, position + 1)
        PROVE  Fine(w, next, position + 1, tree) /\ (Full(w) => Complete(w, next, position + 1))
    <3>1. Word(w) /\ InWord(w, position) /\ w[position] = current /\ Fine(w, stack, position, value) /\ (Full(w) => Complete(w, stack, position))
      BY <1>0, <2>3, NowIs
    <3>2. Fine(w, next, position + 1, tree)
      BY <1>0, <2>2, <2>3, <3>1, FineOpen DEF Top
    <3>3. next \in Seq(Frames)
      BY <3>2 DEF Fine
    <3>4. Full(w) => Complete(w, next, position + 1)
      BY <1>0, <2>2, <3>1, <3>3, FrameAt, GoesInside DEF Top
    <3>5. QED
      BY <3>2, <3>4
  <2> HIDE DEF next, tree
  <2>4. Correct(position + 1)
    BY <2>1, <2>3 DEF Correct
  <2>5. QED
    BY <1>0, <2>1, <2>2, <2>4, GoesInv DEF Goes
<1>2. CASE (~ At("LPAREN")) /\ Fail
  <2>1. ASSUME NEW w, Extends(w), Full(w) PROVE FALSE
    <3>1. Word(w) /\ InWord(w, position) /\ w[position] = current /\ Fine(w, stack, position, value) /\ (Full(w) => Complete(w, stack, position))
      BY <1>0, <2>1, NowIs
    <3>2. current.type # "LPAREN"
      BY <1>2 DEF At
    <3>3. QED
      BY <1>0, <2>1, <3>1, <3>2, NeverFails
  <2>2. QED
    BY <1>0, <1>2, <2>1, StopsInv DEF Stops
<1>3. QED
  BY <1>1, <1>2 DEF Domain, At

(* BeginAlternative keeps the invariant. *)
LEMMA BeginAlternativeStep ==
  ASSUME ParserInv, BeginAlternative
  PROVE  ParserInv'
<1>0. outcome = "parsing" /\ stack # <<>> /\ Head(stack).at = "alternative"
  BY DEF BeginAlternative, Active, Top
<1>1. CASE (current.type \in {"ALT", "RPAREN", "STOP"}) /\ Fail
  <2>1. ASSUME NEW w, Extends(w), Full(w) PROVE FALSE
    <3>1. Word(w) /\ InWord(w, position) /\ w[position] = current /\ Fine(w, stack, position, value) /\ (Full(w) => Complete(w, stack, position))
      BY <1>0, <2>1, NowIs
    <3>2. current.type \in {"ALT", "RPAREN", "STOP"}
      BY <1>1 DEF At
    <3>3. QED
      BY <1>0, <2>1, <3>1, <3>2, NeverFails
  <2>2. QED
    BY <1>0, <1>1, <2>1, StopsInv DEF Stops
<1>2. CASE (current.type \notin {"ALT", "RPAREN", "STOP"}) /\ Enter(<<Call("seq"), Frame("domain.more", Top.kept, 0)>>)
  <2> DEFINE next == <<Call("seq"), Frame("domain.more", Top.kept, 0)>> \o Tail(stack)
             tree == value
  <2>1. UNCHANGED <<text, position, outcome, results>> /\ stack' = next /\ value' = tree
    BY <1>2 DEF Enter
  <2>2. TRUE
    BY <1>2 DEF At
  <2>3. ASSUME NEW w, Extends(w), InWord(w, position)
        PROVE  Fine(w, next, position, tree) /\ (Full(w) => Complete(w, next, position))
    <3>1. Word(w) /\ InWord(w, position) /\ w[position] = current /\ Fine(w, stack, position, value) /\ (Full(w) => Complete(w, stack, position))
      BY <1>0, <2>3, NowIs
    <3>2. Fine(w, next, position, tree)
      BY <1>0, <2>2, <2>3, <3>1, FineAlternative DEF Top
    <3>3. next \in Seq(Frames)
      BY <3>2 DEF Fine
    <3>4. Full(w) => Complete(w, next, position)
      BY <1>0, <2>2, <3>1, <3>3, FrameAt, GoesAlternative DEF Top
    <3>5. QED
      BY <3>2, <3>4
  <2> HIDE DEF next, tree
  <2>4. Correct(position)
    BY <2>1, <2>3 DEF Correct
  <2>5. QED
    BY <1>0, <2>1, <2>2, <2>4, StaysInv DEF Stays
<1>3. QED
  BY <1>1, <1>2 DEF BeginAlternative

(* DomainMore keeps the invariant. *)
LEMMA DomainMoreStep ==
  ASSUME ParserInv, DomainMore
  PROVE  ParserInv'
<1>0. outcome = "parsing" /\ stack # <<>> /\ Head(stack).at = "domain.more"
  BY DEF DomainMore, Active, Top
<1>1. CASE (At("ALT")) /\ Take(<<Frame("alternative", Append(Top.kept, value), 0)>>)
  <2> DEFINE next == <<Frame("alternative", Append(Top.kept, value), 0)>> \o Tail(stack)
             tree == value
  <2>1. ReadToken /\ stack' = next /\ value' = tree /\ results' = results
    BY <1>1 DEF Take
  <2>2. current.type = "ALT" /\ current.type # "STOP"
    BY <1>1 DEF At
  <2>3. ASSUME NEW w, Extends(w), InWord(w, position + 1)
        PROVE  Fine(w, next, position + 1, tree) /\ (Full(w) => Complete(w, next, position + 1))
    <3>1. Word(w) /\ InWord(w, position) /\ w[position] = current /\ Fine(w, stack, position, value) /\ (Full(w) => Complete(w, stack, position))
      BY <1>0, <2>3, NowIs
    <3>2. Fine(w, next, position + 1, tree)
      BY <1>0, <2>2, <2>3, <3>1, FineMore DEF Top
    <3>3. next \in Seq(Frames)
      BY <3>2 DEF Fine
    <3>4. Full(w) => Complete(w, next, position + 1)
      <4> DEFINE g == Frame("alternative", Append(Top.kept, value), 0)
      <4>1. g.at = "alternative" /\ g.kept = Append(Head(stack).kept, value)
        BY FrameAt DEF Top
      <4> HIDE DEF g
      <4>2. <<g>> \o Tail(stack) \in Seq(Frames)
        BY <3>3 DEF g
      <4>3. Full(w) => Complete(w, <<g>> \o Tail(stack), position + 1)
        BY <1>0, <2>2, <3>1, <4>1, <4>2, GoesMore
      <4>4. QED
        BY <4>3 DEF g
    <3>5. QED
      BY <3>2, <3>4
  <2> HIDE DEF next, tree
  <2>4. Correct(position + 1)
    BY <2>1, <2>3 DEF Correct
  <2>5. QED
    BY <1>0, <2>1, <2>2, <2>4, GoesInv DEF Goes
<1>2. CASE (At("RPAREN")) /\ Take(<<Frame("domain.quantifier", Append(Top.kept, value), 0)>>)
  <2> DEFINE next == <<Frame("domain.quantifier", Append(Top.kept, value), 0)>> \o Tail(stack)
             tree == value
  <2>1. ReadToken /\ stack' = next /\ value' = tree /\ results' = results
    BY <1>2 DEF Take
  <2>2. current.type = "RPAREN" /\ current.type # "STOP"
    BY <1>2 DEF At
  <2>3. ASSUME NEW w, Extends(w), InWord(w, position + 1)
        PROVE  Fine(w, next, position + 1, tree) /\ (Full(w) => Complete(w, next, position + 1))
    <3>1. Word(w) /\ InWord(w, position) /\ w[position] = current /\ Fine(w, stack, position, value) /\ (Full(w) => Complete(w, stack, position))
      BY <1>0, <2>3, NowIs
    <3>2. Fine(w, next, position + 1, tree)
      BY <1>0, <2>2, <2>3, <3>1, FineMore DEF Top
    <3>3. next \in Seq(Frames)
      BY <3>2 DEF Fine
    <3>4. Full(w) => Complete(w, next, position + 1)
      <4> DEFINE g == Frame("domain.quantifier", Append(Top.kept, value), 0)
      <4>1. g.at = "domain.quantifier" /\ g.kept = Append(Head(stack).kept, value)
        BY FrameAt DEF Top
      <4> HIDE DEF g
      <4>2. <<g>> \o Tail(stack) \in Seq(Frames)
        BY <3>3 DEF g
      <4>3. Full(w) => Complete(w, <<g>> \o Tail(stack), position + 1)
        BY <1>0, <2>2, <3>1, <4>1, <4>2, GoesMore
      <4>4. QED
        BY <4>3 DEF g
    <3>5. QED
      BY <3>2, <3>4
  <2> HIDE DEF next, tree
  <2>4. Correct(position + 1)
    BY <2>1, <2>3 DEF Correct
  <2>5. QED
    BY <1>0, <2>1, <2>2, <2>4, GoesInv DEF Goes
<1>3. CASE (~ (At("ALT") \/ At("RPAREN"))) /\ Fail
  <2>1. ASSUME NEW w, Extends(w), Full(w) PROVE FALSE
    <3>1. Word(w) /\ InWord(w, position) /\ w[position] = current /\ Fine(w, stack, position, value) /\ (Full(w) => Complete(w, stack, position))
      BY <1>0, <2>1, NowIs
    <3>2. current.type \notin {"ALT", "RPAREN"}
      BY <1>3 DEF At
    <3>3. QED
      BY <1>0, <2>1, <3>1, <3>2, NeverFails
  <2>2. QED
    BY <1>0, <1>3, <2>1, StopsInv DEF Stops
<1>4. QED
  BY <1>1, <1>2, <1>3 DEF DomainMore, At

(* DomainQuantifier keeps the invariant. *)
LEMMA DomainQuantifierStep ==
  ASSUME ParserInv, DomainQuantifier
  PROVE  ParserInv'
<1>0. outcome = "parsing" /\ stack # <<>> /\ Head(stack).at = "domain.quantifier"
  BY DEF DomainQuantifier, Active, Top
<1>1. CASE (current.type \in DOMAIN Symbol) /\ TakeAndReturn(QUANTIFIED(GROUP(Top.kept), Symbol[current.type]))
  <2> DEFINE next == Tail(stack)
             tree == QUANTIFIED(GROUP(Top.kept), Symbol[current.type])
  <2>1. ReadToken /\ stack' = next /\ value' = tree /\ results' = results
    BY <1>1 DEF TakeAndReturn
  <2>2. current.type \in DOMAIN Symbol /\ current.type # "STOP"
    BY <1>1, QuantifierTypes DEF At
  <2>3. ASSUME NEW w, Extends(w), InWord(w, position + 1)
        PROVE  Fine(w, next, position + 1, tree) /\ (Full(w) => Complete(w, next, position + 1))
    <3>1. Word(w) /\ InWord(w, position) /\ w[position] = current /\ Fine(w, stack, position, value) /\ (Full(w) => Complete(w, stack, position))
      BY <1>0, <2>3, NowIs
    <3>2. Fine(w, next, position + 1, tree)
      BY <1>0, <2>2, <2>3, <3>1, FineGroup DEF Top
    <3>4. Full(w) => Complete(w, next, position + 1)
      BY <1>0, <2>2, <3>1, GoesOut DEF Top
    <3>5. QED
      BY <3>2, <3>4
  <2> HIDE DEF next, tree
  <2>4. Correct(position + 1)
    BY <2>1, <2>3 DEF Correct
  <2>5. QED
    BY <1>0, <2>1, <2>2, <2>4, GoesInv DEF Goes
<1>2. CASE (current.type \notin DOMAIN Symbol /\ Len(Top.kept) > 1) /\ Return(GROUP(Top.kept))
  <2> DEFINE next == Tail(stack)
             tree == GROUP(Top.kept)
  <2>1. UNCHANGED <<text, position, outcome, results>> /\ stack' = next /\ value' = tree
    BY <1>2 DEF Return
  <2>2. current.type \notin DOMAIN Symbol /\ Len(Top.kept) > 1
    BY <1>2, QuantifierTypes DEF At
  <2>3. ASSUME NEW w, Extends(w), InWord(w, position)
        PROVE  Fine(w, next, position, tree) /\ (Full(w) => Complete(w, next, position))
    <3>1. Word(w) /\ InWord(w, position) /\ w[position] = current /\ Fine(w, stack, position, value) /\ (Full(w) => Complete(w, stack, position))
      BY <1>0, <2>3, NowIs
    <3>2. Fine(w, next, position, tree)
      BY <1>0, <2>2, <2>3, <3>1, FineGroup DEF Top
    <3>4. Full(w) => Complete(w, next, position)
      BY <1>0, <2>2, <3>1, GoesOut DEF Top
    <3>5. QED
      BY <3>2, <3>4
  <2> HIDE DEF next, tree
  <2>4. Correct(position)
    BY <2>1, <2>3 DEF Correct
  <2>5. QED
    BY <1>0, <2>1, <2>2, <2>4, StaysInv DEF Stays
<1>3. CASE (current.type \notin DOMAIN Symbol /\ Len(Top.kept) = 1) /\ Fail
  <2>1. ASSUME NEW w, Extends(w), Full(w) PROVE FALSE
    <3>1. Word(w) /\ InWord(w, position) /\ w[position] = current /\ Fine(w, stack, position, value) /\ (Full(w) => Complete(w, stack, position))
      BY <1>0, <2>1, NowIs
    <3>2. current.type \notin DOMAIN Symbol /\ Len(Top.kept) = 1 /\ ~ (Len(Head(stack).kept) > 1)
      <4>1. current.type \notin DOMAIN Symbol /\ Len(Top.kept) = 1
        BY <1>3
      <4>2. ~ (Len(Top.kept) > 1)
        BY <4>1
      <4>3. QED
        BY <4>1, <4>2 DEF Top
    <3>3. QED
      BY <1>0, <2>1, <3>1, <3>2, NeverFails
  <2>2. QED
    BY <1>0, <1>3, <2>1, StopsInv DEF Stops
<1>4. QED
  BY <1>1, <1>2, <1>3 DEF DomainQuantifier

(* AllExpr keeps the invariant. *)
LEMMA AllExprStep ==
  ASSUME ParserInv, AllExpr
  PROVE  ParserInv'
<1>0. outcome = "parsing" /\ stack # <<>> /\ Head(stack).at = "allExpr"
  BY DEF AllExpr, Active, Top
<1>1. CASE Enter(<<Call("seq"), Call("allExpr.path")>>)
  <2> DEFINE next == <<Call("seq"), Call("allExpr.path")>> \o Tail(stack)
             tree == value
  <2>1. UNCHANGED <<text, position, outcome, results>> /\ stack' = next /\ value' = tree
    BY <1>1 DEF Enter
  <2>2. TRUE
    BY <1>1 DEF At
  <2>3. ASSUME NEW w, Extends(w), InWord(w, position)
        PROVE  Fine(w, next, position, tree) /\ (Full(w) => Complete(w, next, position))
    <3>1. Word(w) /\ InWord(w, position) /\ w[position] = current /\ Fine(w, stack, position, value) /\ (Full(w) => Complete(w, stack, position))
      BY <1>0, <2>3, NowIs
    <3>2. Fine(w, next, position, tree)
      BY <1>0, <2>2, <2>3, <3>1, FineEnter DEF Top
    <3>3. next \in Seq(Frames)
      BY <3>2 DEF Fine
    <3>4. Full(w) => Complete(w, next, position)
      BY <1>0, <2>2, <3>1, <3>3, FrameAt, GoesPaths DEF Top
    <3>5. QED
      BY <3>2, <3>4
  <2> HIDE DEF next, tree
  <2>4. Correct(position)
    BY <2>1, <2>3 DEF Correct
  <2>5. QED
    BY <1>0, <2>1, <2>2, <2>4, StaysInv DEF Stays
<1>2. QED
  BY <1>1 DEF AllExpr

(* AllExprPath keeps the invariant. *)
LEMMA AllExprPathStep ==
  ASSUME ParserInv, AllExprPath
  PROVE  ParserInv'
<1>0. outcome = "parsing" /\ stack # <<>> /\ Head(stack).at = "allExpr.path"
  BY DEF AllExprPath, Active, Top
<1>1. CASE (At("SEP")) /\ Take(<<Frame("allExpr.more", <<value>>, 0)>>)
  <2> DEFINE next == <<Frame("allExpr.more", <<value>>, 0)>> \o Tail(stack)
             tree == value
  <2>1. ReadToken /\ stack' = next /\ value' = tree /\ results' = results
    BY <1>1 DEF Take
  <2>2. current.type = "SEP" /\ current.type # "STOP"
    BY <1>1 DEF At
  <2>3. ASSUME NEW w, Extends(w), InWord(w, position + 1)
        PROVE  Fine(w, next, position + 1, tree) /\ (Full(w) => Complete(w, next, position + 1))
    <3>1. Word(w) /\ InWord(w, position) /\ w[position] = current /\ Fine(w, stack, position, value) /\ (Full(w) => Complete(w, stack, position))
      BY <1>0, <2>3, NowIs
    <3>2. Fine(w, next, position + 1, tree)
      BY <1>0, <2>2, <2>3, <3>1, FinePath DEF Top
    <3>3. next \in Seq(Frames)
      BY <3>2 DEF Fine
    <3>4. Full(w) => Complete(w, next, position + 1)
      BY <1>0, <2>2, <3>1, <3>3, FrameAt, GoesPath DEF Top
    <3>5. QED
      BY <3>2, <3>4
  <2> HIDE DEF next, tree
  <2>4. Correct(position + 1)
    BY <2>1, <2>3 DEF Correct
  <2>5. QED
    BY <1>0, <2>1, <2>2, <2>4, GoesInv DEF Goes
<1>2. CASE (At("STOP")) /\ Return(value)
  <2> DEFINE next == Tail(stack)
             tree == value
  <2>1. UNCHANGED <<text, position, outcome, results>> /\ stack' = next /\ value' = tree
    BY <1>2 DEF Return
  <2>2. current.type = "STOP"
    BY <1>2 DEF At
  <2>3. ASSUME NEW w, Extends(w), InWord(w, position)
        PROVE  Fine(w, next, position, tree) /\ (Full(w) => Complete(w, next, position))
    <3>1. Word(w) /\ InWord(w, position) /\ w[position] = current /\ Fine(w, stack, position, value) /\ (Full(w) => Complete(w, stack, position))
      BY <1>0, <2>3, NowIs
    <3>2. Fine(w, next, position, tree)
      BY <1>0, <2>2, <2>3, <3>1, FinePath DEF Top
    <3>4. Full(w) => Complete(w, next, position)
      BY <1>0, <2>2, <3>1, GoesPath DEF Top
    <3>5. QED
      BY <3>2, <3>4
  <2> HIDE DEF next, tree
  <2>4. Correct(position)
    BY <2>1, <2>3 DEF Correct
  <2>5. QED
    BY <1>0, <2>1, <2>2, <2>4, StaysInv DEF Stays
<1>3. CASE (~ (At("SEP") \/ At("STOP"))) /\ Fail
  <2>1. ASSUME NEW w, Extends(w), Full(w) PROVE FALSE
    <3>1. Word(w) /\ InWord(w, position) /\ w[position] = current /\ Fine(w, stack, position, value) /\ (Full(w) => Complete(w, stack, position))
      BY <1>0, <2>1, NowIs
    <3>2. current.type \notin {"SEP", "STOP"}
      BY <1>3 DEF At
    <3>3. QED
      BY <1>0, <2>1, <3>1, <3>2, NeverFails
  <2>2. QED
    BY <1>0, <1>3, <2>1, StopsInv DEF Stops
<1>4. QED
  BY <1>1, <1>2, <1>3 DEF AllExprPath, At

(* AllExprMore keeps the invariant. *)
LEMMA AllExprMoreStep ==
  ASSUME ParserInv, AllExprMore
  PROVE  ParserInv'
<1>0. outcome = "parsing" /\ stack # <<>> /\ Head(stack).at = "allExpr.more"
  BY DEF AllExprMore, Active, Top
<1>1. CASE (At("STOP")) /\ Return(Top.kept[1])
  <2> DEFINE next == Tail(stack)
             tree == Top.kept[1]
  <2>1. UNCHANGED <<text, position, outcome, results>> /\ stack' = next /\ value' = tree
    BY <1>1 DEF Return
  <2>2. current.type = "STOP"
    BY <1>1 DEF At
  <2>3. ASSUME NEW w, Extends(w), InWord(w, position)
        PROVE  Fine(w, next, position, tree) /\ (Full(w) => Complete(w, next, position))
    <3>1. Word(w) /\ InWord(w, position) /\ w[position] = current /\ Fine(w, stack, position, value) /\ (Full(w) => Complete(w, stack, position))
      BY <1>0, <2>3, NowIs
    <3>2. Fine(w, next, position, tree)
      BY <1>0, <2>2, <2>3, <3>1, FineMorePaths DEF Top
    <3>4. Full(w) => Complete(w, next, position)
      BY <1>0, <2>2, <3>1, GoesMorePaths DEF Top
    <3>5. QED
      BY <3>2, <3>4
  <2> HIDE DEF next, tree
  <2>4. Correct(position)
    BY <2>1, <2>3 DEF Correct
  <2>5. QED
    BY <1>0, <2>1, <2>2, <2>4, StaysInv DEF Stays
<1>2. CASE (~ At("STOP")) /\ Enter(<<Call("allExpr"), Frame("sep", Top.kept, 0)>>)
  <2> DEFINE next == <<Call("allExpr"), Frame("sep", Top.kept, 0)>> \o Tail(stack)
             tree == value
  <2>1. UNCHANGED <<text, position, outcome, results>> /\ stack' = next /\ value' = tree
    BY <1>2 DEF Enter
  <2>2. current.type # "STOP"
    BY <1>2 DEF At
  <2>3. ASSUME NEW w, Extends(w), InWord(w, position)
        PROVE  Fine(w, next, position, tree) /\ (Full(w) => Complete(w, next, position))
    <3>1. Word(w) /\ InWord(w, position) /\ w[position] = current /\ Fine(w, stack, position, value) /\ (Full(w) => Complete(w, stack, position))
      BY <1>0, <2>3, NowIs
    <3>2. Fine(w, next, position, tree)
      BY <1>0, <2>2, <2>3, <3>1, FineMorePaths DEF Top
    <3>3. next \in Seq(Frames)
      BY <3>2 DEF Fine
    <3>4. Full(w) => Complete(w, next, position)
      BY <1>0, <2>2, <3>1, <3>3, FrameAt, GoesMorePaths DEF Top
    <3>5. QED
      BY <3>2, <3>4
  <2> HIDE DEF next, tree
  <2>4. Correct(position)
    BY <2>1, <2>3 DEF Correct
  <2>5. QED
    BY <1>0, <2>1, <2>2, <2>4, StaysInv DEF Stays
<1>3. QED
  BY <1>1, <1>2 DEF AllExprMore, At

(* Separate keeps the invariant. *)
LEMMA SeparateStep ==
  ASSUME ParserInv, Separate
  PROVE  ParserInv'
<1>0. outcome = "parsing" /\ stack # <<>> /\ Head(stack).at = "sep"
  BY DEF Separate, Active, Top
<1>1. CASE Return(SEP(Top.kept[1], value))
  <2> DEFINE next == Tail(stack)
             tree == SEP(Top.kept[1], value)
  <2>1. UNCHANGED <<text, position, outcome, results>> /\ stack' = next /\ value' = tree
    BY <1>1 DEF Return
  <2>2. TRUE
    BY <1>1 DEF At
  <2>3. ASSUME NEW w, Extends(w), InWord(w, position)
        PROVE  Fine(w, next, position, tree) /\ (Full(w) => Complete(w, next, position))
    <3>1. Word(w) /\ InWord(w, position) /\ w[position] = current /\ Fine(w, stack, position, value) /\ (Full(w) => Complete(w, stack, position))
      BY <1>0, <2>3, NowIs
    <3>2. Fine(w, next, position, tree)
      BY <1>0, <2>2, <2>3, <3>1, FineSeparate DEF Top
    <3>4. Full(w) => Complete(w, next, position)
      BY <1>0, <2>2, <3>1, GoesBack DEF Top
    <3>5. QED
      BY <3>2, <3>4
  <2> HIDE DEF next, tree
  <2>4. Correct(position)
    BY <2>1, <2>3 DEF Correct
  <2>5. QED
    BY <1>0, <2>1, <2>2, <2>4, StaysInv DEF Stays
<1>2. QED
  BY <1>1 DEF Separate

(* Arrow keeps the invariant. *)
LEMMA ArrowStep ==
  ASSUME ParserInv, Arrow
  PROVE  ParserInv'
<1> DEFINE kept == Top.kept[1]
           tree == IF Top.at = "next" THEN NEXT(kept, value, Top.port) ELSE PREC(kept, value, Top.port)
<1>0. outcome = "parsing" /\ stack # <<>> /\ Head(stack).at \in {"next", "prec"} /\ Return(tree)
  BY DEF Arrow, Active, Top
<1>1. UNCHANGED <<text, position, outcome, results>> /\ stack' = Tail(stack) /\ value' = tree
  BY <1>0 DEF Return
<1>2. ASSUME NEW w, Extends(w), InWord(w, position)
      PROVE  Fine(w, Tail(stack), position, tree) /\ (Full(w) => Complete(w, Tail(stack), position))
  <2>1. Word(w) /\ InWord(w, position) /\ w[position] = current /\ Fine(w, stack, position, value) /\ (Full(w) => Complete(w, stack, position))
    BY <1>0, <1>2, NowIs
  <2>2. Fine(w, Tail(stack), position, tree)
    BY <1>0, <1>2, <2>1, FineArrow DEF Top
  <2>3. Full(w) => Complete(w, Tail(stack), position)
    BY <1>0, <2>1, GoesBack
  <2>4. QED
    BY <2>2, <2>3
<1> HIDE DEF kept, tree
<1>3. Correct(position)
  BY <1>1, <1>2 DEF Correct
<1>4. QED
  BY <1>0, <1>1, <1>3, StaysInv DEF Stays

(* Nothing has been read at the start but the first token. *)
LEMMA InitInv ==
  ASSUME Init
  PROVE  ParserInv
<1>1. PICK token \in Tokens \cup {Stop} : text = <<token>>
  BY DEF Init
<1>2. /\ text \in Seq(Tokens \cup {Stop}) /\ Len(text) = 1 /\ text[1] = token
  BY <1>1
<1>3. /\ position = 1 /\ stack = <<Call("allExpr")>> /\ value = NoTree /\ results = <<>>
      /\ outcome = IF token.type = "BAD" THEN "error" ELSE "parsing"
  BY <1>2 DEF Init
<1>4. MaxLength \in Nat \ {0} /\ MaxParses \in Nat \ {0}
  BY LengthBound, ParsesAssumption
<1>5. TextInv
  <2>1. 1 \in 1 .. MaxLength + 1 /\ 1 # MaxLength + 1 /\ \A i \in 1 .. 1 - 1 : FALSE
    BY <1>4
  <2>2. QED
    BY <1>2, <2>1 DEF TextInv
<1>6. ReadingInv
  BY <1>2, <1>3, StartFine DEF ReadingInv
<1>7. ViableInv
  <2> SUFFICES ASSUME NEW w, Full(w), Extends(w)
               PROVE  outcome # "error" /\ (outcome = "parsing" => Complete(w, stack, position))
    BY DEF ViableInv
  <2>1. Word(w) /\ w[1] = token /\ 1 \in 1 .. Len(w)
    <3>1. Word(w) /\ 1 <= Len(w) /\ w[1] = token
      BY <1>2 DEF Extends
    <3>2. QED
      BY <3>1, WordLength
  <2>2. token.type # "BAD"
    BY <2>1, NoBadToken
  <2>3. Complete(w, stack, position)
    BY <1>3, StartComplete
  <2>4. QED
    BY <1>3, <2>2, <2>3
<1>8. ResultsInv
  <2>1. results \in Seq(Parsed(text)) /\ Len(results) = 0
    BY <1>3
  <2>2. 0 <= MaxParses /\ 0 < MaxParses
    BY <1>4
  <2>3. QED
    BY <1>3, <2>1, <2>2 DEF ResultsInv
<1>9. QED
  BY <1>5, <1>6, <1>7, <1>8 DEF ParserInv

(* The end of the text is its only STOP. *)
LEMMA EndOfText ==
  ASSUME TextInv, NEW p \in 1 .. Len(text), text[p].type = "STOP"
  PROVE  p = Len(text) /\ text[Len(text)] = Stop
<1>1. Len(text) \in Nat \ {0}
  BY TextBounds
<1>2. p = Len(text)
  <2>1. p \in 1 .. Len(text) - 1 \/ p = Len(text)
    BY <1>1
  <2>2. QED
    BY <2>1, StopIs DEF TextInv
<1>3. text[p] \in Tokens \cup {Stop}
  BY DEF TextInv
<1>4. QED
  BY <1>2, <1>3, StopIs

(* The tree that parse returns is the tree of its text. *)
LEMMA FinishInv ==
  ASSUME ParserInv, Finish
  PROVE  ParserInv'
<1>1. /\ outcome = "parsing" /\ stack = <<>> /\ position' = 1 /\ outcome' \in {"parsed", "refused"}
      /\ results' = Append(results, [outcome |-> outcome', tree |-> value])
      /\ text' = text /\ stack' = stack /\ value' = value
  BY DEF Finish
<1>2. TextInv /\ position \in 1 .. Len(text) /\ Word(text)
  BY <1>1, TextBounds DEF ParserInv, ReadingInv, Extends
<1>3. Fine(text, <<>>, position, value)
  BY <1>1, <1>2, TextBounds DEF ParserInv, ReadingInv
<1>4. Derives(text, "query", 1, position, value) /\ text[position].type = "STOP"
  BY <1>3, EndFine
<1>5. position = Len(text) /\ text[Len(text)] = Stop
  BY <1>2, <1>4, EndOfText
<1>6. Sentence(Front(text), value) \in Language
  BY <1>2, <1>4, <1>5, ResultIs
<1> DEFINE r == [outcome |-> outcome', tree |-> value]
<1>7. r \in Parsed(text)
  <2>1. value \in {s.tree : s \in Language}
    <3>1. Sentence(Front(text), value).tree = value
      BY DEF Sentence
    <3>2. QED
      BY <1>6, <3>1
  <2>2. QED
    BY <1>1, <1>6, <2>1 DEF Parsed
<1> HIDE DEF r
<1>8. /\ results' \in Seq(Parsed(text)) /\ Len(results') = Len(results) + 1 /\ results' # <<>>
  <2>1. results \in Seq(Parsed(text)) /\ results' = Append(results, r)
    BY <1>1 DEF ParserInv, ResultsInv, r
  <2>2. QED
    BY <1>7, <2>1
<1>9. Len(results') <= MaxParses
  <2>1. Len(results) < MaxParses /\ Len(results) \in Nat
    BY <1>1 DEF ParserInv, ResultsInv
  <2>2. QED
    BY <1>8, <2>1, ParsesAssumption
<1>10. ResultsInv'
  BY <1>1, <1>5, <1>8, <1>9 DEF ResultsInv
<1>11. TextInv'
  BY <1>1, <1>2 DEF TextInv
<1>12. ReadingInv' /\ ViableInv'
  BY <1>1 DEF ReadingInv, ViableInv
<1>13. QED
  BY <1>10, <1>11, <1>12 DEF ParserInv

(* The second call of parse starts at the same text. *)
LEMMA ParseAgainInv ==
  ASSUME ParserInv, ParseAgain
  PROVE  ParserInv'
<1>1. /\ outcome \in {"parsed", "refused"} /\ Len(results) < MaxParses /\ outcome' = "parsing"
      /\ stack' = <<Call("allExpr")>> /\ text' = text /\ position' = position /\ value' = value /\ results' = results
  BY DEF ParseAgain
<1>2. position = 1 /\ TextInv /\ 1 \in 1 .. Len(text)
  <2>1. position = 1 /\ TextInv
    BY <1>1 DEF ParserInv, ResultsInv
  <2>2. QED
    BY <2>1, TextBounds
<1>3. TextInv' /\ ResultsInv'
  BY <1>1 DEF ParserInv, TextInv, ResultsInv
<1>4. ReadingInv'
  BY <1>1, <1>2, StartFine DEF ReadingInv
<1>5. ViableInv'
  BY <1>1, <1>2, StartComplete DEF ViableInv
<1>6. QED
  BY <1>3, <1>4, <1>5 DEF ParserInv

(* A step that changes nothing keeps the invariant. *)
LEMMA StutterInv ==
  ASSUME ParserInv, UNCHANGED vars
  PROVE  ParserInv'
<1>1. /\ text' = text /\ position' = position /\ stack' = stack /\ value' = value /\ outcome' = outcome
      /\ results' = results
  BY DEF vars
<1>2. \A w : Extends(w)' <=> Extends(w)
  BY <1>1 DEF Extends
<1>3. TextInv' /\ ResultsInv'
  BY <1>1 DEF ParserInv, TextInv, ResultsInv
<1>4. ReadingInv' /\ ViableInv'
  BY <1>1, <1>2 DEF ParserInv, ReadingInv, ViableInv
<1>5. QED
  BY <1>3, <1>4 DEF ParserInv

(* Every step keeps the invariant. *)
LEMMA NextInv ==
  ASSUME ParserInv, [Next]_vars
  PROVE  ParserInv'
<1>1. CASE Descend
  BY <1>1, ExpStep, ExpQuantifierStep, SeqStartStep, SeqBoundaryStep, SeqExpStep, SeqNextStep, RseqStep, RseqExpStep,
     RseqPrecStep, ArrowStep, DomainStep, BeginAlternativeStep, DomainMoreStep, DomainQuantifierStep, AllExprStep,
     AllExprPathStep, AllExprMoreStep, SeparateStep DEF Descend
<1>2. CASE Finish
  BY <1>2, FinishInv
<1>3. CASE ParseAgain
  BY <1>3, ParseAgainInv
<1>4. CASE UNCHANGED vars
  BY <1>4, StutterInv
<1>5. QED
  BY <1>1, <1>2, <1>3, <1>4 DEF Next

(***************************************************************************)
(* The inductive invariant of the parser: what its stack and its value say   *)
(* agrees with every word that begins with the text, and as long as some     *)
(* sentence begins with it, parse has not failed and can still read it.      *)
(***************************************************************************)
THEOREM ParserIsInvariant == Spec => []ParserInv
<1>1. Init => ParserInv
  BY InitInv
<1>2. ParserInv /\ [Next]_vars => ParserInv'
  BY NextInv
<1>3. QED
  BY <1>1, <1>2, PTL DEF Spec

(* The initial value is not a tree. *)
LEMMA TreesAreTrees == NoTree \notin Trees
<1>1. NoTree # END
  BY DEF NoTree, END
<1>2. ASSUME NEW k \in 1 .. MaxLength, NEW s \in Grammar[k].seq PROVE s.tree # NoTree
  <2>1. ProperTree("seq", s)
    BY AllLevelsProper DEF Proper, Nonterminals
  <2>2. QED
    BY <2>1 DEF ProperTree
<1>3. NoTree \notin SeqTrees
  BY <1>2 DEF SeqTrees
<1>4. QED
  BY <1>1, <1>3 DEF Trees

(* The invariant implies TypeOK ... *)
LEMMA InvTypes ==
  ASSUME ParserInv
  PROVE  TypeOK
<1>1. stack \in Seq(Frames)
  <2>1. Fine(text, stack, position, value) => stack \in Seq(Frames)
    BY DEF Fine
  <2>2. CASE outcome \in {"parsing", "error"}
    BY <2>1, <2>2, TextBounds DEF ParserInv, ReadingInv
  <2>3. CASE outcome \in {"parsed", "refused"}
    <3>1. stack = <<>>
      BY <2>3 DEF ParserInv, ResultsInv
    <3>2. QED
      BY <3>1
  <2>4. QED
    BY <2>2, <2>3 DEF ParserInv, ResultsInv
<1>2. ASSUME NEW frame \in ToSet(stack)
      PROVE  /\ frame.at \in {"exp.quantifier", "seq.next", "rseq.prec", "next", "prec", "sep", "allExpr.more"}
                  => Len(frame.kept) = 1
             /\ frame.at = "domain.quantifier" => frame.kept # <<>>
             /\ \A k \in DOMAIN frame.kept : frame.kept[k] # NoTree
  <2>1. frame \in Frames
    <3>1. PICK i \in DOMAIN stack : frame = stack[i]
      BY DEF ToSet
    <3>2. QED
      BY <1>1, <3>1
  <2>2. frame.kept \in Seq(Trees)
    BY <2>1, FrameIs
  <2>3. \A k \in DOMAIN frame.kept : frame.kept[k] # NoTree
    BY <2>2, TreesAreTrees
  <2>4. QED
    BY <2>1, <2>3, FrameIs DEF Operated
<1>3. outcome = "parsing" => position \in DOMAIN text
  BY DEF ParserInv, ReadingInv, TextInv
<1>4. Len(results) <= MaxParses
  BY DEF ParserInv, ResultsInv
<1>5. QED
  BY <1>2, <1>3, <1>4 DEF TypeOK

(* ... and ParseIsExact. *)
LEMMA InvExact ==
  ASSUME ParserInv
  PROVE  ParseIsExact
<1>1. TypeOK
  BY InvTypes
<1>2. ASSUME NEW k \in DOMAIN results PROVE Sentence(Front(text), results[k].tree) \in Language
  <2>1. results[k] \in Parsed(text)
    BY DEF ParserInv, ResultsInv
  <2>2. QED
    BY <2>1 DEF Parsed
<1>3. ASSUME text \in Viable PROVE outcome # "error"
  <2>1. PICK s \in Language : text \in Prefixes(Append(s.text, Stop))
    BY <1>3 DEF Viable
  <2> DEFINE w == Append(s.text, Stop)
  <2>2. Full(w)
    BY DEF Full
  <2> HIDE DEF w
  <2>3. PICK l \in 0 .. Len(w) : text = SubSeq(w, 1, l)
    BY <2>1 DEF Prefixes, w
  <2>4. Word(w) /\ w \in Seq(Alphabet) /\ Len(w) \in Nat
    BY <2>2, FullWord DEF Word
  <2>5. Len(text) = l /\ \A i \in 1 .. l : text[i] = w[i]
    <3>1. l \in Nat /\ l <= Len(w)
      BY <2>4
    <3> DEFINE v == SubSeq(w, 1, l)
    <3>2. Len(v) = l /\ \A i \in 1 .. l : v[i] = w[i]
      BY <2>4, <3>1
    <3>3. QED
      BY <2>3, <3>2
  <2>6. Extends(w)
    BY <2>4, <2>5 DEF Extends
  <2>7. QED
    BY <2>2, <2>6 DEF ParserInv, ViableInv
<1>4. QED
  BY <1>1, <1>2, <1>3 DEF ParseIsExact

(***************************************************************************)
(* For every set of tokens, every length and any number of calls: parse      *)
(* accepts sentences only and returns the tree of each, and it fails on a    *)
(* token only when no sentence has that token there.  The one token of       *)
(* look-ahead and the early returns of the recursive descent lose nothing   *)
(* of the grammar in which "-> $" ends a path (PatternGrammar).              *)
(***************************************************************************)
THEOREM ParsingIsExact == Spec => []ParseIsExact
<1>1. ParserInv => ParseIsExact
  BY InvExact
<1>2. QED
  BY <1>1, ParserIsInvariant, PTL

-----------------------------------------------------------------------------
(* RandomExpressionGenerator: what it draws is in the language.  The texts   *)
(* of the sentences of a nonterminal.                                       *)
Texts(nt) == {s.text : s \in UNION {Grammar[n][nt] : n \in 1 .. MaxLength}}

(* A text is one of a sentence of as many tokens. *)
LEMMA TextOf ==
  ASSUME NEW nt \in Nonterminals, NEW u \in Texts(nt)
  PROVE  /\ u \in Seq(Letters) /\ Len(u) \in 1 .. MaxLength /\ Len(u) \in Nat \ {0}
         /\ \E s \in Grammar[Len(u)][nt] : s.text = u
<1>1. PICK n \in 1 .. MaxLength : \E s \in Grammar[n][nt] : s.text = u
  BY DEF Texts
<1>2. PICK s \in Grammar[n][nt] : s.text = u
  BY <1>1
<1>3. ProperText(n, nt, s)
  BY AllLevelsProper DEF Proper
<1>4. s.text \in Seq(Letters) /\ Len(s.text) = n /\ n \in Nat \ {0}
  BY <1>3, LengthBound DEF ProperText
<1>5. QED
  BY <1>2, <1>4

(* A sentence has a text. *)
LEMMA TextIs ==
  ASSUME NEW n \in 1 .. MaxLength, NEW nt, NEW s \in Grammar[n][nt]
  PROVE  s.text \in Texts(nt)
  BY DEF Texts

(* The productions that the generator uses, over texts. *)
LEMMA TextGrows ==
  /\ Texts("exp") \subseteq Texts("plain") /\ Texts("exp") \subseteq Texts("rseq")
  /\ Texts("plain") \subseteq Texts("seq") /\ Texts("seq") \subseteq Texts("query")
<1>1. ASSUME NEW n \in 1 .. MaxLength
      PROVE  /\ Grammar[n].exp \subseteq Grammar[n].plain /\ Grammar[n].exp \subseteq Grammar[n].rseq
             /\ Grammar[n].plain \subseteq Grammar[n].seq /\ Grammar[n].seq \subseteq Grammar[n].query
  BY PlainCases, RseqCases, SeqCases, QueryCases
<1>2. QED
  BY <1>1 DEF Texts

(* The two sides of a token in a text, and the split they are. *)
LEMMA TextSplit ==
  ASSUME NEW a \in Nonterminals, NEW b \in Nonterminals, NEW u \in Texts(a), NEW v \in Texts(b),
         Len(u) + 1 + Len(v) <= MaxLength
  PROVE  \E n \in 1 .. MaxLength : \E i \in Splits(n) :
           \E l \in Grammar[i][a], r \in Grammar[n - 1 - i][b] :
             l.text = u /\ r.text = v
<1> DEFINE i == Len(u)
           j == Len(v)
           n == i + 1 + j
<1>1. /\ i \in Nat \ {0} /\ j \in Nat \ {0} /\ MaxLength \in Nat /\ n <= MaxLength
      /\ (\E l \in Grammar[i][a] : l.text = u) /\ (\E r \in Grammar[j][b] : r.text = v)
  BY TextOf, LengthBound
<1> HIDE DEF i, j
<1>2. n \in 1 .. MaxLength /\ i \in Splits(n) /\ n - 1 - i = j
  BY <1>1 DEF Splits
<1>3. (\E l \in Grammar[i][a] : l.text = u) /\ (\E r \in Grammar[n - 1 - i][b] : r.text = v)
  BY <1>1, <1>2
<1> HIDE DEF n
<1>4. QED
  BY <1>2, <1>3

(* The text of a link. *)
LEMMA LinkText ==
  ASSUME NEW l, NEW r, NEW type \in {"NEXT", "PREC"}, NEW t \in TokensOf({type}), NEW lefts, NEW rights, l \in lefts, r \in rights
  PROVE  /\ Chained(l, t, r) \in Links(type, lefts, rights)
         /\ Chained(l, t, r).text = l.text \o <<t>> \o r.text
<1>1. Chained(l, t, r) \in Links(type, lefts, rights)
  BY DEF Links
<1>2. Chained(l, t, r).text = Around(l, t, r)
  BY DEF Chained, Sentence
<1>3. QED
  BY <1>1, <1>2 DEF Around

(* Two expressions, or an expression and a path, around an arrow. *)
LEMMA NextText ==
  ASSUME NEW t \in TokensOf({"NEXT"}), NEW u \in Texts("exp"), NEW v \in Texts("plain"), Len(u) + 1 + Len(v) <= MaxLength
  PROVE  u \o <<t>> \o v \in Texts("plain")
<1>1. PICK n \in 1 .. MaxLength : \E i \in Splits(n) :
        \E l \in Grammar[i].exp, r \in Grammar[n - 1 - i].plain : l.text = u /\ r.text = v
  <2>1. "exp" \in Nonterminals /\ "plain" \in Nonterminals
    BY DEF Nonterminals
  <2>2. QED
    BY <2>1, TextSplit
<1>2. PICK i \in Splits(n) : \E l \in Grammar[i].exp, r \in Grammar[n - 1 - i].plain : l.text = u /\ r.text = v
  BY <1>1
<1>3. PICK l \in Grammar[i].exp, r \in Grammar[n - 1 - i].plain : l.text = u /\ r.text = v
  BY <1>2
<1>4. Chained(l, t, r) \in Links("NEXT", Grammar[i].exp, Grammar[n - 1 - i].plain) /\ Chained(l, t, r).text = u \o <<t>> \o v
  BY <1>3, LinkText
<1>5. Chained(l, t, r) \in Grammar[n].plain
  BY <1>4, PlainCases
<1>6. QED
  BY <1>4, <1>5, TextIs

LEMMA PrecText ==
  ASSUME NEW t \in TokensOf({"PREC"}), NEW u \in Texts("exp"), NEW v \in Texts("rseq"), Len(u) + 1 + Len(v) <= MaxLength
  PROVE  u \o <<t>> \o v \in Texts("plain") /\ u \o <<t>> \o v \in Texts("rseq")
<1>1. PICK n \in 1 .. MaxLength : \E i \in Splits(n) :
        \E l \in Grammar[i].exp, r \in Grammar[n - 1 - i].rseq : l.text = u /\ r.text = v
  <2>1. "exp" \in Nonterminals /\ "rseq" \in Nonterminals
    BY DEF Nonterminals
  <2>2. QED
    BY <2>1, TextSplit
<1>2. PICK i \in Splits(n) : \E l \in Grammar[i].exp, r \in Grammar[n - 1 - i].rseq : l.text = u /\ r.text = v
  BY <1>1
<1>3. PICK l \in Grammar[i].exp, r \in Grammar[n - 1 - i].rseq : l.text = u /\ r.text = v
  BY <1>2
<1>4. Chained(l, t, r) \in Links("PREC", Grammar[i].exp, Grammar[n - 1 - i].rseq) /\ Chained(l, t, r).text = u \o <<t>> \o v
  BY <1>3, LinkText
<1>5. Chained(l, t, r) \in Grammar[n].plain /\ Chained(l, t, r) \in Grammar[n].rseq
  BY <1>4, PlainCases, RseqCases
<1>6. QED
  BY <1>4, <1>5, TextIs

(* A path with more paths behind it. *)
LEMMA SepText ==
  ASSUME NEW t \in TokensOf({"SEP"}), NEW u \in Texts("seq"), NEW v \in Texts("query"), Len(u) + 1 + Len(v) <= MaxLength
  PROVE  u \o <<t>> \o v \in Texts("query")
<1>1. PICK n \in 1 .. MaxLength : \E i \in Splits(n) :
        \E l \in Grammar[i].seq, r \in Grammar[n - 1 - i].query : l.text = u /\ r.text = v
  <2>1. "seq" \in Nonterminals /\ "query" \in Nonterminals
    BY DEF Nonterminals
  <2>2. QED
    BY <2>1, TextSplit
<1>2. PICK i \in Splits(n) : \E l \in Grammar[i].seq, r \in Grammar[n - 1 - i].query : l.text = u /\ r.text = v
  BY <1>1
<1>3. PICK l \in Grammar[i].seq, r \in Grammar[n - 1 - i].query : l.text = u /\ r.text = v
  BY <1>2
<1> DEFINE s == Sentence(Around(l, t, r), SEP(l.tree, r.tree))
<1>4. s \in Grammar[n].query
  BY QueryCases
<1>5. s.text = u \o <<t>> \o v
  BY <1>3 DEF Sentence, Around
<1>6. QED
  BY <1>4, <1>5, TextIs

(* A boundary at the end of a path, or at its start. *)
LEMMA EndText ==
  ASSUME NEW t \in TokensOf({"NEXT"}), NEW e \in TokensOf({"END"}), NEW u \in Texts("exp"), Len(u) + 2 <= MaxLength
  PROVE  u \o <<t>> \o <<e>> \in Texts("plain")
<1> DEFINE i == Len(u)
           n == i + 2
           r == Sentence(<<e>>, END)
<1>1. i \in Nat \ {0} /\ MaxLength \in Nat /\ n <= MaxLength /\ (\E l \in Grammar[i].exp : l.text = u)
  BY TextOf, LengthBound DEF Nonterminals
<1>2. r \in Boundary /\ r.text = <<e>>
  BY BoundaryCases DEF Sentence
<1> HIDE DEF i, r
<1>3. n \in 1 .. MaxLength /\ n - 2 = i /\ n > 2
  BY <1>1
<1> HIDE DEF n
<1>4. PICK l \in Grammar[n - 2].exp : l.text = u
  BY <1>1, <1>3
<1>5. Chained(l, t, r) \in Links("NEXT", Grammar[n - 2].exp, Boundary) /\ Chained(l, t, r).text = u \o <<t>> \o <<e>>
  BY <1>2, <1>4, LinkText
<1>6. Chained(l, t, r) \in Grammar[n].plain
  BY <1>3, <1>5, PlainCases
<1>7. QED
  BY <1>3, <1>5, <1>6, TextIs

LEMMA StartText ==
  ASSUME NEW t \in TokensOf({"PREC"}), NEW e \in TokensOf({"END"}), NEW u \in Texts("rseq"), Len(u) + 2 <= MaxLength
  PROVE  <<e>> \o <<t>> \o u \in Texts("seq")
<1> DEFINE i == Len(u)
           n == i + 2
           l == Sentence(<<e>>, END)
<1>1. i \in Nat \ {0} /\ MaxLength \in Nat /\ n <= MaxLength /\ (\E r \in Grammar[i].rseq : r.text = u)
  BY TextOf, LengthBound DEF Nonterminals
<1>2. l \in Boundary /\ l.text = <<e>>
  BY BoundaryCases DEF Sentence
<1> HIDE DEF i, l
<1>3. n \in 1 .. MaxLength /\ n - 2 = i /\ n > 2
  BY <1>1
<1> HIDE DEF n
<1>4. PICK r \in Grammar[n - 2].rseq : r.text = u
  BY <1>1, <1>3
<1>5. Chained(l, t, r) \in Links("PREC", Boundary, Grammar[n - 2].rseq) /\ Chained(l, t, r).text = <<e>> \o <<t>> \o u
  BY <1>2, <1>4, LinkText
<1>6. Chained(l, t, r) \in Grammar[n].seq
  BY <1>3, <1>5, SeqCases
<1>7. QED
  BY <1>3, <1>5, <1>6, TextIs

(* A path in parentheses with a quantifier. *)
LEMMA GroupText ==
  ASSUME NEW u \in Texts("seq"), NEW q \in QuantifierTokens, Len(u) + 3 <= MaxLength
  PROVE  Append(<<Token("LPAREN", "")>> \o u \o <<Token("RPAREN", "")>>, q) \in Texts("exp")
<1> DEFINE i == Len(u)
           n == i + 3
<1>1. i \in Nat \ {0} /\ MaxLength \in Nat /\ n <= MaxLength /\ (\E s \in Grammar[i].seq : s.text = u)
  BY TextOf, LengthBound DEF Nonterminals
<1> HIDE DEF i
<1>2. n \in 1 .. MaxLength /\ n - 3 = i /\ n > 3 /\ n - 3 \in 1 .. MaxLength
  BY <1>1
<1> HIDE DEF n
<1>3. PICK s \in Grammar[n - 3].seq : s.text = u
  BY <1>1, <1>2
<1> DEFINE l == Sentence(s.text, <<s.tree>>)
           g == Quantified(InParentheses(l), q)
<1>4. l \in Grammar[n - 3].list
  BY <1>2, ListCases
<1>5. g \in Grammar[n].exp
  BY <1>2, <1>4, ExpCases
<1>6. g.text = Append(<<Token("LPAREN", "")>> \o u \o <<Token("RPAREN", "")>>, q)
  BY <1>3 DEF Quantified, InParentheses, Sentence
<1>7. QED
  BY <1>2, <1>5, <1>6, TextIs

(* A key or an anchor, and a key with a quantifier. *)
LEMMA KeyText ==
  ASSUME NEW t \in TokensOf(Keys)
  PROVE  <<t>> \in Texts("exp")
<1> DEFINE s == Sentence(<<t>>, t.content)
<1>1. 1 \in 1 .. MaxLength
  BY LengthBound
<1>2. s \in Grammar[1].exp
  BY <1>1, ExpCases
<1>3. s.text = <<t>>
  BY DEF Sentence
<1>4. QED
  BY <1>1, <1>2, <1>3, TextIs

LEMMA RepeatedText ==
  ASSUME NEW t \in TokensOf({"KEY"}), NEW q \in QuantifierTokens, 2 <= MaxLength
  PROVE  <<t, q>> \in Texts("exp")
<1> DEFINE s == Quantified(Sentence(<<t>>, t.content), q)
<1>1. 2 \in 1 .. MaxLength
  BY LengthBound
<1>2. s \in Grammar[2].exp
  BY <1>1, ExpCases
<1>3. s.text = <<t, q>>
  <2>1. s.text = Append(<<t>>, q)
    BY DEF Sentence, Quantified
  <2>2. QED
    BY <2>1
<1>4. QED
  BY <1>1, <1>2, <1>3, TextIs

-----------------------------------------------------------------------------
(* The tokens that are drawn are tokens of the lexer, and the longest text   *)
(* that can be drawn is not longer than those that the grammar has.          *)
DrawsFit ==
  /\ Words \subseteq TokensOf(Keys) /\ Repeats \subseteq QuantifierTokens
  /\ {Unnumbered("PREC"), Unnumbered("NEXT")} \subseteq Tokens
  /\ {Written("END"), Written("SEP"), Written("LPAREN"), Written("RPAREN")} \subseteq Tokens
  /\ MaxDepth \in Nat /\ MaxTokens \in Nat /\ MaxPaths \in Nat
  /\ MaxPaths * (MaxTokens + 1) <= MaxLength

(* The types of the tokens that are written. *)
LEMMA DrawnTokens ==
  ASSUME DrawsFit
  PROVE  /\ Unnumbered("PREC") \in TokensOf({"PREC"}) /\ Unnumbered("NEXT") \in TokensOf({"NEXT"})
         /\ Written("END") \in TokensOf({"END"}) /\ Written("SEP") \in TokensOf({"SEP"})
<1>1. Unnumbered("PREC").type = "PREC" /\ Unnumbered("NEXT").type = "NEXT" /\ Written("END").type = "END" /\ Written("SEP").type = "SEP"
  BY TokenType DEF Unnumbered, Written
<1>2. QED
  BY <1>1 DEF DrawsFit, TokensOf

(* They are letters. *)
LEMMA DrawnLetters ==
  ASSUME DrawsFit
  PROVE  {Unnumbered("PREC"), Unnumbered("NEXT"), Written("END"), Written("SEP")} \subseteq Letters
<1>1. Unnumbered("PREC") \in Letters
  BY DrawnTokens, TokenIsLetter
<1>2. Unnumbered("NEXT") \in Letters
  BY DrawnTokens, TokenIsLetter
<1>3. Written("END") \in Letters
  BY DrawnTokens, TokenIsLetter
<1>4. Written("SEP") \in Letters
  BY DrawnTokens, TokenIsLetter
<1>5. QED
  BY <1>1, <1>2, <1>3, <1>4

(* Texts and tokens, joined in one order or the other. *)
LEMMA PairIs ==
  ASSUME NEW L, NEW x \in L, NEW y \in L
  PROVE  <<x, y>> = <<x>> \o <<y>> /\ <<x, y>> \in Seq(L) /\ <<x>> \in Seq(L) /\ <<y>> \in Seq(L) /\ Len(<<x, y>>) = 2
<1> DEFINE two == <<x, y>>
           one == <<x>>
           other == <<y>>
<1>1. /\ two \in Seq(L) /\ one \in Seq(L) /\ other \in Seq(L)
      /\ Len(two) = 2 /\ Len(one) = 1 /\ Len(other) = 1 /\ two[1] = x /\ two[2] = y /\ one[1] = x /\ other[1] = y
  OBVIOUS
<1> HIDE DEF two, one, other
<1>2. /\ one \o other \in Seq(L) /\ Len(one \o other) = Len(one) + Len(other)
      /\ \A i \in 1 .. Len(one) + Len(other) : (one \o other)[i] = IF i <= Len(one) THEN one[i] ELSE other[i - Len(one)]
  BY <1>1, ConcatProperties
<1>3. Len(one \o other) = 2 /\ (one \o other)[1] = x /\ (one \o other)[2] = y
  BY <1>1, <1>2
<1>4. \A i \in 1 .. Len(two) : two[i] = (one \o other)[i]
  BY <1>1, <1>3
<1>5. two = one \o other
  BY <1>1, <1>2, <1>3, <1>4, SeqEqual
<1>6. QED
  BY <1>1, <1>5 DEF two, one, other

LEMMA AppendPair ==
  ASSUME NEW L, NEW u \in Seq(L), NEW x \in L, NEW y \in L
  PROVE  /\ u \o <<x, y>> = u \o <<x>> \o <<y>>
         /\ u \o <<x, y>> \in Seq(L) /\ Len(u \o <<x, y>>) = Len(u) + 2
<1> DEFINE two == <<x, y>>
           one == <<x>>
           other == <<y>>
<1>1. two = one \o other /\ two \in Seq(L) /\ one \in Seq(L) /\ other \in Seq(L) /\ Len(two) = 2
  BY PairIs
<1> HIDE DEF two, one, other
<1>2. (u \o one) \o other = u \o (one \o other)
  BY <1>1, ConcatAssociative
<1>3. u \o two \in Seq(L) /\ Len(u \o two) = Len(u) + Len(two)
  BY <1>1, ConcatProperties
<1>4. QED
  BY <1>1, <1>2, <1>3 DEF two, one, other

LEMMA PairAndText ==
  ASSUME NEW L, NEW u \in Seq(L), NEW x \in L, NEW y \in L
  PROVE  /\ <<x, y>> \o u = <<x>> \o <<y>> \o u
         /\ <<x, y>> \o u \in Seq(L) /\ Len(<<x, y>> \o u) = Len(u) + 2
<1> DEFINE two == <<x, y>>
           one == <<x>>
           other == <<y>>
<1>1. two = one \o other /\ two \in Seq(L) /\ Len(two) = 2 /\ Len(u) \in Nat
  BY PairIs
<1> HIDE DEF two, one, other
<1>2. two \o u \in Seq(L) /\ Len(two \o u) = Len(two) + Len(u)
  BY <1>1, ConcatProperties
<1>3. Len(two \o u) = Len(u) + 2
  BY <1>1, <1>2
<1>4. QED
  BY <1>1, <1>2, <1>3 DEF two, one, other

LEMMA AroundEnds ==
  ASSUME NEW L, NEW u \in Seq(L), NEW t \in L, NEW v \in Seq(L), NEW end \in Seq(L)
  PROVE  (u \o <<t>> \o v) \o end = u \o <<t>> \o (v \o end)
<1> DEFINE mid == <<t>>
           left == u \o mid
<1>1. mid \in Seq(L)
  OBVIOUS
<1> HIDE DEF mid
<1>2. left \in Seq(L)
  BY <1>1, ConcatProperties
<1> HIDE DEF left
<1>3. (left \o v) \o end = left \o (v \o end)
  BY <1>2, ConcatAssociative
<1>4. QED
  BY <1>3 DEF left, mid

(* What follows an expression. *)
LEMMA FollowedIs ==
  ASSUME NEW a, NEW b, NEW arrow, NEW p \in FollowedBy(arrow, a, b)
  PROVE  \E e \in a, f \in b : p = Arrowed(arrow, e, f)
  BY DEF FollowedBy

(* Expressions joined by arrows in one direction: what they are if they are  *)
(* not too long, with a boundary at the end and without.                     *)
Forward(b) ==
  /\ b \in Seq(Letters)
  /\ Len(b) <= MaxLength => b \in Texts("plain")
  /\ Len(b) + 2 <= MaxLength => b \o <<Unnumbered("NEXT"), Written("END")>> \in Texts("plain")
Backward(b) ==
  /\ b \in Seq(Letters)
  /\ Len(b) <= MaxLength => b \in Texts("plain") /\ b \in Texts("rseq")

LEMMA OneDrawn ==
  ASSUME DrawsFit, NEW e \in Texts("exp")
  PROVE  Forward(e) /\ Backward(e)
<1>1. e \in Seq(Letters) /\ e \in Texts("plain") /\ e \in Texts("rseq")
  BY TextOf, TextGrows DEF Nonterminals
<1>2. ASSUME Len(e) + 2 <= MaxLength PROVE e \o <<Unnumbered("NEXT"), Written("END")>> \in Texts("plain")
  <2> DEFINE x == Unnumbered("NEXT")
             y == Written("END")
  <2>1. x \in TokensOf({"NEXT"}) /\ y \in TokensOf({"END"}) /\ x \in Letters /\ y \in Letters
    BY DrawnTokens, DrawnLetters
  <2> HIDE DEF x, y
  <2>2. e \o <<x>> \o <<y>> \in Texts("plain")
    BY <1>2, <2>1, EndText
  <2>3. e \o <<x, y>> = e \o <<x>> \o <<y>>
    BY <1>1, <2>1, AppendPair
  <2>4. QED
    BY <2>2, <2>3 DEF x, y
<1>3. QED
  BY <1>1, <1>2 DEF Forward, Backward

LEMMA ForwardGrows ==
  ASSUME DrawsFit, NEW e \in Texts("exp"), NEW b, Forward(b)
  PROVE  Forward(Arrowed("NEXT", e, b))
<1> DEFINE x == Unnumbered("NEXT")
           y == Written("END")
           all == e \o <<x>> \o b
<1>1. x \in TokensOf({"NEXT"}) /\ y \in TokensOf({"END"}) /\ x \in Letters /\ y \in Letters
  BY DrawnTokens, DrawnLetters
<1>2. /\ e \in Seq(Letters) /\ Len(e) \in Nat \ {0} /\ b \in Seq(Letters) /\ Len(b) \in Nat /\ MaxLength \in Nat
      /\ Len(b) <= MaxLength => b \in Texts("plain")
      /\ Len(b) + 2 <= MaxLength => b \o <<x, y>> \in Texts("plain")
  BY TextOf, LengthBound DEF Nonterminals, Forward
<1> HIDE DEF x, y
<1>3. /\ all \in Seq(Letters) /\ Len(all) = Len(e) + 1 + Len(b) /\ all \o <<x, y>> = e \o <<x>> \o (b \o <<x, y>>)
      /\ Len(b \o <<x, y>>) = Len(b) + 2
  <2>1. all \in Seq(Letters) /\ Len(all) = Len(e) + 1 + Len(b)
    BY <1>1, <1>2, AroundProper
  <2>2. Len(b \o <<x, y>>) = Len(b) + 2
    BY <1>1, <1>2, AppendPair
  <2> DEFINE end == <<x, y>>
  <2>3. end \in Seq(Letters)
    BY <1>1, PairIs
  <2> HIDE DEF end
  <2>4. all \o end = e \o <<x>> \o (b \o end)
    BY <1>1, <1>2, <2>3, AroundEnds
  <2>5. QED
    BY <2>1, <2>2, <2>4 DEF end
<1>4. ASSUME Len(all) <= MaxLength PROVE all \in Texts("plain")
  <2>1. Len(b) <= MaxLength /\ Len(e) + 1 + Len(b) <= MaxLength
    BY <1>2, <1>3, <1>4
  <2>2. QED
    BY <1>1, <1>2, <2>1, NextText
<1>5. ASSUME Len(all) + 2 <= MaxLength PROVE all \o <<x, y>> \in Texts("plain")
  <2> DEFINE c == b \o <<x, y>>
  <2>1. Len(b) + 2 <= MaxLength /\ Len(e) + 1 + (Len(b) + 2) <= MaxLength
    BY <1>2, <1>3, <1>5
  <2>2. c \in Texts("plain") /\ Len(c) = Len(b) + 2
    BY <1>2, <1>3, <2>1
  <2> HIDE DEF c
  <2>3. e \o <<x>> \o c \in Texts("plain")
    BY <1>1, <2>1, <2>2, NextText
  <2>4. QED
    BY <1>3, <2>3 DEF c
<1>6. QED
  BY <1>3, <1>4, <1>5 DEF Forward, Arrowed, x, y

LEMMA BackwardGrows ==
  ASSUME DrawsFit, NEW e \in Texts("exp"), NEW b, Backward(b)
  PROVE  Backward(Arrowed("PREC", e, b))
<1> DEFINE x == Unnumbered("PREC")
           all == e \o <<x>> \o b
<1>1. x \in TokensOf({"PREC"}) /\ x \in Letters
  BY DrawnTokens, DrawnLetters
<1>2. /\ e \in Seq(Letters) /\ Len(e) \in Nat \ {0} /\ b \in Seq(Letters) /\ Len(b) \in Nat /\ MaxLength \in Nat
      /\ Len(b) <= MaxLength => b \in Texts("rseq")
  BY TextOf, LengthBound DEF Nonterminals, Backward
<1> HIDE DEF x
<1>3. all \in Seq(Letters) /\ Len(all) = Len(e) + 1 + Len(b)
  BY <1>1, <1>2, AroundProper
<1>4. ASSUME Len(all) <= MaxLength PROVE all \in Texts("plain") /\ all \in Texts("rseq")
  <2>1. Len(b) <= MaxLength /\ Len(e) + 1 + Len(b) <= MaxLength
    BY <1>2, <1>3, <1>4
  <2>2. QED
    BY <1>1, <1>2, <2>1, PrecText
<1>5. QED
  BY <1>3, <1>4 DEF Backward, Arrowed, x

(* Whatever sequence returns is a path of the language, when its             *)
(* expressions are expressions of the language.                             *)
LEMMA SequencesAreSeqs ==
  ASSUME DrawsFit, MaxTokens <= MaxLength, NEW expressions, NEW size, NEW s \in SequencesOver(expressions, size),
         \A e \in expressions : Len(e) <= MaxTokens => e \in Texts("exp")
  PROVE  s \in Texts("seq") /\ Len(s) <= MaxTokens
<1> DEFINE short == {e \in expressions : Len(e) <= MaxTokens}
           all(arrow) == Bodies(arrow, short, size) \cup {Bounded(arrow, body) : body \in Bodies(arrow, short, size)}
<1>1. s \in all("NEXT") \cup all("PREC") /\ Len(s) <= MaxTokens
  BY DEF SequencesOver
<1>2. short \subseteq Texts("exp")
  OBVIOUS
<1> HIDE DEF short
<1>3. ASSUME NEW b \in Bodies("NEXT", short, size) PROVE Forward(b)
  <2> DEFINE pairs == FollowedBy("NEXT", short, short)
             triples == FollowedBy("NEXT", short, pairs)
  <2>1. b \in short \/ b \in pairs \/ b \in triples
    BY <1>3 DEF Bodies
  <2>2. ASSUME NEW p \in pairs PROVE Forward(p)
    <3>1. PICK e \in short, f \in short : p = Arrowed("NEXT", e, f)
      BY FollowedIs
    <3>2. QED
      BY <1>2, <3>1, OneDrawn, ForwardGrows
  <2>3. ASSUME NEW p \in triples PROVE Forward(p)
    <3>1. PICK e \in short, f \in pairs : p = Arrowed("NEXT", e, f)
      BY FollowedIs
    <3>2. QED
      BY <1>2, <2>2, <3>1, ForwardGrows
  <2>4. QED
    BY <1>2, <2>1, <2>2, <2>3, OneDrawn
<1>4. ASSUME NEW b \in Bodies("PREC", short, size) PROVE Backward(b)
  <2> DEFINE pairs == FollowedBy("PREC", short, short)
             triples == FollowedBy("PREC", short, pairs)
  <2>1. b \in short \/ b \in pairs \/ b \in triples
    BY <1>4 DEF Bodies
  <2>2. ASSUME NEW p \in pairs PROVE Backward(p)
    <3>1. PICK e \in short, f \in short : p = Arrowed("PREC", e, f)
      BY FollowedIs
    <3>2. QED
      BY <1>2, <3>1, OneDrawn, BackwardGrows
  <2>3. ASSUME NEW p \in triples PROVE Backward(p)
    <3>1. PICK e \in short, f \in pairs : p = Arrowed("PREC", e, f)
      BY FollowedIs
    <3>2. QED
      BY <1>2, <2>2, <3>1, BackwardGrows
  <2>4. QED
    BY <1>2, <2>1, <2>2, <2>3, OneDrawn
<1>5. MaxTokens \in Nat /\ MaxLength \in Nat
  BY LengthBound DEF DrawsFit
<1>6. ASSUME NEW b \in Bodies("NEXT", short, size), s = b \/ s = Bounded("NEXT", b)
      PROVE  s \in Texts("plain")
  <2>1. Forward(b) /\ b \in Seq(Letters) /\ Len(b) \in Nat
    BY <1>3, <1>6 DEF Forward
  <2> DEFINE x == Unnumbered("NEXT")
             y == Written("END")
  <2>2. x \in Letters /\ y \in Letters
    BY DrawnLetters
  <2>3. Bounded("NEXT", b) = b \o <<x, y>>
    BY DEF Bounded
  <2>4. Forward(b) => (Len(b) + 2 <= MaxLength => b \o <<x, y>> \in Texts("plain"))
    BY DEF Forward
  <2>5. Forward(b) => (Len(b) <= MaxLength => b \in Texts("plain"))
    BY DEF Forward
  <2> HIDE DEF x, y
  <2>6. Len(b \o <<x, y>>) = Len(b) + 2
    BY <2>1, <2>2, AppendPair
  <2>7. CASE s = b
    <3>1. Len(b) <= MaxLength
      BY <1>1, <1>5, <2>1, <2>7
    <3>2. QED
      BY <2>1, <2>5, <2>7, <3>1
  <2>8. CASE s = Bounded("NEXT", b)
    <3>1. s = b \o <<x, y>>
      BY <2>3, <2>8
    <3>2. Len(s) = Len(b) + 2
      BY <2>6, <3>1
    <3>3. Len(b) + 2 <= MaxLength
      BY <1>1, <1>5, <2>1, <3>2
    <3>4. QED
      BY <2>1, <2>4, <3>1, <3>3
  <2>9. QED
    BY <1>6, <2>7, <2>8
<1>7. ASSUME NEW b \in Bodies("PREC", short, size), s = b \/ s = Bounded("PREC", b)
      PROVE  s \in Texts("seq")
  <2>1. Backward(b) /\ b \in Seq(Letters) /\ Len(b) \in Nat
    BY <1>4, <1>7 DEF Backward
  <2> DEFINE x == Unnumbered("PREC")
             y == Written("END")
  <2>2. x \in Letters /\ y \in Letters /\ x \in TokensOf({"PREC"}) /\ y \in TokensOf({"END"})
    BY DrawnLetters, DrawnTokens
  <2>3. Bounded("PREC", b) = <<y, x>> \o b
    BY DEF Bounded
  <2>4. Len(b) <= MaxLength => b \in Texts("plain") /\ b \in Texts("rseq")
    BY <2>1 DEF Backward
  <2> HIDE DEF x, y
  <2>5. Len(<<y, x>> \o b) = Len(b) + 2 /\ <<y, x>> \o b = <<y>> \o <<x>> \o b
    BY <2>1, <2>2, PairAndText
  <2>6. CASE s = b
    BY <1>1, <1>5, <2>1, <2>4, <2>6, TextGrows
  <2>7. CASE s = Bounded("PREC", b)
    <3>1. s = <<y, x>> \o b
      BY <2>3, <2>7
    <3>2. Len(s) = Len(b) + 2 /\ s = <<y>> \o <<x>> \o b
      BY <2>5, <3>1
    <3>3. Len(b) + 2 <= MaxLength /\ Len(b) <= MaxLength
      BY <1>1, <1>5, <2>1, <3>2
    <3>4. b \in Texts("rseq")
      BY <2>4, <3>3
    <3>5. QED
      BY <2>2, <3>2, <3>3, <3>4, StartText
  <2>8. QED
    BY <1>7, <2>6, <2>7
<1>8. s \in Texts("seq")
  BY <1>1, <1>6, <1>7, TextGrows
<1>9. QED
  BY <1>1, <1>8

-----------------------------------------------------------------------------
(* The recursion of exp, which ends at its depth. *)
Deeper(expressions) == Leaves \cup Grouped(SequencesOver(expressions, MaxSize))
Unfolded(n, g) ==
  /\ g = [d \in 0 .. n |-> g[d]]
  /\ g[0] = Leaves
  /\ \A d \in 1 .. n : g[d] = Deeper(g[d - 1])

LEMMA UnfoldedExists == \A n \in Nat : \E g : Unfolded(n, g)
<1> DEFINE S == {n \in Nat : ~ \E g : Unfolded(n, g)}
<1>1. SUFFICES ASSUME S # {} PROVE FALSE
  OBVIOUS
<1>2. PICK n \in S : \A m \in S : n <= m
  <2>1. S \subseteq Nat
    OBVIOUS
  <2> HIDE DEF S
  <2>2. QED
    BY <1>1, <2>1, Least
<1>3. n \in Nat /\ ~ \E g : Unfolded(n, g)
  OBVIOUS
<1>4. CASE n = 0
  <2> DEFINE g == [d \in 0 .. 0 |-> Leaves]
  <2>1. g = [d \in 0 .. 0 |-> g[d]] /\ g[0] = Leaves /\ \A d \in 1 .. 0 : FALSE
    OBVIOUS
  <2> HIDE DEF g
  <2>2. Unfolded(0, g)
    BY <2>1 DEF Unfolded
  <2>3. QED
    BY <1>3, <1>4, <2>2
<1>5. CASE n # 0
  <2>1. n - 1 \in Nat /\ ~ (n <= n - 1)
    BY <1>3, <1>5
  <2>2. PICK h : Unfolded(n - 1, h)
    <3>1. n - 1 \notin S
      BY <1>2, <2>1
    <3>2. QED
      BY <2>1, <3>1
  <2> DEFINE g == [d \in 0 .. n |-> IF d = n THEN Deeper(h[n - 1]) ELSE h[d]]
  <2> HIDE DEF S
  <2>3. g = [d \in 0 .. n |-> g[d]]
    OBVIOUS
  <2>4. g[n] = Deeper(h[n - 1]) /\ \A d \in 0 .. n - 1 : g[d] = h[d]
    BY <1>3, <2>1
  <2> HIDE DEF g
  <2>5. 0 \in 0 .. n - 1 /\ n - 1 \in 0 .. n - 1
    BY <2>1
  <2>6. \A d \in 1 .. n : g[d] = Deeper(g[d - 1])
    <3>1. ASSUME NEW d \in 1 .. n PROVE g[d] = Deeper(g[d - 1])
      <4>1. CASE d = n
        BY <2>4, <2>5, <4>1
      <4>2. CASE d # n
        <5>1. d \in 1 .. n - 1 /\ d \in 0 .. n - 1 /\ d - 1 \in 0 .. n - 1
          BY <1>3, <4>2
        <5>2. h[d] = Deeper(h[d - 1])
          BY <2>2, <5>1 DEF Unfolded
        <5>3. QED
          BY <2>4, <5>1, <5>2
      <4>3. QED
        BY <4>1, <4>2
    <3>2. QED
      BY <3>1
  <2>7. g[0] = Leaves
    BY <2>2, <2>4, <2>5 DEF Unfolded
  <2>8. Unfolded(n, g)
    BY <2>3, <2>6, <2>7 DEF Unfolded
  <2>9. QED
    BY <1>3, <2>8
<1>6. QED
  BY <1>4, <1>5

LEMMA ExpressionsUnfold ==
  ASSUME MaxDepth \in Nat
  PROVE  Unfolded(MaxDepth, Expressions)
<1> DEFINE Body(f, d) == Leaves \cup (IF d = 0 THEN {} ELSE Grouped(SequencesOver(f[d - 1], MaxSize)))
           IsFixed(f) == f = [d \in 0 .. MaxDepth |-> Body(f, d)]
<1>1. PICK g : Unfolded(MaxDepth, g)
  BY UnfoldedExists
<1>2. \A d \in 0 .. MaxDepth : g[d] = Body(g, d)
  <2>1. \A d \in 0 .. MaxDepth : d = 0 \/ d \in 1 .. MaxDepth
    OBVIOUS
  <2>2. QED
    BY <1>1, <2>1 DEF Unfolded, Deeper
<1>3. g = [d \in 0 .. MaxDepth |-> g[d]]
  BY <1>1 DEF Unfolded
<1>4. IsFixed(g)
  <2> HIDE DEF Body
  <2>1. [d \in 0 .. MaxDepth |-> g[d]] = [d \in 0 .. MaxDepth |-> Body(g, d)]
    BY <1>2
  <2>2. QED
    BY <1>3, <2>1
<1>5. IsFixed(Expressions)
  <2>1. Expressions = CHOOSE f : IsFixed(f)
    BY DEF Expressions
  <2> HIDE DEF IsFixed
  <2>2. QED
    BY <1>4, <2>1
<1> DEFINE e == Expressions
<1>6. IsFixed(e)
  BY <1>5
<1> HIDE DEF e
<1>7. \A d \in 0 .. MaxDepth : e[d] = Body(e, d)
  <2> HIDE DEF Body
  <2>1. QED
    BY <1>6
<1>8. e = [d \in 0 .. MaxDepth |-> e[d]]
  <2> HIDE DEF Body
  <2>1. QED
    BY <1>6
<1>9. e[0] = Leaves
  <2>1. 0 \in 0 .. MaxDepth /\ Body(e, 0) = Leaves
    OBVIOUS
  <2>2. QED
    BY <1>7, <2>1
<1>10. \A d \in 1 .. MaxDepth : e[d] = Deeper(e[d - 1])
  <2>1. \A d \in 1 .. MaxDepth : d \in 0 .. MaxDepth /\ d # 0
    OBVIOUS
  <2>2. \A d \in 1 .. MaxDepth : Body(e, d) = Deeper(e[d - 1])
    BY <2>1 DEF Deeper
  <2>3. QED
    BY <1>7, <2>1, <2>2
<1>11. QED
  BY <1>8, <1>9, <1>10 DEF Unfolded, e

(* A key or an anchor, with a quantifier or without. *)
LEMMA LeafText ==
  ASSUME DrawsFit, NEW e \in Leaves, Len(e) <= MaxLength
  PROVE  e \in Texts("exp")
<1>1. CASE \E w \in Words : e = <<w>>
  BY <1>1, KeyText DEF DrawsFit
<1>2. CASE \E w \in Words, r \in Repeats : w.type = "KEY" /\ e = <<w, r>>
  <2>1. PICK w \in Words, r \in Repeats : w.type = "KEY" /\ e = <<w, r>>
    BY <1>2
  <2>2. w \in TokensOf({"KEY"}) /\ r \in QuantifierTokens
    BY <2>1 DEF DrawsFit, TokensOf
  <2>3. 2 <= MaxLength
    BY <2>1
  <2>4. QED
    BY <2>1, <2>2, <2>3, RepeatedText
<1>3. QED
  BY <1>1, <1>2 DEF Leaves

(* A path in parentheses. *)
LEMMA GroupedText ==
  ASSUME DrawsFit, NEW bodies, \A b \in bodies : b \in Texts("seq"), NEW e \in Grouped(bodies), Len(e) <= MaxLength
  PROVE  e \in Texts("exp")
<1>1. PICK u \in bodies, q \in Repeats : e = InGroup(u, q)
  BY DEF Grouped
<1>2. u \in Texts("seq") /\ q \in QuantifierTokens
  BY <1>1 DEF DrawsFit
<1>3. e = Append(<<Token("LPAREN", "")>> \o u \o <<Token("RPAREN", "")>>, q)
  BY <1>1 DEF InGroup, Written
<1>4. Len(e) = Len(u) + 3
  <2> DEFINE l == Token("LPAREN", "")
             m == Token("RPAREN", "")
             opening == <<l>>
             closing == <<m>>
  <2>1. u \in Seq(Letters) /\ Len(u) \in Nat /\ l \in Letters /\ m \in Letters
    BY <1>2, TextOf, ParensAreLetters DEF Nonterminals
  <2>2. q \in Letters
    BY <1>2, TokenIsLetter DEF QuantifierTokens
  <2> HIDE DEF l, m
  <2>3. opening \in Seq(Letters) /\ closing \in Seq(Letters) /\ Len(opening) = 1 /\ Len(closing) = 1
    BY <2>1
  <2> HIDE DEF opening, closing
  <2>4. opening \o u \in Seq(Letters) /\ Len(opening \o u) = 1 + Len(u)
    <3>1. opening \o u \in Seq(Letters) /\ Len(opening \o u) = Len(opening) + Len(u)
      BY <2>1, <2>3, ConcatProperties
    <3>2. QED
      BY <2>3, <3>1
  <2> DEFINE left == opening \o u
             all == left \o closing
  <2>5. left \in Seq(Letters) /\ Len(left) = 1 + Len(u)
    BY <2>4
  <2> HIDE DEF left
  <2>6. all \in Seq(Letters) /\ Len(all) = Len(left) + 1
    BY <2>3, <2>5, ConcatProperties
  <2> HIDE DEF all
  <2>7. Len(Append(all, q)) = Len(all) + 1
    BY <2>2, <2>6, AppendProperties
  <2>8. e = Append(all, q)
    BY <1>3 DEF all, left, opening, closing, l, m
  <2>9. Len(all) = Len(u) + 2
    BY <2>1, <2>5, <2>6
  <2>10. QED
    BY <2>1, <2>7, <2>8, <2>9
<1>5. QED
  BY <1>2, <1>3, <1>4, GroupText

(* Every expression that is drawn, with groups to any depth, is one of the   *)
(* language.                                                                *)
LEMMA ExpressionsAreExps ==
  ASSUME DrawsFit, MaxTokens <= MaxLength
  PROVE  \A d \in 0 .. MaxDepth : \A e \in Expressions[d] : Len(e) <= MaxLength => e \in Texts("exp")
<1> DEFINE Wrong(d) == \E e \in Expressions[d] : Len(e) <= MaxLength /\ e \notin Texts("exp")
           S == {d \in 0 .. MaxDepth : Wrong(d)}
<1>1. MaxDepth \in Nat /\ MaxTokens \in Nat
  BY DEF DrawsFit
<1>2. SUFFICES ASSUME S # {} PROVE FALSE
  OBVIOUS
<1>3. S \subseteq Nat
  BY <1>1
<1>4. PICK d \in S : \A m \in S : d <= m
  <2> HIDE DEF S
  <2>1. QED
    BY <1>2, <1>3, Least
<1>5. d \in 0 .. MaxDepth /\ Wrong(d)
  OBVIOUS
<1>6. PICK e \in Expressions[d] : Len(e) <= MaxLength /\ e \notin Texts("exp")
  BY <1>5
<1>7. Expressions[0] = Leaves /\ \A k \in 1 .. MaxDepth : Expressions[k] = Deeper(Expressions[k - 1])
  BY <1>1, ExpressionsUnfold DEF Unfolded
<1>8. e \notin Leaves
  BY <1>6, LeafText
<1>9. d \in 1 .. MaxDepth
  BY <1>1, <1>5, <1>6, <1>7, <1>8
<1>10. e \in Grouped(SequencesOver(Expressions[d - 1], MaxSize))
  BY <1>6, <1>7, <1>8, <1>9 DEF Deeper
<1>11. ~ Wrong(d - 1)
  <2>1. d - 1 \in 0 .. MaxDepth /\ ~ (d <= d - 1)
    BY <1>1, <1>9
  <2>2. d - 1 \notin S
    BY <1>4, <2>1
  <2>3. QED
    BY <2>1, <2>2
<1> DEFINE lower == Expressions[d - 1]
<1>12. \A b \in lower : Len(b) <= MaxTokens => b \in Texts("exp")
  <2>1. ASSUME NEW b \in lower, Len(b) <= MaxTokens PROVE b \in Texts("exp")
    <3>1. Len(b) <= MaxLength => b \in Texts("exp")
      BY <1>11
    <3>2. QED
      BY <1>1, <2>1, <3>1, LengthBound
  <2>2. QED
    BY <2>1
<1> HIDE DEF lower
<1>13. \A b \in SequencesOver(lower, MaxSize) : b \in Texts("seq")
  BY <1>12, SequencesAreSeqs
<1>14. QED
  BY <1>6, <1>10, <1>13, GroupedText DEF lower

-----------------------------------------------------------------------------
(* The bounds: as many paths as are wanted fit. *)
LEMMA RoomIs ==
  ASSUME DrawsFit, NEW k \in Nat, k < MaxPaths
  PROVE  /\ k * (MaxTokens + 1) + MaxTokens + 1 <= MaxLength /\ (k + 1) * (MaxTokens + 1) = k * (MaxTokens + 1) + MaxTokens + 1
         /\ k * (MaxTokens + 1) \in Nat /\ MaxTokens \in Nat /\ MaxLength \in Nat
<1> DEFINE T == MaxTokens + 1
<1>1. T \in Nat /\ MaxTokens \in Nat /\ MaxPaths \in Nat /\ MaxLength \in Nat /\ MaxPaths * T <= MaxLength
  BY LengthBound DEF DrawsFit
<1> HIDE DEF T
<1>2. PICK m \in Nat : MaxPaths = k + 1 + m
  <2>1. MaxPaths - (k + 1) \in Nat /\ MaxPaths = k + 1 + (MaxPaths - (k + 1))
    BY <1>1
  <2>2. QED
    BY <2>1
<1>3. (k + 1) * T = k * T + T /\ MaxPaths * T = (k + 1) * T + m * T
  BY <1>1, <1>2
<1>4. m * T \in Nat /\ k * T \in Nat /\ (k + 1) * T \in Nat
  BY <1>1, <1>2
<1>5. k * T + T <= MaxLength
  BY <1>1, <1>3, <1>4
<1>6. QED
  BY <1>1, <1>3, <1>4, <1>5 DEF T

(* A text of paths, which more paths can follow. *)
Continued(t) ==
  /\ t \in Texts("query")
  /\ \A q \in Texts("query") : Len(t) + 1 + Len(q) <= MaxLength => t \o <<Written("SEP")>> \o q \in Texts("query")

(* One path is such a text, ... *)
LEMMA ContinuedPath ==
  ASSUME DrawsFit, NEW u \in Texts("seq")
  PROVE  Continued(u)
  BY DrawnTokens, TextGrows, SepText DEF Continued

(* ... and so is such a text and another path. *)
LEMMA ContinuedGrows ==
  ASSUME DrawsFit, NEW t, Continued(t), NEW u \in Texts("seq"), Len(t) + 1 + Len(u) <= MaxLength
  PROVE  Continued(t \o <<Written("SEP")>> \o u) /\ Len(t \o <<Written("SEP")>> \o u) = Len(t) + 1 + Len(u)
<1> DEFINE x == Written("SEP")
           sep == <<x>>
           all == t \o <<x>> \o u
<1>1. t \in Seq(Letters) /\ Len(t) \in Nat /\ u \in Seq(Letters) /\ Len(u) \in Nat /\ MaxLength \in Nat
  BY TextOf, LengthBound DEF Continued, Nonterminals
<1>2. x \in Letters /\ x \in TokensOf({"SEP"})
  BY DrawnLetters, DrawnTokens
<1>3. all \in Texts("query")
  BY TextGrows DEF Continued
<1> HIDE DEF x
<1>4. all \in Seq(Letters) /\ Len(all) = Len(t) + 1 + Len(u)
  BY <1>1, <1>2, AroundProper
<1>5. ASSUME NEW q \in Texts("query"), Len(all) + 1 + Len(q) <= MaxLength PROVE all \o <<x>> \o q \in Texts("query")
  <2>1. q \in Seq(Letters) /\ Len(q) \in Nat
    BY TextOf DEF Nonterminals
  <2>2. Len(u) + 1 + Len(q) <= MaxLength /\ Len(t) + 1 + (Len(u) + 1 + Len(q)) <= MaxLength
    BY <1>1, <1>4, <1>5, <2>1
  <2> DEFINE v == u \o <<x>> \o q
             end == sep \o q
  <2>3. v \in Texts("query")
    BY <1>2, <2>2, SepText
  <2>4. v \in Seq(Letters) /\ Len(v) = Len(u) + 1 + Len(q)
    BY <1>1, <1>2, <2>1, AroundProper
  <2>5. t \o <<x>> \o v \in Texts("query")
    <3> HIDE DEF v
    <3>1. Len(t) + 1 + Len(v) <= MaxLength
      BY <2>2, <2>4
    <3>2. QED
      BY <2>3, <3>1 DEF Continued, x
  <2>6. sep \in Seq(Letters)
    BY <1>2
  <2> HIDE DEF sep
  <2>7. end \in Seq(Letters) /\ (all \o sep) \o q = all \o end /\ (u \o sep) \o q = u \o end
    <3> HIDE DEF all
    <3>1. end \in Seq(Letters)
      BY <2>1, <2>6, ConcatProperties
    <3>2. (all \o sep) \o q = all \o end
      BY <1>4, <2>1, <2>6, ConcatAssociative
    <3>3. (u \o sep) \o q = u \o end
      BY <1>1, <2>1, <2>6, ConcatAssociative
    <3>4. QED
      BY <3>1, <3>2, <3>3
  <2> HIDE DEF end
  <2>8. all \o end = t \o <<x>> \o (u \o end)
    BY <1>1, <1>2, <2>7, AroundEnds
  <2>9. QED
    BY <2>5, <2>7, <2>8 DEF sep
<1>6. QED
  BY <1>3, <1>4, <1>5 DEF Continued, x

(* The paths that are drawn. *)
LEMMA PathsAreSeqs ==
  ASSUME DrawsFit, MaxTokens <= MaxLength, NEW path, path \in FirstPaths \/ path \in LaterPaths
  PROVE  path \in Texts("seq") /\ Len(path) <= MaxTokens
<1> DEFINE es == Expressions[MaxDepth]
<1>1. ASSUME NEW e \in es, Len(e) <= MaxTokens PROVE e \in Texts("exp")
  <2>1. MaxDepth \in 0 .. MaxDepth
    BY DEF DrawsFit
  <2>2. Len(e) <= MaxLength => e \in Texts("exp")
    BY <2>1, ExpressionsAreExps
  <2>3. QED
    BY <1>1, <2>2, LengthBound DEF DrawsFit
<1>2. path \in SequencesOver(es, MaxSize) \/ path \in SequencesOver(es, LaterSize)
  BY DEF FirstPaths, LaterPaths
<1> HIDE DEF es
<1>3. QED
  BY <1>1, <1>2, SequencesAreSeqs

-----------------------------------------------------------------------------
(* The generator draws a text that paths can follow and that is not too long *)
(* for the paths it lacks; from then on the parser reads a whole sentence.   *)
DrawingInv ==
  /\ results = <<>>
  /\ wanted \in 1 .. MaxPaths /\ drawn \in 0 .. wanted
  /\ drawn = 0 => text = <<>>
  /\ drawn > 0 => Continued(text) /\ Len(text) <= drawn * (MaxTokens + 1)
GeneratorInv == IF outcome = "drawing" THEN DrawingInv ELSE ParserInv /\ Full(text)

(* DrawPath keeps it, ... *)
LEMMA DrawPathInv ==
  ASSUME DrawsFit, DrawingInv, DrawPath
  PROVE  DrawingInv' /\ outcome' = "drawing"
<1>1. PICK path \in IF drawn = 0 THEN FirstPaths ELSE LaterPaths :
        text' = text \o (IF drawn = 0 THEN <<>> ELSE <<Written("SEP")>>) \o path
  BY DEF DrawPath
<1>2. /\ outcome' = outcome /\ outcome = "drawing" /\ drawn < wanted /\ drawn' = drawn + 1 /\ results' = results
      /\ wanted' = wanted
  BY DEF DrawPath
<1>3. wanted \in 1 .. MaxPaths /\ drawn \in 0 .. wanted /\ results = <<>> /\ MaxPaths \in Nat
  BY DEF DrawingInv, DrawsFit
<1>4. drawn \in Nat /\ drawn < MaxPaths /\ drawn + 1 \in 0 .. wanted /\ drawn + 1 > 0 /\ drawn + 1 # 0
  BY <1>2, <1>3
<1>5. /\ drawn * (MaxTokens + 1) + MaxTokens + 1 <= MaxLength
      /\ (drawn + 1) * (MaxTokens + 1) = drawn * (MaxTokens + 1) + MaxTokens + 1
      /\ drawn * (MaxTokens + 1) \in Nat /\ MaxTokens \in Nat /\ MaxLength \in Nat
  BY <1>4, RoomIs
<1> DEFINE r == drawn * (MaxTokens + 1)
<1>6. r + MaxTokens + 1 <= MaxLength /\ (drawn + 1) * (MaxTokens + 1) = r + MaxTokens + 1 /\ r \in Nat
  BY <1>5
<1>7. drawn > 0 => Len(text) <= r
  BY DEF DrawingInv
<1> HIDE DEF r
<1>8. path \in Texts("seq") /\ Len(path) <= MaxTokens
  <2>1. MaxTokens <= MaxLength
    BY <1>5, <1>6
  <2>2. path \in FirstPaths \/ path \in LaterPaths
    BY <1>1
  <2>3. QED
    BY <2>1, <2>2, PathsAreSeqs
<1>9. path \in Seq(Letters) /\ Len(path) \in Nat
  BY <1>8, TextOf DEF Nonterminals
<1>10. Continued(text') /\ Len(text') <= (drawn + 1) * (MaxTokens + 1)
  <2>1. CASE drawn = 0
    <3>1. text = <<>> /\ text' = text \o <<>> \o path
      BY <1>1, <2>1 DEF DrawingInv
    <3>2. text' = path
      <4>1. <<>> \o <<>> = <<>> /\ <<>> \o path = path
        BY <1>9
      <4>2. QED
        BY <3>1, <4>1
    <3>3. Len(text') <= r + MaxTokens + 1
      BY <1>5, <1>6, <1>8, <1>9, <3>2
    <3>4. QED
      BY <1>6, <1>8, <3>2, <3>3, ContinuedPath
  <2>2. CASE drawn # 0
    <3>1. drawn > 0
      BY <1>4, <2>2
    <3>2. Continued(text) /\ Len(text) <= r
      BY <1>7, <3>1 DEF DrawingInv
    <3>3. text' = text \o <<Written("SEP")>> \o path
      BY <1>1, <2>2
    <3>4. Len(text) \in Nat
      BY <3>2, TextOf DEF Continued, Nonterminals
    <3>5. Len(text) + 1 + Len(path) <= r + MaxTokens + 1
      BY <1>5, <1>6, <1>8, <1>9, <3>2, <3>4
    <3>6. Len(text) + 1 + Len(path) <= MaxLength
      BY <1>5, <1>6, <1>9, <3>4, <3>5
    <3>7. Continued(text') /\ Len(text') = Len(text) + 1 + Len(path)
      BY <1>8, <3>2, <3>3, <3>6, ContinuedGrows
    <3>8. QED
      BY <1>6, <3>5, <3>7
  <2>3. QED
    BY <2>1, <2>2
<1>11. QED
  BY <1>2, <1>3, <1>4, <1>10 DEF DrawingInv

(* ... ReadDrawn gives the parser a sentence, ... *)
LEMMA ReadDrawnInv ==
  ASSUME DrawsFit, DrawingInv, ReadDrawn
  PROVE  ParserInv' /\ Full(text)'
<1>1. /\ text' = Append(text, Stop) /\ position' = 1 /\ stack' = <<Call("allExpr")>> /\ outcome' = "parsing"
      /\ results' = <<>> /\ drawn = wanted
  BY DEF ReadDrawn, DrawingInv
<1>2. text \in Texts("query")
  <2>1. wanted \in 1 .. MaxPaths /\ drawn > 0
    BY <1>1 DEF DrawingInv
  <2>2. QED
    BY <2>1 DEF DrawingInv, Continued
<1> DEFINE w == text'
<1>3. Full(w)
  <2>1. PICK n \in 1 .. MaxLength : \E s \in Grammar[n].query : s.text = text
    BY <1>2 DEF Texts
  <2>2. PICK s \in Grammar[n].query : s.text = text
    BY <2>1
  <2>3. s \in Language
    BY LanguageIs
  <2>4. QED
    BY <1>1, <2>2, <2>3 DEF Full
<1>4. /\ Word(w) /\ Len(w) \in Nat \ {0, 1} /\ w[Len(w)] = Stop
      /\ \A i \in 1 .. Len(w) - 1 : w[i] \in Letters
  BY <1>3, FullWord
<1>5. Token("LPAREN", "") \in Tokens /\ Token("RPAREN", "") \in Tokens
  BY DEF DrawsFit, Written
<1>6. Letters \subseteq Tokens /\ Alphabet = Tokens \cup {Stop}
  <2>1. Alphabet = Tokens \cup {Stop}
    BY <1>5 DEF Alphabet
  <2>2. QED
    BY <2>1, StopIs DEF Letters
<1>7. TextInv'
  <2>1. w \in Seq(Tokens \cup {Stop}) /\ Len(w) <= MaxLength + 1 /\ MaxLength \in Nat
    BY <1>4, <1>6, LengthBound DEF Word
  <2>2. Len(w) \in 1 .. MaxLength + 1
    BY <1>4, <2>1
  <2>3. \A i \in 1 .. Len(w) - 1 : w[i] \in Tokens
    BY <1>4, <1>6
  <2>4. QED
    BY <1>4, <2>1, <2>2, <2>3 DEF TextInv
<1>8. ReadingInv'
  <2>1. position' \in 1 .. Len(w)
    BY <1>1, <1>4
  <2>2. QED
    BY <1>1, <2>1, StartFine DEF ReadingInv
<1>9. ViableInv'
  BY <1>1, StartComplete DEF ViableInv
<1>10. ResultsInv'
  <2>1. results' \in Seq(Parsed(w)) /\ Len(results') = 0
    BY <1>1
  <2>2. 0 <= MaxParses /\ 0 < MaxParses
    BY ParsesAssumption
  <2>3. QED
    BY <1>1, <2>1, <2>2 DEF ResultsInv
<1>11. QED
  BY <1>3, <1>7, <1>8, <1>9, <1>10 DEF ParserInv

(* ... whose text stays as it is, ... *)
LEMMA DescendReads ==
  ASSUME Descend
  PROVE  text' = text \/ ReadToken
<1>1. /\ \A frames : Take(frames) => ReadToken
      /\ \A tree : TakeAndReturn(tree) => ReadToken
      /\ \A frames : Enter(frames) => text' = text
      /\ \A tree : Return(tree) => text' = text
      /\ Fail => text' = text
  BY DEF Take, TakeAndReturn, Enter, Return, Fail
<1>2. CASE Exp \/ ExpQuantifier
  BY <1>1, <1>2 DEF Exp, ExpQuantifier
<1>3. CASE SeqStart \/ SeqBoundary \/ SeqExp
  BY <1>1, <1>3 DEF SeqStart, SeqBoundary, SeqExp
<1>4. CASE SeqNext \/ Rseq \/ RseqExp \/ RseqPrec \/ Arrow
  BY <1>1, <1>4 DEF SeqNext, Rseq, RseqExp, RseqPrec, Arrow
<1>5. CASE Domain \/ BeginAlternative \/ DomainMore \/ DomainQuantifier
  BY <1>1, <1>5 DEF Domain, BeginAlternative, DomainMore, DomainQuantifier
<1>6. CASE AllExpr \/ AllExprPath \/ AllExprMore \/ Separate
  BY <1>1, <1>6 DEF AllExpr, AllExprPath, AllExprMore, Separate
<1>7. QED
  BY <1>2, <1>3, <1>4, <1>5, <1>6 DEF Descend

LEMMA ReadInv ==
  ASSUME ParserInv, Full(text), Read
  PROVE  ParserInv' /\ Full(text)'
<1>1. Descend \/ Finish
  BY DEF Read
<1>2. ParserInv'
  BY <1>1, NextInv DEF Next
<1>3. text' = text
  <2>1. CASE Finish
    BY <2>1 DEF Finish
  <2>2. CASE ReadToken /\ text' # text
    <3>1. PICK token : text' = Append(text, token)
      BY <2>2 DEF ReadToken
    <3>2. Len(text) \in Nat \ {0} /\ text \in Seq(Alphabet) /\ text[Len(text)] = Stop
      BY FullWord, TextBounds DEF ParserInv
    <3> DEFINE n == Len(text)
    <3>3. Len(text') = n + 1 /\ text'[n] = Stop
      BY <3>1, <3>2, AppendProperties
    <3> HIDE DEF n
    <3>4. n \in 1 .. Len(text') - 1
      BY <3>2, <3>3 DEF n
    <3>5. text'[n] \in Tokens
      BY <1>2, <3>4 DEF ParserInv, TextInv
    <3>6. QED
      BY <3>3, <3>5, StopIs
  <2>3. QED
    BY <1>1, <2>1, <2>2, DescendReads
<1>4. QED
  BY <1>2, <1>3

(* ... and when it is refused, the generator begins again. *)
LEMMA GeneratorStep ==
  ASSUME DrawsFit, GeneratorInv, [GeneratorNext]_generatorVars
  PROVE  GeneratorInv'
<1>1. ParserInv => outcome # "drawing"
  BY DEF ParserInv, ResultsInv
<1>2. ParserInv' => outcome' # "drawing"
  BY DEF ParserInv, ResultsInv
<1>3. CASE DrawPath
  <2>1. DrawingInv
    BY <1>3 DEF DrawPath, GeneratorInv
  <2>2. QED
    BY <1>3, <2>1, DrawPathInv DEF GeneratorInv
<1>4. CASE ReadDrawn
  <2>1. DrawingInv
    BY <1>4 DEF ReadDrawn, GeneratorInv
  <2>2. ParserInv' /\ Full(text)'
    BY <1>4, <2>1, ReadDrawnInv
  <2>3. QED
    BY <1>2, <2>2 DEF GeneratorInv
<1>5. CASE Read
  <2>1. outcome # "drawing"
    BY <1>5 DEF Read, Descend, Exp, ExpQuantifier, SeqStart, SeqBoundary, SeqExp, SeqNext, Rseq, RseqExp, RseqPrec,
       Arrow, Domain, BeginAlternative, DomainMore, DomainQuantifier, AllExpr, AllExprPath, AllExprMore, Separate,
       Active, Finish
  <2>2. ParserInv' /\ Full(text)'
    BY <1>5, <2>1, ReadInv DEF GeneratorInv
  <2>3. QED
    BY <1>2, <2>2 DEF GeneratorInv
<1>6. CASE DrawAgain
  <2>1. /\ text' = <<>> /\ outcome' = "drawing" /\ results' = <<>> /\ wanted' \in 1 .. MaxPaths /\ drawn' = 0
    BY <1>6 DEF DrawAgain
  <2>2. 0 \in 0 .. wanted' /\ ~ (0 > 0)
    BY <2>1 DEF DrawsFit
  <2>3. DrawingInv'
    BY <2>1, <2>2 DEF DrawingInv
  <2>4. QED
    BY <2>1, <2>3 DEF GeneratorInv
<1>7. CASE UNCHANGED generatorVars
  <2>1. UNCHANGED vars /\ text' = text /\ outcome' = outcome /\ results' = results /\ wanted' = wanted /\ drawn' = drawn
    BY <1>7 DEF generatorVars, vars
  <2>2. CASE outcome = "drawing"
    <3>1. DrawingInv
      BY <2>2 DEF GeneratorInv
    <3>2. DrawingInv'
      BY <2>1, <3>1 DEF DrawingInv
    <3>3. QED
      BY <2>1, <2>2, <3>2 DEF GeneratorInv
  <2>3. CASE outcome # "drawing"
    <3>1. ParserInv /\ Full(text)
      BY <2>3 DEF GeneratorInv
    <3>2. ParserInv'
      BY <2>1, <3>1, StutterInv
    <3>3. QED
      BY <1>2, <2>1, <3>1, <3>2 DEF GeneratorInv
  <2>4. QED
    BY <2>2, <2>3
<1>8. QED
  BY <1>3, <1>4, <1>5, <1>6, <1>7 DEF GeneratorNext

(***************************************************************************)
(* For every set of words and quantifiers, every depth of groups, number of  *)
(* paths and length of a sequence: the text that is drawn is a sentence of   *)
(* the grammar, so that the parser reads it to its end and throws nothing    *)
(* but the refusal that has the generator draw again.                        *)
(***************************************************************************)
THEOREM DrawnIsAlwaysRead == DrawsFit => (GeneratorSpec => []DrawnIsRead)
<1> SUFFICES ASSUME DrawsFit PROVE GeneratorSpec => []DrawnIsRead
  OBVIOUS
<1>1. GeneratorInit => GeneratorInv
  <2> SUFFICES ASSUME GeneratorInit PROVE GeneratorInv
    OBVIOUS
  <2>1. text = <<>> /\ outcome = "drawing" /\ results = <<>> /\ wanted \in 1 .. MaxPaths /\ drawn = 0
    BY DEF GeneratorInit
  <2>2. 0 \in 0 .. wanted /\ ~ (0 > 0)
    BY <2>1 DEF DrawsFit
  <2>3. QED
    BY <2>1, <2>2 DEF GeneratorInv, DrawingInv
<1>2. GeneratorInv /\ [GeneratorNext]_generatorVars => GeneratorInv'
  BY GeneratorStep
<1>3. GeneratorInv => DrawnIsRead
  <2>1. ASSUME ParserInv, Full(text) PROVE outcome # "error"
    BY <2>1, TextBounds DEF ParserInv, ViableInv
  <2>2. QED
    BY <2>1 DEF GeneratorInv, DrawnIsRead
<1>4. QED
  BY <1>1, <1>2, <1>3, PTL DEF GeneratorSpec
=============================================================================
