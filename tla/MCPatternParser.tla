--------------------------- MODULE MCPatternParser ---------------------------
EXTENDS RandomExpressionGenerator, PatternMeaning, PatternRules

KeyToken    == Token("KEY", KEY("A"))
AnchorToken == Token("CKEY", CKEY("D", 1, FALSE, FALSE))
StrictToken == Token("SCKEY", CKEY("D", 1, TRUE, FALSE))
NextToken  == Token("NEXT", 0)
Mark(type) == Token(type, "")

MCTokens == {KeyToken, AnchorToken, StrictToken, NextToken, Token("PREC", 1)}
              \cup {Mark(type) : type \in {"QOM", "QZO", "LPAREN", "RPAREN", "SEP", "END", "ALT", "BAD"}}
MCWords   == {KeyToken, AnchorToken}
MCRepeats == {Mark("QOM"), Mark("QZO")}
MCGrammar == Levels(FALSE)

-----------------------------------------------------------------------------
(* A parser is given any text, or what allExpr draws (then wanted is not 0). *)
MCInit == GeneratorInit \/ (Init /\ wanted = 0 /\ drawn = 0)
MCNext == GeneratorNext \/ (Next /\ wanted = 0 /\ UNCHANGED <<wanted, drawn>>)
MCSpec == MCInit /\ [][MCNext]_generatorVars /\ WF_generatorVars(Read)

-----------------------------------------------------------------------------
(* Recursive descent ends on every text: no function waits for a token or    *)
(* calls itself without consuming one.                                       *)
Terminates == []<>(outcome # "parsing")

(* The quantifiers that a walk has open in each state: what the transitions  *)
(* give along one of the ways from a start to it.                            *)
OpenIn(machine) ==
  LET states == {e.from : e \in machine.edges} \cup {e.to : e \in machine.edges}
      after(open, label) ==
        CASE label.type = "TRACE" /\ label.action = "Begin" -> Append(open, label.index)
          [] label.type = "TRACE" /\ label.action = "End" /\ open # <<>> -> Front(open)
          [] OTHER -> open
      onward(f) == {<<e.to, after(f[2], e.label)>> : e \in {e \in machine.edges : e.from = f[1]}}
      grown(found) == found \cup UNION {onward(f) : f \in found}
      Reached[k \in Nat] == IF k = 0 THEN {<<s, <<>> >> : s \in ToSet(machine.starts)}
                            ELSE grown(Reached[k - 1])
      found == Reached[Cardinality(states)]
  IN  [s \in states |-> (CHOOSE f \in found : f[1] = s)[2]]

(* The compiler raises no error on a pattern that parse accepts, as it stands *)
(* and rooted (PGInterpreterTG): single entries and exits, groups that fit    *)
(* where states are merged, and an anchor that a repeated body can reach.     *)
(* The quantifiers of the automaton nest, so that no walk of it finds them    *)
(* unbalanced (see NestedNeverThrow in WalkSearchProofs).                     *)
AcceptedCompile ==
  outcome = "parsed" =>
    \A rising \in BOOLEAN : \A machine \in {Interpret(value, rising), InterpretRooted(value, rising)} :
      machine.ok /\ Nesting(machine, OpenIn(machine))
=============================================================================
