----------------------------- MODULE PatternRules -----------------------------
(***************************************************************************)
(* The checks a parsed pattern must pass before anything uses it:           *)
(* checkAlternatives and BoundaryCheck of PartitionGraphParser.cpp, over the *)
(* trees of PatternCompiler.  They look at the tree only.                   *)
(***************************************************************************)
EXTENDS RootedCompiler

IsAlternation(tree) == tree.op = "GROUP" /\ Len(tree.branches) > 1

(* Units of a sequence in the order they are walked. *)
RECURSIVE Traversal(_)
Traversal(tree) ==
  CASE tree.op = "NEXT" -> Traversal(tree.left) \o Traversal(tree.right)
    [] tree.op = "PREC" -> Traversal(tree.right) \o Traversal(tree.left)
    [] OTHER -> <<tree>>

(* What a quantifier repeats; parentheses around one sequence vanish. *)
Body(unit) == IF unit.body.op = "GROUP" /\ ~ IsAlternation(unit.body)
              THEN Head(unit.body.branches) ELSE unit.body

(* A walk may go through the tree without an operation. *)
RECURSIVE Nullable(_)
Nullable(tree) ==
  CASE tree.op \in {"KEY", "CKEY"} -> FALSE
    [] tree.op = "END" -> TRUE
    [] tree.op = "QUANTIFIED" -> tree.symbol \in {"*", "?"} \/ Nullable(Body(tree))
    [] tree.op = "GROUP" -> \E k \in DOMAIN tree.branches : Nullable(tree.branches[k])
    [] OTHER -> \A unit \in ToSet(Traversal(tree)) : Nullable(unit)

\* Mutant of Mandatory: repetitions are never mandatory.
MandatoryMutant(unit) == unit.op \in {"KEY", "CKEY"}

Mandatory(unit) == unit.op # "END" /\ ~ Nullable(unit)

(* The units of a list from its last mandatory one on. *)
Ending(list) == {list[j] : j \in {j \in DOMAIN list : \A k \in j + 1 .. Len(list) : ~ Mandatory(list[k])}}

(* Anchors that can be the last operation of a unit. *)
RECURSIVE LastAnchors(_)
LastAnchors(unit) ==
  CASE unit.op = "CKEY" -> {unit.id}
    [] unit.op = "QUANTIFIED" -> UNION {LastAnchors(last) : last \in Ending(Traversal(Body(unit)))}
    [] OTHER -> {}

-----------------------------------------------------------------------------
(***************************************************************************)
(* BoundaryCheck::sequence.  guaranteed: an operation precedes the sequence *)
(* in its path; chained: the sequence is in a repeated group without anchor, *)
(* whose iterations follow each other; optional: it is in a ? or * group;   *)
(* successor: an operation follows it.  The findings are whether a boundary *)
(* stands where it cannot hold, the anchors that may end at one, and those  *)
(* that an operation always follows.                                        *)
(***************************************************************************)
Findings(illegal, terminal, followed) == [illegal |-> illegal, terminal |-> terminal, followed |-> followed]
Gather(findings) ==
  Findings(\E f \in findings : f.illegal, UNION {f.terminal : f \in findings}, UNION {f.followed : f \in findings})

RECURSIVE Sequence(_, _, _, _, _)
Sequence(tree, guaranteed, chained, optional, successor) ==
  LET list      == Traversal(tree)
      before(i) == guaranteed \/ \E j \in 1 .. i - 1 : Mandatory(list[j])
      after(i)  == successor \/ \E j \in i + 1 .. Len(list) : Mandatory(list[j])
      repeats(unit) == unit.symbol # "?" /\ ~ HasAnchor(unit)
      finding(i) ==
        CASE list[i].op = "END" ->
               Findings(chained \/ ~ before(i), UNION {LastAnchors(u) : u \in Ending(SubSeq(list, 1, i - 1))}, {})
          [] list[i].op = "CKEY" -> Findings(FALSE, {}, IF ~ optional /\ after(i) THEN {list[i].id} ELSE {})
          [] list[i].op = "QUANTIFIED" ->
               Sequence(Body(list[i]), before(i), chained \/ repeats(list[i]),
                        optional \/ list[i].symbol # "+", after(i))
          [] OTHER -> Findings(FALSE, {}, {})
  IN  Gather({finding(i) : i \in DOMAIN list})

(* No illegal boundary in a path, no anchor that ends at one boundary and    *)
(* that an operation follows elsewhere.                                      *)
BoundariesHold(tree) ==
  LET all == Gather({Sequence(path, FALSE, FALSE, FALSE, FALSE) : path \in ToSet(Paths(tree))})
  IN  ~ all.illegal /\ all.terminal \cap all.followed = {}

(* checkAlternatives: neither anchors nor boundaries inside alternatives.    *)
AlternativesArePlain(tree) ==
  \A group \in {t \in Subtrees(tree) : IsAlternation(t)} :
    \A t \in Subtrees(group) : t.op \notin {"CKEY", "END"}

Accepted(tree) == AlternativesArePlain(tree) /\ BoundariesHold(tree)
=============================================================================
