--------------------------- MODULE MatchCombination ---------------------------
(***************************************************************************)
(* SolutionFromStartingPoint (src/TransitionGraph/MatchSolution.cpp): once  *)
(* the search is exhausted, its finished walks are combined into matches.   *)
(* _makeTheMatch extends `precedence` by every walk that covers the lowest  *)
(* path not covered yet, and calls itself; a call that finds all paths      *)
(* covered reports a match when the obligations of its walks are met.       *)
(*                                                                          *)
(* `cursors` is the stack of calls: where the loop of each of them over the *)
(* finished walks will go on.  Walks are named by their position there.     *)
(***************************************************************************)
EXTENDS WalkSearch

VARIABLES precedence, cursors, matches

combination == <<precedence, cursors, matches>>
allVars == <<vars, combination>>

OriginsOf(walks) == UNION {Origin(finished[i]) : i \in walks}
CoveredBy(walks) == UNION {ValidNodes(finished[i]) : i \in walks}
RequiredBy(walks) == UNION {finished[i].rejected : i \in walks}

PathsCovered == OriginsOf(ToSet(precedence))
Complete == PathsCovered = problem.machine.origins
Calling == Exhausted /\ cursors # <<>>

-----------------------------------------------------------------------------
CombinationInit == Init /\ precedence = <<>> /\ cursors = <<1>> /\ matches = <<>>

(* A call returns: the walk that its caller added is taken back. *)
Return ==
  /\ cursors' = Front(cursors)
  /\ precedence' = IF precedence = <<>> THEN precedence ELSE Front(precedence)

Report ==
  /\ Calling /\ Complete
  /\ matches' = IF RequiredBy(ToSet(precedence)) \subseteq CoveredBy(ToSet(precedence))
                THEN Append(matches, precedence) ELSE matches
  /\ Return
  /\ UNCHANGED vars

\* Mutant of Extends: the walk is compared with the last one only.
ExtendsLast(i) ==
  /\ Min(problem.machine.origins \ PathsCovered) \in Origin(finished[i])
  /\ precedence # <<>> =>
       /\ Origin(finished[i]) \cap PathsCovered = {}
       /\ AreCompatible(finished[Last(precedence)], finished[i])

\* Mutant of Extends: paths are covered in any order.
ExtendsAnyPath(i) ==
  precedence # <<>> =>
    /\ Origin(finished[i]) \cap PathsCovered = {}
    /\ \A j \in ToSet(precedence) : AreCompatible(finished[j], finished[i])

(* A walk that covers the lowest path still uncovered, no path twice, and   *)
(* agrees with the walks already chosen.                                    *)
Extends(i) ==
  /\ Min(problem.machine.origins \ PathsCovered) \in Origin(finished[i])
  /\ precedence # <<>> =>
       /\ Origin(finished[i]) \cap PathsCovered = {}
       /\ \A j \in ToSet(precedence) : AreCompatible(finished[j], finished[i])

Try ==
  /\ Calling /\ ~ Complete
  /\ Last(cursors) <= Len(finished)
  /\ LET i == Last(cursors)
         advanced == Append(Front(cursors), i + 1)
     IN  IF Extends(i)
         THEN precedence' = Append(precedence, i) /\ cursors' = Append(advanced, 1)
         ELSE cursors' = advanced /\ UNCHANGED precedence
  /\ UNCHANGED <<vars, matches>>

GiveUp ==
  /\ Calling /\ ~ Complete
  /\ Last(cursors) > Len(finished)
  /\ Return
  /\ UNCHANGED <<vars, matches>>

Explore == Next /\ UNCHANGED combination

CombinationNext == Explore \/ Report \/ Try \/ GiveUp

CombinationSpec == CombinationInit /\ [][CombinationNext]_allVars /\ WF_allVars(CombinationNext)

-----------------------------------------------------------------------------
CombinationTypeOK ==
  /\ TypeOK
  /\ precedence \in Seq(1 .. Len(finished))
  /\ cursors \in Seq(1 .. Len(finished) + 1)
  /\ Len(cursors) \in {Len(precedence), Len(precedence) + 1}
  /\ matches \in Seq(Seq(1 .. Len(finished)))

(* What the constructor of a match leaves as a TODO: the walks it is given   *)
(* are compatible two by two, and share no path.                             *)
Agreeing(chosen) ==
  \A k, l \in DOMAIN chosen : k < l =>
    /\ AreCompatible(finished[chosen[k]], finished[chosen[l]])
    /\ Origin(finished[chosen[k]]) \cap Origin(finished[chosen[l]]) = {}

(* Every match is made of agreeing walks, one for each path of the pattern,  *)
(* and all neighbours that a strict anchor of one walk demands are covered   *)
(* by some walk of the match.                                                *)
MatchesAgree ==
  \A m \in ToSet(matches) :
    /\ Agreeing(m)
    /\ OriginsOf(ToSet(m)) = problem.machine.origins
    /\ RequiredBy(ToSet(m)) \subseteq CoveredBy(ToSet(m))

Combined == Exhausted /\ cursors = <<>>

(* "Each combination of path walks is reported once"                         *)
(* (doc/pattern-language.md), and all of them are reported.                  *)
Combinations ==
  {s \in UNION {kSubset(k, DOMAIN finished) : k \in 1 .. Cardinality(problem.machine.origins)} :
     /\ OriginsOf(s) = problem.machine.origins
     /\ \A i, j \in s : i # j => /\ AreCompatible(finished[i], finished[j])
                                 /\ Origin(finished[i]) \cap Origin(finished[j]) = {}
     /\ RequiredBy(s) \subseteq CoveredBy(s)}

EachCombinationOnce ==
  Combined => /\ {ToSet(m) : m \in ToSet(matches)} = Combinations
              /\ Len(matches) = Cardinality(Combinations)
=============================================================================
