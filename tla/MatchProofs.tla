------------------------------ MODULE MatchProofs ------------------------------
(***************************************************************************)
(* Theorems about MatchCombination and MatchRequest for every graph, every   *)
(* automaton, any number of paths and every budget.  First the combination:  *)
(* the walks of a match agree, cover every path once, and meet the           *)
(* obligations of each other.  Then the request: what the counting promises, *)
(* and that searches that follow one another on the same arguments do not    *)
(* spoil the answer; its search part rests on the step lemmas of the first.  *)
(***************************************************************************)
EXTENDS MatchRequest, WalkSearchProofs

-----------------------------------------------------------------------------
(* The stack of calls while walks are combined, and before. *)
StackInv ==
  /\ precedence \in Seq(1 .. Len(finished))
  /\ cursors \in Seq(1 .. Len(finished) + 1)
  /\ Len(cursors) \in {Len(precedence), Len(precedence) + 1}
  /\ precedence # <<>> => Len(cursors) = Len(precedence) + 1
  /\ matches \in Seq(Seq(1 .. Len(finished)))

CombinationInv ==
  /\ SearchInv
  /\ ~ Exhausted => precedence = <<>> /\ cursors = <<1>> /\ matches = <<>>
  /\ StackInv
  /\ Agreeing(precedence)
  /\ MatchesAgree

(* The number of finished walks. *)
LEMMA FinishedCount == SearchInv => Len(finished) \in Nat /\ DOMAIN finished = 1 .. Len(finished)
  BY DEF SearchInv

(* Nothing has been chosen when the search begins. *)
LEMMA InitCombination == CombinationInit => CombinationInv
<1> SUFFICES ASSUME CombinationInit PROVE CombinationInv
  OBVIOUS
<1>1. SearchInv
  BY InitSearch DEF CombinationInit
<1>2. precedence = <<>> /\ cursors = <<1>> /\ matches = <<>>
  BY DEF CombinationInit
<1>3. Len(finished) \in Nat
  BY <1>1, FinishedCount
<1>4. StackInv
  BY <1>2, <1>3 DEF StackInv
<1>5. Agreeing(precedence) /\ MatchesAgree
  BY <1>2 DEF Agreeing, MatchesAgree, ToSet
<1>6. QED
  BY <1>1, <1>2, <1>4, <1>5 DEF CombinationInv

(* A step of the search: nothing has been chosen yet. *)
LEMMA ExploreCombination == CombinationInv /\ Explore => CombinationInv'
<1> SUFFICES ASSUME CombinationInv, Explore PROVE CombinationInv'
  OBVIOUS
<1>1. SearchInv'
  BY NextSearch DEF CombinationInv, Explore
<1>2. ~ Exhausted
  BY DEF Explore, Next, Begin, Visit, Cross, Arrive, Exhausted, Idle
<1>3. precedence' = <<>> /\ cursors' = <<1>> /\ matches' = <<>>
  BY <1>2 DEF CombinationInv, Explore, combination
<1>4. Len(finished)' \in Nat
  BY <1>1 DEF SearchInv
<1>5. StackInv'
  BY <1>3, <1>4 DEF StackInv
<1>6. Agreeing(precedence)' /\ MatchesAgree'
  BY <1>3 DEF Agreeing, MatchesAgree, ToSet
<1>7. QED
  BY <1>1, <1>3, <1>5, <1>6 DEF CombinationInv

(* While walks are combined, the search stands still. *)
LEMMA SearchStands ==
  ASSUME CombinationInv, UNCHANGED vars
  PROVE  /\ SearchInv' /\ (Exhausted' <=> Exhausted)
         /\ finished' = finished /\ problem' = problem
         /\ \A w : Origin(w)' = Origin(w)
         /\ \A walks : /\ OriginsOf(walks)' = OriginsOf(walks)
                       /\ CoveredBy(walks)' = CoveredBy(walks)
                       /\ RequiredBy(walks)' = RequiredBy(walks)
         /\ \A sequence : Agreeing(sequence)' <=> Agreeing(sequence)
<1>1. SearchInv'
  BY NextSearch DEF CombinationInv
<1>2. finished' = finished /\ problem' = problem /\ (Exhausted' <=> Exhausted)
  BY DEF vars, arguments, Exhausted, Idle
<1>3. QED
  BY <1>1, <1>2 DEF Origin, OriginsOf, CoveredBy, RequiredBy, Agreeing

(* A match that agrees still does when nothing but the stack has changed. *)
LEMMA MatchesStay ==
  ASSUME CombinationInv, UNCHANGED vars, matches' = matches
  PROVE  MatchesAgree'
  BY SearchStands DEF CombinationInv, MatchesAgree

(* A call returns. *)
LEMMA ReturnKeeps ==
  ASSUME CombinationInv, Calling, UNCHANGED vars, Return
  PROVE  /\ precedence' \in Seq(1 .. Len(finished)) /\ cursors' \in Seq(1 .. Len(finished) + 1)
         /\ Len(cursors') \in {Len(precedence'), Len(precedence') + 1}
         /\ precedence' # <<>> => Len(cursors') = Len(precedence') + 1
         /\ Agreeing(precedence')
<1> DEFINE N == 1 .. Len(finished)
           M == 1 .. Len(finished) + 1
<1>1. precedence \in Seq(N) /\ cursors \in Seq(M) /\ cursors # <<>>
      /\ Len(cursors) \in {Len(precedence), Len(precedence) + 1}
      /\ (precedence # <<>> => Len(cursors) = Len(precedence) + 1)
  BY DEF CombinationInv, StackInv, Calling
<1>2. cursors' = Front(cursors)
  BY DEF Return
<1> HIDE DEF N, M
<1>3. cursors' \in Seq(M) /\ Len(cursors') = Len(cursors) - 1 /\ Len(cursors) \in Nat /\ Len(cursors) > 0
  BY <1>1, <1>2, Shortened
<1>4. CASE precedence = <<>>
  <2>1. precedence' = <<>>
    BY <1>4 DEF Return
  <2>2. Len(precedence) = 0 /\ Len(precedence') = 0
    BY <1>4, <2>1
  <2>3. Len(cursors') = 0
    BY <1>1, <1>3, <2>2
  <2>4. Agreeing(precedence')
    BY <2>1 DEF Agreeing
  <2>5. precedence' \in Seq(N)
    BY <2>1
  <2>6. QED
    BY <1>3, <2>1, <2>2, <2>3, <2>4, <2>5 DEF N, M
<1>5. CASE precedence # <<>>
  <2>1. precedence' = Front(precedence)
    BY <1>5 DEF Return
  <2>2. /\ precedence' \in Seq(N) /\ Len(precedence) \in Nat /\ Len(precedence') = Len(precedence) - 1
        /\ DOMAIN precedence = 1 .. Len(precedence) /\ DOMAIN precedence' = 1 .. Len(precedence) - 1
        /\ \A i \in 1 .. Len(precedence) - 1 : precedence'[i] = precedence[i]
    BY <1>1, <1>5, <2>1, Shortened
  <2>3. \A k, l \in DOMAIN precedence' :
          /\ k \in DOMAIN precedence /\ l \in DOMAIN precedence
          /\ precedence'[k] = precedence[k] /\ precedence'[l] = precedence[l]
    BY <2>2
  <2>4. Agreeing(precedence')
    BY <2>3 DEF Agreeing, CombinationInv
  <2>5. Len(cursors') = Len(precedence') + 1
    BY <1>1, <1>3, <1>5, <2>2
  <2>6. QED
    BY <1>3, <2>2, <2>4, <2>5 DEF N, M
<1>6. QED
  BY <1>4, <1>5

(* A call that finds all paths covered reports its walks. *)
LEMMA ReportCombination == CombinationInv /\ Report => CombinationInv'
<1> SUFFICES ASSUME CombinationInv, Report PROVE CombinationInv'
  OBVIOUS
<1> DEFINE N == 1 .. Len(finished)
<1>1. Calling /\ Complete /\ UNCHANGED vars /\ Return
  BY DEF Report
<1>2. CASE matches' = matches
  <2>1. MatchesAgree'
    BY <1>1, <1>2, MatchesStay
  <2>2. StackInv'
    BY <1>1, <1>2, ReturnKeeps, SearchStands DEF StackInv, CombinationInv
  <2>3. QED
    BY <1>1, <2>1, <2>2, ReturnKeeps, SearchStands DEF CombinationInv, Calling
<1>3. CASE /\ matches' = Append(matches, precedence)
           /\ RequiredBy(ToSet(precedence)) \subseteq CoveredBy(ToSet(precedence))
  <2>1. matches \in Seq(Seq(N)) /\ precedence \in Seq(N)
    BY DEF CombinationInv, StackInv
  <2>2. matches' \in Seq(Seq(N)) /\ ToSet(matches') = ToSet(matches) \cup {precedence}
    <3> HIDE DEF N
    <3>1. QED
      BY <1>3, <2>1, Appended
  <2>3. OriginsOf(ToSet(precedence)) = problem.machine.origins
    BY <1>1 DEF Complete, PathsCovered
  <2>4. MatchesAgree'
    BY <1>1, <1>3, <2>2, <2>3, SearchStands DEF MatchesAgree, CombinationInv
  <2>5. StackInv'
    BY <1>1, <2>2, ReturnKeeps, SearchStands DEF StackInv
  <2>6. QED
    BY <1>1, <2>4, <2>5, ReturnKeeps, SearchStands DEF CombinationInv, Calling
<1>4. QED
  BY <1>2, <1>3 DEF Report

(* A walk that extends the match agrees with the walks already chosen. *)
LEMMA ExtendAgrees ==
  ASSUME CombinationInv, NEW i \in 1 .. Len(finished), Extends(i)
  PROVE  Agreeing(Append(precedence, i))
<1> DEFINE N == 1 .. Len(finished)
           s == Append(precedence, i)
<1>1. precedence \in Seq(N)
  BY DEF CombinationInv, StackInv
<1>2. /\ Len(precedence) \in Nat /\ DOMAIN precedence = 1 .. Len(precedence)
      /\ DOMAIN s = 1 .. Len(precedence) + 1
      /\ \A k \in 1 .. Len(precedence) : s[k] = precedence[k]
      /\ s[Len(precedence) + 1] = i
  <2> HIDE DEF N
  <2>1. i \in N
    BY DEF N
  <2>2. QED
    BY <1>1, <2>1, Appended
<1> HIDE DEF s
<1>3. ASSUME NEW k \in DOMAIN s, NEW l \in DOMAIN s, k < l
      PROVE  /\ AreCompatible(finished[s[k]], finished[s[l]])
             /\ Origin(finished[s[k]]) \cap Origin(finished[s[l]]) = {}
  <2>1. k \in 1 .. Len(precedence) /\ (l \in 1 .. Len(precedence) \/ l = Len(precedence) + 1)
    BY <1>2, <1>3
  <2>2. CASE l \in 1 .. Len(precedence)
    BY <1>2, <1>3, <2>1, <2>2 DEF CombinationInv, Agreeing
  <2>3. CASE l = Len(precedence) + 1
    <3>1. s[k] \in ToSet(precedence) /\ s[l] = i /\ precedence # <<>>
      BY <1>2, <2>1, <2>3 DEF ToSet
    <3>2. Origin(finished[i]) \cap PathsCovered = {} /\ AreCompatible(finished[s[k]], finished[i])
      BY <3>1 DEF Extends
    <3>3. Origin(finished[s[k]]) \subseteq PathsCovered
      BY <3>1 DEF PathsCovered, OriginsOf
    <3>4. QED
      BY <3>1, <3>2, <3>3
  <2>4. QED
    BY <2>1, <2>2, <2>3
<1>4. QED
  BY <1>3 DEF Agreeing, s

(* A call tries the next walk. *)
LEMMA TryCombination == CombinationInv /\ Try => CombinationInv'
<1> SUFFICES ASSUME CombinationInv, Try PROVE CombinationInv'
  OBVIOUS
<1> DEFINE i == Last(cursors)
           advanced == Append(Front(cursors), i + 1)
           N == 1 .. Len(finished)
           M == 1 .. Len(finished) + 1
<1>1. UNCHANGED vars /\ matches' = matches /\ Calling
  BY DEF Try
<1>2. /\ precedence \in Seq(N) /\ cursors \in Seq(M) /\ cursors # <<>>
      /\ Len(cursors) \in {Len(precedence), Len(precedence) + 1}
      /\ (precedence # <<>> => Len(cursors) = Len(precedence) + 1)
  BY DEF CombinationInv, StackInv, Try, Calling
<1>3. Len(finished) \in Nat
  BY FinishedCount DEF CombinationInv
<1>4. /\ Front(cursors) \in Seq(M) /\ Len(Front(cursors)) = Len(cursors) - 1
      /\ Len(cursors) \in Nat /\ Len(cursors) > 0 /\ i \in M
  <2> HIDE DEF M
  <2>1. QED
    BY <1>2, Shortened
<1>5. i \in N /\ i + 1 \in M /\ 1 \in M
  BY <1>3, <1>4 DEF Try
<1> HIDE DEF i, N, M
<1>6. advanced \in Seq(M) /\ Len(advanced) = Len(cursors)
  BY <1>4, <1>5, Appended
<1>7. Append(advanced, 1) \in Seq(M) /\ Len(Append(advanced, 1)) = Len(cursors) + 1
  <2> HIDE DEF advanced
  <2>1. QED
    BY <1>4, <1>5, <1>6, Appended
<1>8. MatchesAgree'
  BY <1>1, MatchesStay
<1> HIDE DEF advanced
<1>9. CASE Extends(i) /\ precedence' = Append(precedence, i) /\ cursors' = Append(advanced, 1)
  <2>1. precedence' \in Seq(N) /\ Len(precedence') = Len(precedence) + 1 /\ Len(precedence) \in Nat
    BY <1>2, <1>5, <1>9, Appended
  <2>2. Len(cursors) = Len(precedence) + 1
    <3>1. CASE precedence = <<>>
      <4>1. Len(precedence) = 0
        BY <3>1
      <4>2. QED
        BY <1>2, <1>4, <4>1
    <3>2. QED
      BY <1>2, <3>1
  <2>3. StackInv'
    <3>1. Len(cursors') = Len(precedence') + 1
      BY <1>7, <1>9, <2>1, <2>2
    <3>2. QED
      BY <1>1, <1>7, <1>9, <2>1, <3>1, SearchStands DEF StackInv, CombinationInv, N, M
  <2>4. Agreeing(precedence')
    BY <1>5, <1>9, ExtendAgrees DEF N
  <2>5. QED
    BY <1>1, <1>8, <2>3, <2>4, SearchStands DEF CombinationInv, Calling
<1>10. CASE cursors' = advanced /\ precedence' = precedence
  <2>1. StackInv'
    BY <1>1, <1>2, <1>6, <1>10, SearchStands DEF StackInv, CombinationInv, N, M
  <2>2. QED
    BY <1>1, <1>8, <1>10, <2>1, SearchStands DEF CombinationInv, Calling
<1>11. QED
  BY <1>9, <1>10 DEF Try, i, advanced

(* A call has tried every walk. *)
LEMMA GiveUpCombination == CombinationInv /\ GiveUp => CombinationInv'
<1> SUFFICES ASSUME CombinationInv, GiveUp PROVE CombinationInv'
  OBVIOUS
<1>1. UNCHANGED vars /\ matches' = matches /\ Calling /\ Return
  BY DEF GiveUp
<1>2. MatchesAgree'
  BY <1>1, MatchesStay
<1>3. StackInv'
  BY <1>1, ReturnKeeps, SearchStands DEF StackInv, CombinationInv
<1>4. QED
  BY <1>1, <1>2, <1>3, ReturnKeeps, SearchStands DEF CombinationInv, Calling

(* Every step keeps the invariant. *)
LEMMA NextCombination == CombinationInv /\ [CombinationNext]_allVars => CombinationInv'
<1> SUFFICES ASSUME CombinationInv, [CombinationNext]_allVars PROVE CombinationInv'
  OBVIOUS
<1>1. CASE CombinationNext
  BY <1>1, ExploreCombination, ReportCombination, TryCombination, GiveUpCombination DEF CombinationNext
<1>2. CASE UNCHANGED allVars
  <2>1. UNCHANGED vars /\ precedence' = precedence /\ cursors' = cursors /\ matches' = matches
    BY <1>2 DEF allVars, combination
  <2>2. MatchesAgree'
    BY <2>1, MatchesStay
  <2>3. QED
    BY <2>1, <2>2, SearchStands DEF CombinationInv, StackInv
<1>3. QED
  BY <1>1, <1>2

(* The stack of calls, the chosen walks and the matches stay consistent. *)
THEOREM CombinationInvariant == CombinationSpec => []CombinationInv
<1>1. CombinationInit => CombinationInv
  BY InitCombination
<1>2. CombinationInv /\ [CombinationNext]_allVars => CombinationInv'
  BY NextCombination
<1>3. QED
  BY <1>1, <1>2, PTL DEF CombinationSpec

(* The calls on the stack, the walks they chose and the matches keep their  *)
(* types: no call takes back more walks than were added.                    *)
THEOREM CombinationTyped == CombinationSpec => []CombinationTypeOK
<1>1. CombinationInv => CombinationTypeOK
  BY InvariantTypes DEF CombinationInv, StackInv, CombinationTypeOK
<1>2. QED
  BY <1>1, CombinationInvariant, PTL

(* What the constructor of MatchSolution leaves to be asserted: the walks of *)
(* a match agree two by two, cover each path once, and cover together what   *)
(* the strict anchors of each of them demand.                                *)
THEOREM MatchesAlwaysAgree == CombinationSpec => []MatchesAgree
<1>1. CombinationInv => MatchesAgree
  BY DEF CombinationInv
<1>2. QED
  BY <1>1, CombinationInvariant, PTL

-----------------------------------------------------------------------------
(***************************************************************************)
(* The calls walk a tree: its nodes are the partial matches, its leaves the *)
(* complete ones, and the stack of loops is a place in it.  The leaves left *)
(* of that place are those reported so far.                                 *)
(***************************************************************************)
(* The walk i goes on from the walks W. *)
Follows(W, i) ==
  /\ Min(problem.machine.origins \ OriginsOf(W)) \in Origin(finished[i])
  /\ Origin(finished[i]) \cap OriginsOf(W) = {}
  /\ \A j \in W : AreCompatible(finished[j], finished[i])

Before(m, k) == {m[j] : j \in 1 .. k - 1}
Partial == {m \in Seq(1 .. Len(finished)) : \A k \in DOMAIN m : Follows(Before(m, k), m[k])}
Covers(m) == OriginsOf(ToSet(m)) = problem.machine.origins
Good(m)   == RequiredBy(ToSet(m)) \subseteq CoveredBy(ToSet(m))

(* The loops have gone past m, or are all over. *)
At(k) == IF k <= Len(precedence) THEN precedence[k] ELSE cursors[k]
Passed(m) ==
  \E k \in DOMAIN cursors : k \in DOMAIN m /\ (\A j \in 1 .. k - 1 : m[j] = precedence[j]) /\ m[k] < At(k)
Visited(m) == cursors = <<>> \/ Passed(m)

TreeInv ==
  /\ precedence \in Partial
  /\ \A k \in DOMAIN precedence : cursors[k] = precedence[k] + 1
  /\ IsInjective(matches)
  /\ \A m : m \in ToSet(matches) <=> m \in Partial /\ Covers(m) /\ Good(m) /\ Visited(m)

(* Every finished walk belongs to some of the paths. *)
LEMMA OriginFacts ==
  ASSUME SearchInv
  PROVE  /\ problem.machine.origins \subseteq Nat /\ IsFiniteSet(problem.machine.origins)
         /\ problem.machine.origins # {}
         /\ \A i \in 1 .. Len(finished) : /\ Origin(finished[i]) \subseteq problem.machine.origins
                                          /\ Origin(finished[i]) # {}
<1>1. HasOrigins(problem.machine)
  BY DEF SearchInv, IsProblem
<1>2. ASSUME NEW i \in 1 .. Len(finished) PROVE finished[i].state \in States(problem.machine)
  <2> DEFINE W == Waiting(problem)
  <2>1. finished \in Seq(W)
    BY DEF SearchInv
  <2> HIDE DEF W
  <2>2. finished[i] \in W
    BY <2>1
  <2> QED
    BY <2>2 DEF W, Waiting
<1> QED
  BY <1>1, <1>2 DEF HasOrigins, Origin

(* A walk that goes on covers the lowest path that was not covered. *)
LEMMA CoversNext ==
  ASSUME SearchInv, NEW W, NEW i \in 1 .. Len(finished), Follows(W, i)
  PROVE  LET a == Min(problem.machine.origins \ OriginsOf(W))
         IN  a \in problem.machine.origins /\ a \notin OriginsOf(W) /\ a \in Origin(finished[i])
<1> DEFINE remaining == problem.machine.origins \ OriginsOf(W)
<1>1. remaining # {} /\ remaining \subseteq Nat
  BY OriginFacts DEF Follows
<1> HIDE DEF remaining
<1>2. Min(remaining) \in remaining
  BY <1>1, MinMember
<1> QED
  BY <1>2 DEF remaining, Follows

LEMMA ExtendsIsFollows ==
  ASSUME StackInv, NEW i
  PROVE  Extends(i) <=> Follows(ToSet(precedence), i)
<1>1. precedence = <<>> => ToSet(precedence) = {} /\ OriginsOf({}) = {}
  BY DEF ToSet, OriginsOf
<1> QED
  BY <1>1 DEF Extends, Follows, PathsCovered

(* The elements before a place of a sequence. *)
LEMMA BeforeParts ==
  ASSUME NEW S, NEW m \in Seq(S)
  PROVE  /\ Len(m) \in Nat /\ DOMAIN m = 1 .. Len(m) /\ \A k \in 1 .. Len(m) : m[k] \in S
         /\ Before(m, Len(m) + 1) = ToSet(m)
         /\ \A k \in 1 .. Len(m) : m[k] \in ToSet(m) /\ Before(m, k) \subseteq ToSet(m)
         /\ \A k, j \in 1 .. Len(m) : j < k => m[j] \in Before(m, k)
<1>1. Len(m) \in Nat /\ DOMAIN m = 1 .. Len(m)
  BY LenProperties
<1>2. \A k \in 1 .. Len(m) : m[k] \in S
  OBVIOUS
<1>3. ToSet(m) = {m[k] : k \in 1 .. Len(m)}
  BY <1>1 DEF ToSet
<1>4. Before(m, Len(m) + 1) = ToSet(m)
  BY <1>1, <1>3 DEF Before
<1>5. \A k \in 1 .. Len(m) : m[k] \in ToSet(m) /\ Before(m, k) \subseteq ToSet(m)
  BY <1>1, <1>3 DEF Before
<1>6. \A k, j \in 1 .. Len(m) : j < k => m[j] \in Before(m, k)
  BY <1>1 DEF Before
<1> QED
  BY <1>1, <1>2, <1>4, <1>5, <1>6

LEMMA SameBefore ==
  ASSUME NEW m, NEW o, NEW k \in Nat, \A j \in 1 .. k - 1 : m[j] = o[j]
  PROVE  Before(m, k) = Before(o, k)
  BY DEF Before

(* A partial match grows by a walk that goes on. *)
LEMMA Grows ==
  ASSUME NEW m \in Partial, NEW i \in 1 .. Len(finished), Follows(ToSet(m), i)
  PROVE  Append(m, i) \in Partial
<1> DEFINE N == 1 .. Len(finished)
           s == Append(m, i)
<1>1. m \in Seq(N) /\ i \in N /\ \A k \in DOMAIN m : Follows(Before(m, k), m[k])
  BY DEF Partial
<1> HIDE DEF N
<1>2. /\ s \in Seq(N) /\ Len(m) \in Nat /\ DOMAIN m = 1 .. Len(m) /\ DOMAIN s = 1 .. Len(m) + 1
      /\ \A k \in 1 .. Len(m) : s[k] = m[k]
      /\ s[Len(m) + 1] = i
  BY <1>1, Appended
<1> HIDE DEF s
<1>3. ASSUME NEW k \in 1 .. Len(m) + 1 PROVE Follows(Before(s, k), s[k])
  <2>1. \A j \in 1 .. k - 1 : s[j] = m[j]
    BY <1>2
  <2>2. Before(s, k) = Before(m, k)
    BY <1>2, <2>1, SameBefore
  <2>3. CASE k = Len(m) + 1
    BY <1>1, <1>2, <2>2, <2>3, BeforeParts
  <2>4. CASE k # Len(m) + 1
    <3>1. k \in 1 .. Len(m)
      BY <1>2, <2>4
    <3> QED
      BY <1>1, <1>2, <2>2, <3>1
  <2> QED
    BY <2>3, <2>4
<1> QED
  BY <1>2, <1>3 DEF Partial, N, s

(* No partial match goes on from one that covers all paths. *)
LEMMA NothingFollows ==
  ASSUME SearchInv, NEW p \in Partial, Covers(p), NEW m \in Partial,
         Len(p) <= Len(m), \A j \in 1 .. Len(p) : m[j] = p[j]
  PROVE  m = p
<1>1. /\ p \in Seq(1 .. Len(finished)) /\ m \in Seq(1 .. Len(finished))
      /\ \A k \in DOMAIN m : Follows(Before(m, k), m[k])
  BY DEF Partial
<1> DEFINE L == Len(p)
<1>2. /\ L \in Nat /\ DOMAIN p = 1 .. L /\ Before(p, L + 1) = ToSet(p)
      /\ Len(m) \in Nat /\ DOMAIN m = 1 .. Len(m) /\ \A k \in 1 .. Len(m) : m[k] \in 1 .. Len(finished)
  BY <1>1, BeforeParts
<1> HIDE DEF L
<1>3. ASSUME Len(m) # L PROVE FALSE
  <2>1. L + 1 \in 1 .. Len(m) /\ L + 1 \in Nat
    <3>1. L <= Len(m) /\ L \in Nat /\ Len(m) \in Nat
      BY <1>2 DEF L
    <3> QED
      BY <1>3, <3>1
  <2>2. \A j \in 1 .. (L + 1) - 1 : m[j] = p[j]
    BY <1>2 DEF L
  <2>3. Before(m, L + 1) = ToSet(p)
    BY <1>2, <2>1, <2>2, SameBefore
  <2>4. Follows(ToSet(p), m[L + 1])
    BY <1>1, <1>2, <2>1, <2>3
  <2> QED
    BY <1>2, <2>1, <2>4, CoversNext DEF Covers
<1>4. Len(m) = Len(p)
  BY <1>3 DEF L
<1> QED
  BY <1>1, <1>2, <1>4, SeqEqual DEF L

-----------------------------------------------------------------------------
(* What stands still while walks are combined. *)
LEMMA TreeStands ==
  ASSUME UNCHANGED vars
  PROVE  /\ Partial' = Partial
         /\ \A m : (Covers(m)' <=> Covers(m)) /\ (Good(m)' <=> Good(m))
<1>1. finished' = finished /\ problem' = problem
  BY DEF vars, arguments
<1> QED
  BY <1>1 DEF Partial, Follows, Before, Origin, OriginsOf, Covers, Good, RequiredBy, CoveredBy

(* The first loop over all walks has begun, and nothing is found. *)
Untried == precedence = <<>> /\ cursors = <<1>> /\ matches = <<>>

LEMMA NothingVisited == Untried => TreeInv
<1> SUFFICES ASSUME Untried PROVE TreeInv
  OBVIOUS
<1> USE DEF Untried
<1>1. ASSUME NEW m \in Seq(1 .. Len(finished)) PROVE ~ Visited(m)
  <2>1. \A k \in DOMAIN m : ~ (m[k] < 1)
    <3>1. \A k \in DOMAIN m : m[k] \in 1 .. Len(finished)
      OBVIOUS
    <3> QED
      BY <3>1
  <2>2. cursors # <<>> /\ \A k \in DOMAIN cursors : ~ (k <= Len(precedence)) /\ cursors[k] = 1
    OBVIOUS
  <2> QED
    BY <2>1, <2>2 DEF Visited, Passed, At
<1>2. precedence \in Partial
  BY DEF Partial
<1>3. \A m : m \in Partial => ~ Visited(m)
  BY <1>1 DEF Partial
<1>4. IsInjective(matches) /\ ToSet(matches) = {}
  BY DEF IsInjective, ToSet
<1> QED
  BY <1>2, <1>3, <1>4 DEF TreeInv

LEMMA InitTree == CombinationInit => TreeInv
  BY NothingVisited DEF CombinationInit, Untried

LEMMA ExploreTree == CombinationInv /\ Explore => TreeInv'
<1> SUFFICES ASSUME CombinationInv, Explore PROVE TreeInv'
  OBVIOUS
<1>1. ~ Exhausted
  BY DEF Explore, Next, Begin, Visit, Cross, Arrive, Exhausted, Idle
<1>2. Untried'
  BY <1>1 DEF CombinationInv, Explore, combination, Untried
<1>3. Untried' => TreeInv'
  BY NothingVisited, PTL
<1> QED
  BY <1>2, <1>3

(* The matches below the place where the calls are. *)
Below(m) == Len(precedence) <= Len(m) /\ \A j \in 1 .. Len(precedence) : m[j] = precedence[j]

(* The stack while a call is at work. *)
LEMMA CallFacts ==
  ASSUME CombinationInv, TreeInv, Calling
  PROVE  /\ Len(precedence) \in Nat /\ DOMAIN precedence = 1 .. Len(precedence)
         /\ Len(cursors) = Len(precedence) + 1 /\ DOMAIN cursors = 1 .. Len(precedence) + 1
         /\ \A k \in 1 .. Len(precedence) : precedence[k] \in Nat /\ cursors[k] = precedence[k] + 1
         /\ Len(finished) \in Nat
         /\ \A m \in Partial : /\ Len(m) \in Nat /\ DOMAIN m = 1 .. Len(m)
                               /\ \A k \in 1 .. Len(m) : m[k] \in 1 .. Len(finished)
<1> DEFINE N == 1 .. Len(finished)
           M == 1 .. Len(finished) + 1
<1>1. /\ precedence \in Seq(N) /\ cursors \in Seq(M) /\ cursors # <<>>
      /\ Len(cursors) \in {Len(precedence), Len(precedence) + 1}
      /\ precedence # <<>> => Len(cursors) = Len(precedence) + 1
      /\ \A k \in DOMAIN precedence : cursors[k] = precedence[k] + 1
  BY DEF CombinationInv, StackInv, Calling, TreeInv
<1>2. Len(finished) \in Nat
  BY FinishedCount DEF CombinationInv
<1>3. N \subseteq Nat
  BY <1>2
<1>4. \A m \in Partial : m \in Seq(N)
  BY DEF Partial
<1> HIDE DEF N, M
<1>5. /\ Len(precedence) \in Nat /\ DOMAIN precedence = 1 .. Len(precedence)
      /\ \A k \in 1 .. Len(precedence) : precedence[k] \in N
      /\ Len(cursors) \in Nat /\ DOMAIN cursors = 1 .. Len(cursors) /\ Len(cursors) # 0
  BY <1>1, BeforeParts, EmptySeq
<1>6. precedence = <<>> => Len(precedence) = 0
  OBVIOUS
<1>7. Len(cursors) = Len(precedence) + 1
  BY <1>1, <1>5, <1>6
<1>8. \A m \in Partial : /\ Len(m) \in Nat /\ DOMAIN m = 1 .. Len(m) /\ \A k \in 1 .. Len(m) : m[k] \in N
  BY <1>4, BeforeParts
<1> QED
  BY <1>1, <1>2, <1>3, <1>5, <1>7, <1>8 DEF N

(* A call returns: what is below it counts as visited. *)
LEMMA ReturnVisits ==
  ASSUME CombinationInv, TreeInv, Calling, UNCHANGED vars, Return, NEW m \in Partial
  PROVE  Visited(m)' <=> Visited(m) \/ Below(m)
<1> DEFINE L == Len(precedence)
<1>1. /\ L \in Nat /\ DOMAIN precedence = 1 .. L /\ Len(cursors) = L + 1 /\ DOMAIN cursors = 1 .. L + 1
      /\ \A k \in 1 .. L : precedence[k] \in Nat /\ cursors[k] = precedence[k] + 1
      /\ Len(m) \in Nat /\ DOMAIN m = 1 .. Len(m) /\ \A k \in 1 .. Len(m) : m[k] \in Nat
  BY CallFacts
<1>2. cursors # <<>> /\ cursors \in Seq(1 .. Len(finished) + 1) /\ precedence \in Seq(1 .. Len(finished))
      /\ cursors' = Front(cursors)
  BY DEF Return, Calling, CombinationInv, StackInv
<1>3. Len(cursors') = L /\ DOMAIN cursors' = 1 .. L /\ \A k \in 1 .. L : cursors'[k] = cursors[k]
  <2> DEFINE M == 1 .. Len(finished) + 1
  <2>1. cursors \in Seq(M)
    BY <1>2
  <2> HIDE DEF M, L
  <2>2. /\ Len(cursors') = Len(cursors) - 1 /\ DOMAIN cursors' = 1 .. Len(cursors) - 1
        /\ \A k \in 1 .. Len(cursors) - 1 : cursors'[k] = cursors[k]
    BY <1>2, <2>1, Shortened
  <2>3. Len(cursors) - 1 = L
    BY <1>1
  <2> QED
    BY <2>2, <2>3
<1>4. CASE precedence = <<>>
  <2>1. L = 0
    BY <1>4
  <2>2. cursors' = <<>>
    <3>1. cursors' \in Seq(1 .. Len(finished) + 1)
      <4> DEFINE M == 1 .. Len(finished) + 1
      <4> HIDE DEF M
      <4>1. cursors \in Seq(M) => cursors' \in Seq(M)
        BY <1>2, Shortened
      <4> QED
        BY <1>2, <4>1 DEF M
    <3> QED
      BY <1>3, <2>1, <3>1, EmptySeq
  <2> QED
    BY <1>1, <2>1, <2>2 DEF Visited, Below
<1>5. CASE precedence # <<>>
  <2>1. /\ L > 0 /\ Len(precedence') = L - 1
        /\ \A k \in 1 .. L - 1 : precedence'[k] = precedence[k]
    <3> DEFINE N == 1 .. Len(finished)
    <3> HIDE DEF N
    <3>1. precedence \in Seq(N) => /\ Len(precedence) > 0 /\ Len(precedence') = Len(precedence) - 1
                                   /\ \A k \in 1 .. Len(precedence) - 1 : precedence'[k] = precedence[k]
      BY <1>5, Shortened DEF Return
    <3> QED
      BY <1>2, <3>1 DEF N
  <2> HIDE DEF L
  <2>2. \A k \in 1 .. L : At(k) = precedence[k]
    BY <1>1 DEF At, L
  <2>3. cursors # <<>> /\ cursors' # <<>>
    <3>1. L # 0 /\ Len(<<>>) = 0
      BY <2>1
    <3> QED
      BY <1>2, <1>3, <3>1
  <2>4. Passed(m)' <=> Passed(m) \/ Below(m)
    <3>1. Passed(m)' <=> \E k \in 1 .. L : /\ k \in 1 .. Len(m) /\ \A j \in 1 .. k - 1 : m[j] = precedence[j]
                                           /\ m[k] < IF k = L THEN precedence[L] + 1 ELSE precedence[k]
      <4>1. \A k \in 1 .. L : \A j \in 1 .. k - 1 : precedence'[j] = precedence[j]
        BY <1>1, <2>1
      <4>2. \A k \in 1 .. L : (IF k <= Len(precedence') THEN precedence'[k] ELSE cursors'[k])
                                = IF k = L THEN precedence[L] + 1 ELSE precedence[k]
        <5>1. ASSUME NEW k \in 1 .. L, k = L PROVE ~ (k <= Len(precedence')) /\ cursors'[k] = precedence[L] + 1
          BY <1>1, <1>3, <2>1, <5>1
        <5>2. ASSUME NEW k \in 1 .. L, k # L PROVE k <= Len(precedence') /\ precedence'[k] = precedence[k]
          BY <1>1, <2>1, <5>2
        <5> QED
          BY <5>1, <5>2
      <4>3. Passed(m)' <=> \E k \in 1 .. L : /\ k \in 1 .. Len(m) /\ \A j \in 1 .. k - 1 : m[j] = precedence'[j]
                                             /\ m[k] < (IF k <= Len(precedence') THEN precedence'[k] ELSE cursors'[k])
        <5>1. DOMAIN cursors' = 1 .. L /\ DOMAIN m = 1 .. Len(m)
          BY <1>1, <1>3
        <5> QED
          BY <5>1, Zenon DEF Passed, At
      <4>4. ASSUME NEW k \in 1 .. L
            PROVE  (\A j \in 1 .. k - 1 : m[j] = precedence'[j]) <=> (\A j \in 1 .. k - 1 : m[j] = precedence[j])
        BY <4>1
      <4> QED
        BY <4>2, <4>3, <4>4, Zenon
    <3>2. ASSUME Passed(m)' PROVE Passed(m) \/ Below(m)
      <4>1. PICK k \in 1 .. L : /\ k \in 1 .. Len(m) /\ \A j \in 1 .. k - 1 : m[j] = precedence[j]
                                /\ m[k] < IF k = L THEN precedence[L] + 1 ELSE precedence[k]
        BY <3>1, <3>2
      <4>2. CASE m[k] < precedence[k]
        <5>1. k \in DOMAIN cursors /\ k \in DOMAIN m /\ At(k) = precedence[k]
          BY <1>1, <2>2, <4>1
        <5> QED
          BY <4>1, <4>2, <5>1 DEF Passed
      <4>3. CASE ~ (m[k] < precedence[k])
        <5>1. k = L
          BY <4>1, <4>3
        <5>2. m[L] = precedence[L]
          BY <1>1, <4>1, <4>3, <5>1
        <5>3. \A j \in 1 .. L : m[j] = precedence[j]
          <6>1. \A j \in 1 .. L : j \in 1 .. L - 1 \/ j = L
            BY <1>1
          <6> QED
            BY <4>1, <5>1, <5>2, <6>1
        <5> QED
          BY <1>1, <4>1, <5>1, <5>3 DEF Below, L
      <4> QED
        BY <4>2, <4>3
    <3>3. ASSUME Passed(m) PROVE Passed(m)'
      <4>1. PICK k \in 1 .. L + 1 : /\ k \in 1 .. Len(m) /\ \A j \in 1 .. k - 1 : m[j] = precedence[j]
                                    /\ m[k] < At(k)
        BY <1>1, <3>3 DEF Passed
      <4>2. CASE k = L + 1
        <5>1. L \in 1 .. k - 1 /\ L \in 1 .. L /\ L \in 1 .. Len(m) /\ L - 1 < k
          BY <1>1, <2>1, <4>1, <4>2
        <5>2. m[L] < precedence[L] + 1
          BY <1>1, <4>1, <5>1
        <5>3. \A j \in 1 .. L - 1 : m[j] = precedence[j]
          BY <1>1, <4>1, <4>2
        <5> QED
          BY <3>1, <5>1, <5>2, <5>3
      <4>3. CASE k # L + 1
        <5>1. k \in 1 .. L /\ At(k) = precedence[k]
          BY <1>1, <2>2, <4>1, <4>3
        <5>2. m[k] < IF k = L THEN precedence[L] + 1 ELSE precedence[k]
          BY <1>1, <4>1, <5>1
        <5> QED
          BY <3>1, <4>1, <5>1, <5>2
      <4> QED
        BY <4>2, <4>3
    <3>4. ASSUME Below(m) PROVE Passed(m)'
      <4>1. L \in 1 .. L /\ L \in 1 .. Len(m) /\ \A j \in 1 .. L : m[j] = precedence[j]
        BY <1>1, <2>1, <3>4 DEF Below, L
      <4>2. m[L] < precedence[L] + 1 /\ \A j \in 1 .. L - 1 : m[j] = precedence[j]
        BY <1>1, <4>1
      <4> QED
        BY <3>1, <4>1, <4>2
    <3> QED
      BY <3>2, <3>3, <3>4
  <2> QED
    BY <2>3, <2>4 DEF Visited
<1> QED
  BY <1>4, <1>5

(* What a return leaves of the invariant. *)
LEMMA ReturnTree ==
  ASSUME CombinationInv, TreeInv, Calling, UNCHANGED vars, Return
  PROVE  /\ precedence' \in Partial'
         /\ \A k \in DOMAIN precedence' : cursors'[k] = precedence'[k] + 1
<1> DEFINE N == 1 .. Len(finished)
           M == 1 .. Len(finished) + 1
<1>1. Partial' = Partial /\ precedence \in Partial /\ precedence \in Seq(N)
      /\ \A k \in DOMAIN precedence : Follows(Before(precedence, k), precedence[k])
  BY TreeStands DEF TreeInv, Partial
<1>2. CASE precedence = <<>>
  BY <1>1, <1>2 DEF Return
<1>3. CASE precedence # <<>>
  <2> DEFINE L == Len(precedence)
  <2>1. /\ L \in Nat /\ Len(cursors) = L + 1
        /\ \A k \in 1 .. L : cursors[k] = precedence[k] + 1
    BY CallFacts
  <2>2. cursors \in Seq(M) /\ cursors # <<>> /\ cursors' = Front(cursors) /\ precedence' = Front(precedence)
    BY <1>3 DEF CombinationInv, StackInv, Calling, Return
  <2> HIDE DEF N, M
  <2>3. /\ precedence' \in Seq(N) /\ DOMAIN precedence = 1 .. L /\ DOMAIN precedence' = 1 .. L - 1
        /\ \A k \in 1 .. L - 1 : precedence'[k] = precedence[k]
    BY <1>1, <1>3, <2>2, Shortened
  <2>4. \A k \in 1 .. Len(cursors) - 1 : cursors'[k] = cursors[k]
    BY <2>2, Shortened
  <2> HIDE DEF L
  <2>5. \A k \in 1 .. L - 1 : k \in 1 .. L /\ cursors'[k] = cursors[k]
    BY <2>1, <2>4
  <2>6. ASSUME NEW k \in 1 .. L - 1 PROVE Follows(Before(precedence', k), precedence'[k])
    <3>1. \A j \in 1 .. k - 1 : precedence'[j] = precedence[j]
      BY <2>1, <2>3
    <3>2. k \in Nat /\ k \in 1 .. L
      BY <2>1
    <3>3. Before(precedence', k) = Before(precedence, k)
      BY <3>1, <3>2, SameBefore
    <3> QED
      BY <1>1, <2>3, <3>2, <3>3
  <2>7. precedence' \in Partial
    BY <2>3, <2>6 DEF Partial, N
  <2> QED
    BY <1>1, <2>1, <2>3, <2>5, <2>7
<1> QED
  BY <1>2, <1>3

(* A call that finds all paths covered reports the only match below it. *)
LEMMA ReportTree == CombinationInv /\ TreeInv /\ Report => TreeInv'
<1> SUFFICES ASSUME CombinationInv, TreeInv, Report PROVE TreeInv'
  OBVIOUS
<1>1. Calling /\ UNCHANGED vars /\ Return /\ Covers(precedence) /\ precedence \in Partial
      /\ matches' = IF Good(precedence) THEN Append(matches, precedence) ELSE matches
  BY DEF Report, Complete, PathsCovered, Covers, Good, TreeInv
<1>2. \A m \in Partial : Below(m) <=> m = precedence
  <2>1. SearchInv
    BY DEF CombinationInv
  <2>2. Len(precedence) \in Nat
    BY <1>1, CallFacts
  <2> QED
    BY <1>1, <2>1, <2>2, NothingFollows DEF Below
<1>3. ~ Visited(precedence)
  <2>1. /\ Len(precedence) \in Nat /\ DOMAIN precedence = 1 .. Len(precedence)
        /\ \A k \in 1 .. Len(precedence) : precedence[k] \in Nat
    BY <1>1, CallFacts
  <2>2. \A k \in DOMAIN precedence : ~ (precedence[k] < At(k))
    BY <2>1 DEF At
  <2> QED
    BY <1>1, <2>2 DEF Visited, Passed, Calling
<1>4. \A m \in Partial : Visited(m)' <=> Visited(m) \/ m = precedence
  BY <1>1, <1>2, ReturnVisits
<1>5. matches \in Seq(Seq(1 .. Len(finished))) /\ precedence \in Seq(1 .. Len(finished)) /\ IsInjective(matches)
  BY DEF CombinationInv, StackInv, TreeInv
<1>6. IsInjective(matches') /\ ToSet(matches') = ToSet(matches) \cup (IF Good(precedence) THEN {precedence} ELSE {})
  <2>1. CASE Good(precedence)
    <3> DEFINE T == Seq(1 .. Len(finished))
               s == Append(matches, precedence)
    <3>1. matches \in Seq(T) /\ precedence \in T
      BY <1>5
    <3> HIDE DEF T
    <3>2. /\ Len(matches) \in Nat /\ DOMAIN matches = 1 .. Len(matches)
          /\ DOMAIN s = 1 .. Len(matches) + 1
          /\ \A i \in 1 .. Len(matches) : s[i] = matches[i]
          /\ s[Len(matches) + 1] = precedence
          /\ ToSet(s) = ToSet(matches) \cup {precedence}
      BY <3>1, Appended
    <3> HIDE DEF s
    <3>3. \A i \in 1 .. Len(matches) : matches[i] # precedence
      BY <1>3, <3>2 DEF TreeInv, ToSet
    <3>4. \A i, j \in 1 .. Len(matches) : matches[i] = matches[j] => i = j
      BY <1>5, <3>2 DEF IsInjective
    <3>5. \A i \in DOMAIN s : i \in 1 .. Len(matches) \/ i = Len(matches) + 1
      BY <3>2
    <3>6. IsInjective(s)
      BY <3>2, <3>3, <3>4, <3>5 DEF IsInjective
    <3>7. matches' = s
      BY <1>1, <2>1 DEF s
    <3> QED
      BY <2>1, <3>2, <3>6, <3>7
  <2>2. CASE ~ Good(precedence)
    BY <1>1, <1>5, <2>2
  <2> QED
    BY <2>1, <2>2
<1>7. \A m : m \in ToSet(matches') <=> m \in Partial /\ Covers(m) /\ Good(m) /\ Visited(m)'
  BY <1>1, <1>4, <1>6 DEF TreeInv
<1>8. \A m : m \in ToSet(matches)' <=> m \in Partial' /\ Covers(m)' /\ Good(m)' /\ Visited(m)'
  <2>1. Partial' = Partial /\ \A m : (Covers(m)' <=> Covers(m)) /\ (Good(m)' <=> Good(m))
    BY <1>1, TreeStands
  <2> QED
    BY <1>7, <2>1
<1> QED
  BY <1>1, <1>6, <1>8, ReturnTree DEF TreeInv

(* A call that has tried every walk leaves no match below it. *)
LEMMA GiveUpTree == CombinationInv /\ TreeInv /\ GiveUp => TreeInv'
<1> SUFFICES ASSUME CombinationInv, TreeInv, GiveUp PROVE TreeInv'
  OBVIOUS
<1>1. Calling /\ UNCHANGED vars /\ Return /\ ~ Covers(precedence) /\ matches' = matches
      /\ cursors \in Seq(1 .. Len(finished) + 1) /\ cursors # <<>> /\ Last(cursors) > Len(finished)
  BY DEF GiveUp, Complete, PathsCovered, Covers, CombinationInv, StackInv, Calling
<1>2. ASSUME NEW m \in Partial, Covers(m), Below(m) PROVE Visited(m)
  <2> DEFINE L == Len(precedence)
  <2>1. /\ L \in Nat /\ Len(cursors) = L + 1 /\ DOMAIN cursors = 1 .. L + 1
        /\ Len(m) \in Nat /\ DOMAIN m = 1 .. Len(m) /\ \A k \in 1 .. Len(m) : m[k] \in 1 .. Len(finished)
        /\ Len(finished) \in Nat
    BY <1>1, CallFacts
  <2>2. Last(cursors) = cursors[L + 1]
    BY <2>1 DEF Last
  <2>3. L <= Len(m) /\ \A j \in 1 .. L : m[j] = precedence[j]
    BY <1>2 DEF Below
  <2>4. Len(m) # L
    <3>1. precedence \in Seq(1 .. Len(finished)) /\ m \in Seq(1 .. Len(finished))
      BY DEF TreeInv, Partial
    <3>2. Len(m) = L => m = precedence
      BY <2>3, <3>1, SeqEqual
    <3> QED
      BY <1>1, <1>2, <3>2
  <2> HIDE DEF L
  <2>5. L + 1 \in 1 .. Len(m) /\ (L + 1) - 1 = L
    <3>1. L \in Nat /\ Len(m) \in Nat /\ L <= Len(m) /\ Len(m) # L
      BY <2>1, <2>3, <2>4
    <3> QED
      BY <3>1
  <2>6. m[L + 1] < cursors[L + 1]
    <3>1. cursors[L + 1] \in Nat
      BY <1>1, <2>1
    <3> QED
      BY <1>1, <2>1, <2>2, <2>5, <3>1
  <2>7. At(L + 1) = cursors[L + 1]
    BY <2>1 DEF At, L
  <2>8. L + 1 \in DOMAIN cursors /\ L + 1 \in DOMAIN m /\ \A j \in 1 .. (L + 1) - 1 : m[j] = precedence[j]
    BY <2>1, <2>3, <2>5
  <2> QED
    BY <2>6, <2>7, <2>8 DEF Visited, Passed
<1>3. \A m \in Partial : Covers(m) => (Visited(m)' <=> Visited(m))
  BY <1>1, <1>2, ReturnVisits
<1>4. \A m : m \in ToSet(matches)' <=> m \in Partial' /\ Covers(m)' /\ Good(m)' /\ Visited(m)'
  <2>1. Partial' = Partial /\ \A m : (Covers(m)' <=> Covers(m)) /\ (Good(m)' <=> Good(m))
    BY <1>1, TreeStands
  <2>2. \A m : m \in ToSet(matches') <=> m \in Partial /\ Covers(m) /\ Good(m) /\ Visited(m)'
    BY <1>1, <1>3 DEF TreeInv
  <2> QED
    BY <2>1, <2>2
<1> QED
  BY <1>1, <1>4, ReturnTree DEF TreeInv

(* A call tries the next walk: no match is passed over. *)
LEMMA TryTree == CombinationInv /\ TreeInv /\ Try => TreeInv'
<1> SUFFICES ASSUME CombinationInv, TreeInv, Try PROVE TreeInv'
  OBVIOUS
<1> DEFINE L == Len(precedence)
           N == 1 .. Len(finished)
           M == 1 .. Len(finished) + 1
           i == Last(cursors)
           advanced == Append(Front(cursors), i + 1)
<1>1. /\ Calling /\ UNCHANGED vars /\ matches' = matches
      /\ cursors \in Seq(M) /\ cursors # <<>> /\ i <= Len(finished)
      /\ IF Extends(i) THEN precedence' = Append(precedence, i) /\ cursors' = Append(advanced, 1)
                       ELSE cursors' = advanced /\ precedence' = precedence
      /\ precedence \in Seq(N) /\ precedence \in Partial
      /\ Extends(i) <=> Follows(ToSet(precedence), i)
  BY ExtendsIsFollows DEF Try, CombinationInv, StackInv, Calling, TreeInv
<1>2. /\ L \in Nat /\ DOMAIN precedence = 1 .. L /\ Len(cursors) = L + 1 /\ DOMAIN cursors = 1 .. L + 1
      /\ \A k \in 1 .. L : precedence[k] \in Nat /\ cursors[k] = precedence[k] + 1
      /\ Len(finished) \in Nat
      /\ \A m \in Partial : /\ Len(m) \in Nat /\ DOMAIN m = 1 .. Len(m)
                            /\ \A k \in 1 .. Len(m) : m[k] \in 1 .. Len(finished)
  BY <1>1, CallFacts
<1>3. /\ Front(cursors) \in Seq(M) /\ Len(Front(cursors)) = Len(cursors) - 1
      /\ \A k \in 1 .. Len(cursors) - 1 : Front(cursors)[k] = cursors[k]
      /\ i \in M /\ i = cursors[Len(cursors)]
  <2> HIDE DEF M
  <2> QED
    BY <1>1, Shortened
<1>4. i \in N /\ i + 1 \in M /\ 1 \in M /\ i \in Nat
  BY <1>1, <1>2, <1>3
<1>5. i = cursors[L + 1]
  BY <1>2, <1>3
<1> HIDE DEF i, N, M
<1>6. /\ advanced \in Seq(M) /\ Len(advanced) = L + 1 /\ DOMAIN advanced = 1 .. L + 1
      /\ \A k \in 1 .. L : advanced[k] = cursors[k]
      /\ advanced[L + 1] = i + 1
  <2>1. Len(Front(cursors)) = L /\ \A k \in 1 .. L : Front(cursors)[k] = cursors[k]
    BY <1>2, <1>3
  <2> QED
    BY <1>3, <1>4, <2>1, Appended
<1> HIDE DEF advanced
<1>7. \A k \in 1 .. L + 1 : At(k) = IF k = L + 1 THEN i ELSE precedence[k]
  BY <1>2, <1>5 DEF At
<1> HIDE DEF L
<1>8. \A m \in Partial : Passed(m) <=>
        \E k \in 1 .. L + 1 : /\ k \in 1 .. Len(m) /\ \A j \in 1 .. k - 1 : m[j] = precedence[j]
                              /\ m[k] < IF k = L + 1 THEN i ELSE precedence[k]
  BY <1>2, <1>7 DEF Passed
<1>9. cursors # <<>> /\ cursors' # <<>>
  <2>1. advanced # <<>>
    BY <1>2, <1>6
  <2>2. Append(advanced, 1) # <<>>
    <3>1. Len(Append(advanced, 1)) = (L + 1) + 1
      BY <1>4, <1>6, Appended
    <3>2. Len(<<>>) = 0 /\ (L + 1) + 1 # 0
      BY <1>2
    <3> QED
      BY <3>1, <3>2
  <2> QED
    BY <1>1, <2>1, <2>2
<1>10. CASE Extends(i) /\ precedence' = Append(precedence, i) /\ cursors' = Append(advanced, 1)
  <2>1. precedence' \in Partial
    BY <1>1, <1>4, <1>10, Grows DEF N
  <2>2. /\ Len(precedence') = L + 1 /\ DOMAIN precedence' = 1 .. L + 1
        /\ \A k \in 1 .. L : precedence'[k] = precedence[k]
        /\ precedence'[L + 1] = i
    BY <1>1, <1>4, <1>10, Appended DEF L
  <2>3. /\ DOMAIN cursors' = 1 .. (L + 1) + 1
        /\ \A k \in 1 .. L + 1 : cursors'[k] = advanced[k]
        /\ cursors'[(L + 1) + 1] = 1
    BY <1>4, <1>6, <1>10, Appended
  <2>4. \A k \in DOMAIN precedence' : cursors'[k] = precedence'[k] + 1
    <3>1. \A k \in 1 .. L + 1 : k \in 1 .. L \/ k = L + 1
      BY <1>2
    <3> QED
      BY <1>2, <1>6, <2>2, <2>3, <3>1
  <2>5. ASSUME NEW m \in Partial PROVE Passed(m)' <=> Passed(m)
    <3>1. Passed(m)' <=> \E k \in 1 .. (L + 1) + 1 :
             /\ k \in 1 .. Len(m) /\ \A j \in 1 .. k - 1 : m[j] = precedence'[j]
             /\ m[k] < (IF k <= Len(precedence') THEN precedence'[k] ELSE cursors'[k])
      <4>1. DOMAIN cursors' = 1 .. (L + 1) + 1 /\ DOMAIN m = 1 .. Len(m)
        BY <1>2, <2>3
      <4> QED
        BY <4>1, Zenon DEF Passed, At
    <3>2. ASSUME NEW k \in 1 .. L + 1
          PROVE  (IF k <= Len(precedence') THEN precedence'[k] ELSE cursors'[k]) = IF k = L + 1 THEN i ELSE precedence[k]
      <4>1. k <= Len(precedence')
        BY <1>2, <2>2
      <4>2. k # L + 1 => precedence'[k] = precedence[k]
        BY <1>2, <2>2
      <4> QED
        BY <2>2, <4>1, <4>2
    <3>3. ASSUME NEW k \in 1 .. L + 1
          PROVE  (\A j \in 1 .. k - 1 : m[j] = precedence'[j]) <=> (\A j \in 1 .. k - 1 : m[j] = precedence[j])
      BY <1>2, <2>2
    <3>4. ASSUME NEW k \in 1 .. (L + 1) + 1, k \notin 1 .. L + 1, k \in 1 .. Len(m)
          PROVE  ~ (m[k] < (IF k <= Len(precedence') THEN precedence'[k] ELSE cursors'[k]))
      <4>1. k = (L + 1) + 1
        BY <1>2, <3>4
      <4>2. ~ (k <= Len(precedence'))
        BY <1>2, <2>2, <4>1
      <4>3. ~ (m[k] < 1)
        BY <1>2, <3>4
      <4> QED
        BY <2>3, <4>1, <4>2, <4>3
    <3>5. \A k \in 1 .. L + 1 : k \in 1 .. (L + 1) + 1
      BY <1>2
    <3> QED
      BY <1>8, <3>1, <3>2, <3>3, <3>4, <3>5, Zenon
  <2> QED
    BY <1>1, <1>9, <2>1, <2>4, <2>5, TreeStands DEF TreeInv, Visited
<1>11. CASE ~ Extends(i) /\ precedence' = precedence /\ cursors' = advanced
  <2>1. \A k \in DOMAIN precedence' : cursors'[k] = precedence'[k] + 1
    BY <1>2, <1>6, <1>11
  <2>2. ASSUME NEW m \in Partial PROVE Passed(m)' <=> Passed(m)
    <3>1. Passed(m)' <=> \E k \in 1 .. L + 1 :
             /\ k \in 1 .. Len(m) /\ \A j \in 1 .. k - 1 : m[j] = precedence[j]
             /\ m[k] < (IF k <= Len(precedence) THEN precedence[k] ELSE cursors'[k])
      <4>1. DOMAIN cursors' = 1 .. L + 1 /\ DOMAIN m = 1 .. Len(m) /\ precedence' = precedence
        BY <1>2, <1>6, <1>11
      <4> QED
        BY <4>1, Zenon DEF Passed, At
    <3>2. ASSUME NEW k \in 1 .. L + 1
          PROVE  (IF k <= Len(precedence) THEN precedence[k] ELSE cursors'[k]) = IF k = L + 1 THEN i + 1 ELSE precedence[k]
      <4>1. CASE k = L + 1
        BY <1>2, <1>6, <1>11, <4>1 DEF L
      <4>2. CASE k # L + 1
        BY <1>2, <4>2 DEF L
      <4> QED
        BY <4>1, <4>2
    <3>3. ASSUME L + 1 \in 1 .. Len(m), \A j \in 1 .. (L + 1) - 1 : m[j] = precedence[j]
          PROVE  m[L + 1] # i
      <4>1. L + 1 \in Nat
        BY <1>2
      <4>2. Before(m, L + 1) = Before(precedence, L + 1)
        BY <3>3, <4>1, SameBefore
      <4>3. Before(precedence, L + 1) = ToSet(precedence)
        BY <1>1, BeforeParts DEF L
      <4>4. Follows(Before(m, L + 1), m[L + 1])
        BY <1>2, <3>3 DEF Partial
      <4> QED
        BY <1>1, <1>11, <4>2, <4>3, <4>4
    <3>4. ASSUME L + 1 \in 1 .. Len(m), \A j \in 1 .. (L + 1) - 1 : m[j] = precedence[j]
          PROVE  m[L + 1] < i + 1 <=> m[L + 1] < i
      <4>1. m[L + 1] \in Nat /\ m[L + 1] # i
        BY <1>2, <3>3, <3>4
      <4> QED
        BY <1>4, <4>1
    <3> QED
      BY <1>8, <3>1, <3>2, <3>4
  <2> QED
    BY <1>1, <1>9, <1>11, <2>1, <2>2, TreeStands DEF TreeInv, Visited
<1> QED
  BY <1>1, <1>10, <1>11

LEMMA NextTree == CombinationInv /\ TreeInv /\ [CombinationNext]_allVars => TreeInv'
<1> SUFFICES ASSUME CombinationInv, TreeInv, [CombinationNext]_allVars PROVE TreeInv'
  OBVIOUS
<1>1. CASE CombinationNext
  BY <1>1, ExploreTree, ReportTree, TryTree, GiveUpTree DEF CombinationNext
<1>2. CASE UNCHANGED allVars
  <2>1. UNCHANGED vars /\ precedence' = precedence /\ cursors' = cursors /\ matches' = matches
    BY <1>2 DEF allVars, combination
  <2>2. \A m : Visited(m)' <=> Visited(m)
    BY <2>1 DEF Visited, Passed, At
  <2>3. \A m : m \in ToSet(matches)' <=> m \in Partial' /\ Covers(m)' /\ Good(m)' /\ Visited(m)'
    <3>1. Partial' = Partial /\ \A m : (Covers(m)' <=> Covers(m)) /\ (Good(m)' <=> Good(m))
      BY <2>1, TreeStands
    <3>2. \A m : m \in ToSet(matches') <=> m \in Partial /\ Covers(m) /\ Good(m) /\ Visited(m)
      BY <2>1 DEF TreeInv
    <3> QED
      BY <2>2, <3>1, <3>2
  <2> QED
    BY <2>1, <2>3, TreeStands DEF TreeInv
<1> QED
  BY <1>1, <1>2

-----------------------------------------------------------------------------
(* What one partial match says of its walks, whatever their order. *)
LEMMA PartialAgrees ==
  ASSUME SearchInv, NEW m \in Partial
  PROVE  /\ m \in Seq(1 .. Len(finished)) /\ ToSet(m) \subseteq 1 .. Len(finished)
         /\ Len(m) \in Nat /\ DOMAIN m = 1 .. Len(m)
         /\ \A i, j \in ToSet(m) : i # j => /\ AreCompatible(finished[i], finished[j])
                                            /\ Origin(finished[i]) \cap Origin(finished[j]) = {}
<1> DEFINE N == 1 .. Len(finished)
<1>1. m \in Seq(N) /\ \A k \in DOMAIN m : Follows(Before(m, k), m[k])
  BY DEF Partial
<1> HIDE DEF N
<1>2. /\ Len(m) \in Nat /\ DOMAIN m = 1 .. Len(m) /\ \A k \in 1 .. Len(m) : m[k] \in N
      /\ \A k, l \in 1 .. Len(m) : l < k => m[l] \in Before(m, k)
  BY <1>1, BeforeParts
<1>3. ASSUME NEW k \in 1 .. Len(m), NEW l \in 1 .. Len(m), l < k
      PROVE  /\ AreCompatible(finished[m[l]], finished[m[k]])
             /\ Origin(finished[m[k]]) \cap Origin(finished[m[l]]) = {}
  <2>1. m[l] \in Before(m, k) /\ Follows(Before(m, k), m[k])
    BY <1>1, <1>2, <1>3
  <2>2. Origin(finished[m[l]]) \subseteq OriginsOf(Before(m, k))
    BY <2>1 DEF OriginsOf
  <2> QED
    BY <2>1, <2>2 DEF Follows
<1>4. ASSUME NEW i \in ToSet(m), NEW j \in ToSet(m), i # j
      PROVE  AreCompatible(finished[i], finished[j]) /\ Origin(finished[i]) \cap Origin(finished[j]) = {}
  <2>1. PICK k, l \in 1 .. Len(m) : i = m[k] /\ j = m[l]
    BY <1>2 DEF ToSet
  <2>2. k < l \/ l < k
    <3>1. k # l /\ k \in Nat /\ l \in Nat
      BY <1>4, <2>1
    <3> QED
      BY <3>1
  <2>3. CASE k < l
    BY <1>3, <2>1, <2>3
  <2>4. CASE l < k
    <3>1. AreCompatible(finished[j], finished[i]) /\ Origin(finished[i]) \cap Origin(finished[j]) = {}
      BY <1>3, <2>1, <2>4
    <3> QED
      BY <3>1 DEF AreCompatible
  <2> QED
    BY <2>2, <2>3, <2>4
<1>5. ToSet(m) \subseteq N
  BY <1>2 DEF ToSet
<1> QED
  BY <1>1, <1>2, <1>4, <1>5 DEF N

(* Two complete matches of the same walks are the same match: the walk that *)
(* covers the lowest path left is the only one of them that does.           *)
LEMMA ShorterIsSame ==
  ASSUME SearchInv, NEW m \in Partial, NEW o \in Partial, Covers(m), ToSet(m) = ToSet(o), Len(m) <= Len(o)
  PROVE  m = o
<1> DEFINE N == 1 .. Len(finished)
<1>1. /\ m \in Seq(N) /\ o \in Seq(N)
      /\ \A k \in DOMAIN m : Follows(Before(m, k), m[k])
      /\ \A k \in DOMAIN o : Follows(Before(o, k), o[k])
  BY DEF Partial
<1> HIDE DEF N
<1>2. /\ Len(m) \in Nat /\ DOMAIN m = 1 .. Len(m) /\ \A k \in 1 .. Len(m) : m[k] \in N /\ m[k] \in ToSet(m)
      /\ Len(o) \in Nat /\ DOMAIN o = 1 .. Len(o) /\ \A k \in 1 .. Len(o) : o[k] \in N /\ o[k] \in ToSet(o)
  BY <1>1, BeforeParts
<1>3. ASSUME NEW k \in Nat, k \in 1 .. Len(m), k \in 1 .. Len(o), \A j \in 1 .. k - 1 : m[j] = o[j]
      PROVE  m[k] = o[k]
  <2> DEFINE W == Before(m, k)
             a == Min(problem.machine.origins \ OriginsOf(W))
  <2>1. Before(o, k) = W
    BY <1>3, SameBefore
  <2>2. Follows(W, m[k]) /\ Follows(W, o[k])
    BY <1>1, <1>2, <1>3, <2>1
  <2>3. a \in Origin(finished[m[k]]) /\ a \in Origin(finished[o[k]])
    BY <2>2 DEF Follows
  <2> HIDE DEF W, a
  <2>4. m[k] \in ToSet(m) /\ o[k] \in ToSet(m)
    BY <1>2, <1>3
  <2> QED
    BY <2>3, <2>4, PartialAgrees
<1> DEFINE T == {k \in 0 .. Len(m) : \A j \in 1 .. k : m[j] = o[j]}
<1>4. 0 \in T
  BY <1>2
<1>5. ASSUME NEW k \in 0 .. Len(m) - 1, k \in T PROVE k + 1 \in T
  <2>1. k \in Nat /\ k + 1 \in 1 .. Len(m) /\ k + 1 \in 0 .. Len(m) /\ k + 1 \in 1 .. Len(o)
        /\ (k + 1) - 1 = k /\ k + 1 \in Nat
    BY <1>2
  <2>2. \A j \in 1 .. (k + 1) - 1 : m[j] = o[j]
    BY <1>5, <2>1
  <2>3. m[k + 1] = o[k + 1]
    BY <1>3, <2>1, <2>2
  <2>4. \A j \in 1 .. k + 1 : j \in 1 .. (k + 1) - 1 \/ j = k + 1
    BY <2>1
  <2> QED
    BY <2>1, <2>2, <2>3, <2>4
<1>6. Len(m) \in T
  <2> HIDE DEF T
  <2>1. 0 .. Len(m) \subseteq T
    BY <1>2, <1>4, <1>5, UpTo
  <2> QED
    BY <1>2, <2>1
<1>7. \A j \in 1 .. Len(m) : o[j] = m[j]
  BY <1>6
<1> QED
  BY <1>7, NothingFollows

LEMMA OneOrder ==
  ASSUME SearchInv, NEW m \in Partial, NEW o \in Partial, Covers(m), Covers(o), ToSet(m) = ToSet(o)
  PROVE  m = o
<1>1. Len(m) \in Nat /\ Len(o) \in Nat
  BY PartialAgrees
<1>2. Len(m) <= Len(o) \/ Len(o) <= Len(m)
  BY <1>1
<1> QED
  BY <1>2, ShorterIsSame

(* Walks that share no path are no more than the paths. *)
LEMMA NoMoreThanPaths ==
  ASSUME SearchInv, NEW s, s \subseteq 1 .. Len(finished),
         \A i, j \in s : i # j => Origin(finished[i]) \cap Origin(finished[j]) = {}
  PROVE  IsFiniteSet(s) /\ Cardinality(s) \in Nat /\ Cardinality(problem.machine.origins) \in Nat
         /\ Cardinality(s) <= Cardinality(problem.machine.origins)
<1> DEFINE O == problem.machine.origins
           f == [i \in s |-> Min(Origin(finished[i]))]
<1>1. IsFiniteSet(O) /\ O \subseteq Nat /\ \A i \in s : Origin(finished[i]) \subseteq O /\ Origin(finished[i]) # {}
  BY OriginFacts
<1>2. \A i \in s : f[i] \in Origin(finished[i])
  BY <1>1, MinMember
<1> HIDE DEF O
<1>3. f \in [s -> O]
  BY <1>1, <1>2
<1>4. \A i, j \in s : f[i] = f[j] => i = j
  BY <1>2
<1> HIDE DEF f
<1>5. f \in Injection(s, O)
  BY <1>3, <1>4 DEF Injection, IsInjective
<1> QED
  BY <1>1, <1>5, FS_Injection, FS_CardinalityType DEF O

(* Every combination is a complete match in some order. *)
LEMMA SomeOrder ==
  ASSUME SearchInv, NEW s \in Combinations
  PROVE  \E m \in Partial : ToSet(m) = s
<1> DEFINE N == 1 .. Len(finished)
           K == Cardinality(s)
           T == {n \in 0 .. K : \E m \in Partial : ToSet(m) \subseteq s /\ Cardinality(ToSet(m)) = n}
<1>1. /\ s \subseteq N
      /\ OriginsOf(s) = problem.machine.origins
      /\ \A i, j \in s : i # j => /\ AreCompatible(finished[i], finished[j])
                                  /\ Origin(finished[i]) \cap Origin(finished[j]) = {}
  BY FinishedCount DEF Combinations, kSubset
<1>2. IsFiniteSet(s) /\ K \in Nat
  BY <1>1, NoMoreThanPaths
<1>3. 0 \in T
  <2>1. <<>> \in Partial /\ ToSet(<<>>) = {}
    BY DEF Partial, ToSet
  <2>2. Cardinality(ToSet(<<>>)) = 0 /\ ToSet(<<>>) \subseteq s
    BY <2>1, FS_EmptySet
  <2>3. 0 \in 0 .. K
    BY <1>2
  <2> HIDE DEF K
  <2> QED
    BY <2>1, <2>2, <2>3
<1>4. ASSUME NEW n \in 0 .. K - 1, n \in T PROVE n + 1 \in T
  <2>1. PICK m \in Partial : ToSet(m) \subseteq s /\ Cardinality(ToSet(m)) = n
    BY <1>4
  <2> DEFINE W == ToSet(m)
             remaining == problem.machine.origins \ OriginsOf(W)
             a == Min(remaining)
  <2>2. IsFiniteSet(W) /\ n \in Nat /\ n # K /\ n + 1 \in 0 .. K
    BY <1>2, <2>1, FS_Subset
  <2>3. PICK x \in s : x \notin W
    <3>1. W # s
      BY <2>1, <2>2
    <3> QED
      BY <2>1, <3>1
  <2>4. a \in remaining
    <3>1. \A j \in W : Origin(finished[x]) \cap Origin(finished[j]) = {}
      BY <1>1, <2>1, <2>3
    <3>2. Origin(finished[x]) \cap OriginsOf(W) = {}
      BY <3>1 DEF OriginsOf
    <3>3. remaining # {} /\ remaining \subseteq Nat
      BY <1>1, <3>2, OriginFacts
    <3> HIDE DEF remaining
    <3> QED
      BY <3>3, MinMember
  <2>5. PICK i \in s : a \in Origin(finished[i])
    BY <1>1, <2>4 DEF OriginsOf
  <2>6. i \notin W
    BY <2>4, <2>5 DEF OriginsOf
  <2>7. Follows(W, i)
    <3>1. \A j \in W : AreCompatible(finished[j], finished[i]) /\ Origin(finished[i]) \cap Origin(finished[j]) = {}
      BY <1>1, <2>1, <2>6
    <3>2. Origin(finished[i]) \cap OriginsOf(W) = {}
      BY <3>1 DEF OriginsOf
    <3> QED
      BY <2>5, <3>1, <3>2 DEF Follows
  <2>8. Append(m, i) \in Partial
    BY <1>1, <2>7, Grows
  <2>9. ToSet(Append(m, i)) = W \cup {i}
    <3>1. m \in Seq(N) /\ i \in N
      BY <1>1 DEF Partial
    <3> HIDE DEF N
    <3> QED
      BY <3>1, Appended
  <2>10. Cardinality(W \cup {i}) = n + 1 /\ W \cup {i} \subseteq s
    BY <2>1, <2>2, <2>6, FS_AddElement
  <2> QED
    BY <2>2, <2>8, <2>9, <2>10
<1>5. K \in T
  <2> HIDE DEF T, K
  <2>1. 0 .. K \subseteq T
    BY <1>2, <1>3, <1>4, UpTo
  <2> QED
    BY <1>2, <2>1
<1>6. PICK m \in Partial : ToSet(m) \subseteq s /\ Cardinality(ToSet(m)) = K
  BY <1>5
<1>7. ToSet(m) = s
  BY <1>2, <1>6, FS_Subset
<1> QED
  BY <1>7

(* And a complete match that is good is a combination. *)
LEMMA GoodIsCombination ==
  ASSUME SearchInv, NEW m \in Partial, Covers(m), Good(m)
  PROVE  ToSet(m) \in Combinations
<1> DEFINE s == ToSet(m)
           O == problem.machine.origins
<1>1. /\ s \subseteq 1 .. Len(finished)
      /\ \A i, j \in s : i # j => /\ AreCompatible(finished[i], finished[j])
                                  /\ Origin(finished[i]) \cap Origin(finished[j]) = {}
  BY PartialAgrees
<1>2. IsFiniteSet(s) /\ Cardinality(s) \in Nat /\ Cardinality(O) \in Nat /\ Cardinality(s) <= Cardinality(O)
  BY <1>1, NoMoreThanPaths
<1>3. Cardinality(s) # 0
  <2>1. s # {}
    BY OriginFacts DEF Covers, OriginsOf
  <2> QED
    BY <1>2, <2>1, FS_EmptySet
<1>4. Cardinality(s) \in 1 .. Cardinality(O)
  BY <1>2, <1>3
<1>5. s \subseteq DOMAIN finished
  BY <1>1, FinishedCount
<1>6. s \in UNION {kSubset(k, DOMAIN finished) : k \in 1 .. Cardinality(O)}
  BY <1>4, <1>5 DEF kSubset
<1> QED
  BY <1>1, <1>6 DEF Combinations, Covers, Good

-----------------------------------------------------------------------------
(* "Each combination of path walks is reported once"                        *)
(* (doc/pattern-language.md), and every one is reported: what the recursion *)
(* of _makeTheMatch finds is the set of all combinations, without repeats.  *)
THEOREM EveryCombinationOnce == CombinationSpec => []EachCombinationOnce
<1>1. CombinationInit => TreeInv
  BY InitTree
<1>2. CombinationInv /\ TreeInv /\ [CombinationNext]_allVars => TreeInv'
  BY NextTree
<1>3. CombinationInv /\ TreeInv => EachCombinationOnce
  <2> SUFFICES ASSUME CombinationInv, TreeInv, cursors = <<>>
               PROVE  /\ {ToSet(m) : m \in ToSet(matches)} = Combinations
                      /\ Len(matches) = Cardinality(Combinations)
    BY DEF EachCombinationOnce, Combined
  <2>1. SearchInv /\ IsInjective(matches) /\ matches \in Seq(Seq(1 .. Len(finished)))
    BY DEF CombinationInv, TreeInv, StackInv
  <2>2. \A m : m \in ToSet(matches) <=> m \in Partial /\ Covers(m) /\ Good(m)
    BY DEF TreeInv, Visited
  <2>3. \A m \in ToSet(matches) : ToSet(m) \in Combinations
    BY <2>1, <2>2, GoodIsCombination
  <2>4. ASSUME NEW s \in Combinations PROVE \E m \in ToSet(matches) : ToSet(m) = s
    <3>1. PICK m \in Partial : ToSet(m) = s
      BY <2>1, SomeOrder
    <3>2. Covers(m) /\ Good(m)
      BY <3>1 DEF Combinations, Covers, Good
    <3> QED
      BY <2>2, <3>1, <3>2
  <2>5. {ToSet(m) : m \in ToSet(matches)} = Combinations
    BY <2>3, <2>4
  <2> DEFINE L == Len(matches)
             f == [k \in 1 .. L |-> ToSet(matches[k])]
  <2>6. L \in Nat /\ ToSet(matches) = {matches[k] : k \in 1 .. L} /\ \A k, l \in 1 .. L : matches[k] = matches[l] => k = l
    BY <2>1 DEF ToSet, IsInjective
  <2>7. f \in [1 .. L -> Combinations]
    BY <2>3, <2>6
  <2>8. \A k, l \in 1 .. L : f[k] = f[l] => k = l
    BY <2>1, <2>2, <2>6, OneOrder
  <2>9. \A s \in Combinations : \E k \in 1 .. L : f[k] = s
    BY <2>4, <2>6
  <2> HIDE DEF f, L
  <2>10. f \in Bijection(1 .. L, Combinations)
    BY <2>7, <2>8, <2>9 DEF Bijection, Injection, Surjection, IsInjective
  <2>11. Cardinality(Combinations) = L
    BY <2>6, <2>10, FS_CountingElements DEF ExistsBijection
  <2> QED
    BY <2>5, <2>11 DEF L
<1> QED
  BY <1>1, <1>2, <1>3, CombinationInvariant, PTL DEF CombinationSpec

-----------------------------------------------------------------------------
(* The runs of a match: they end in valid states, cover every path once,    *)
(* agree on anchors and meet each other's obligations.                      *)
Joined(runs) ==
  /\ \A w \in runs : w.state \in problem.machine.valid
  /\ UNION {Origin(w) : w \in runs} = problem.machine.origins
  /\ \A v, w \in runs : v # w => AreCompatible(v, w) /\ Origin(v) \cap Origin(w) = {}
  /\ UNION {w.rejected : w \in runs} \subseteq UNION {ValidNodes(w) : w \in runs}

(* Where there are runs for a match, a match is reported: one of walks that *)
(* cover the same paths, capture the same nodes and hold the same anchors.  *)
NoMatchIsLost ==
  Combined /\ Bare(problem.machine) =>
    \A runs \in SUBSET Ends(problem) : Joined(runs) =>
      \E m \in ToSet(matches) :
        /\ \A w \in runs : \E i \in ToSet(m) : Interchangeable(finished[i], w)
        /\ \A i \in ToSet(m) : \E w \in runs : Interchangeable(finished[i], w)

(* What a match reads of a walk is the same in an interchangeable one. *)
LEMMA InterchangeableReads ==
  ASSUME NEW v, NEW w, Interchangeable(v, w)
  PROVE  /\ Origin(v) = Origin(w) /\ v.rejected = w.rejected /\ v.commons = w.commons
         /\ ValidNodes(v) = ValidNodes(w) /\ PlainNodes(v) = PlainNodes(w)
  BY DEF Interchangeable, ValidNodes, PlainNodes, CommonNodes

(* Finished walks that stand for the runs of a match are a combination. *)
LEMMA RunsCombine ==
  ASSUME SearchInv, NEW runs, Joined(runs), \A w \in runs : Origin(w) # {},
         NEW f \in [runs -> 1 .. Len(finished)],
         \A w \in runs : Interchangeable(finished[f[w]], w)
  PROVE  {f[w] : w \in runs} \in Combinations
<1> DEFINE s == {f[w] : w \in runs}
           O == problem.machine.origins
<1>1. /\ s \subseteq 1 .. Len(finished)
      /\ \A w \in runs : f[w] \in s
      /\ \A i \in s : \E w \in runs : f[w] = i
  OBVIOUS
<1>2. \A w \in runs : /\ Origin(finished[f[w]]) = Origin(w) /\ finished[f[w]].rejected = w.rejected
                      /\ finished[f[w]].commons = w.commons
                      /\ ValidNodes(finished[f[w]]) = ValidNodes(w)
                      /\ PlainNodes(finished[f[w]]) = PlainNodes(w)
  BY InterchangeableReads
<1> HIDE DEF s
<1>3. ASSUME NEW i \in s, NEW j \in s, i # j
      PROVE  /\ AreCompatible(finished[i], finished[j])
             /\ Origin(finished[i]) \cap Origin(finished[j]) = {}
  <2>1. PICK v \in runs : f[v] = i
    BY <1>1
  <2>2. PICK w \in runs : f[w] = j
    BY <1>1
  <2>3. AreCompatible(v, w) /\ Origin(v) \cap Origin(w) = {}
    BY <1>3, <2>1, <2>2 DEF Joined
  <2>4. AreCompatible(finished[i], finished[j])
    BY <1>2, <2>1, <2>2, <2>3 DEF AreCompatible
  <2> QED
    BY <1>2, <2>1, <2>2, <2>3, <2>4
<1>4. OriginsOf(s) = O
  <2>1. UNION {Origin(w) : w \in runs} = O
    BY DEF Joined
  <2> QED
    BY <1>1, <1>2, <2>1 DEF OriginsOf
<1>5. RequiredBy(s) \subseteq CoveredBy(s)
  <2>1. UNION {w.rejected : w \in runs} \subseteq UNION {ValidNodes(w) : w \in runs}
    BY DEF Joined
  <2>2. ASSUME NEW x \in RequiredBy(s) PROVE x \in CoveredBy(s)
    <3>1. PICK v \in runs : x \in v.rejected
      BY <1>1, <1>2 DEF RequiredBy
    <3>2. PICK w \in runs : x \in ValidNodes(w)
      BY <2>1, <3>1
    <3> QED
      BY <1>1, <1>2, <3>2 DEF CoveredBy
  <2> QED
    BY <2>2
<1>6. IsFiniteSet(s) /\ Cardinality(s) \in Nat /\ Cardinality(O) \in Nat /\ Cardinality(s) <= Cardinality(O)
  BY <1>1, <1>3, NoMoreThanPaths
<1>7. Cardinality(s) # 0
  <2>1. s # {}
    BY <1>4, OriginFacts DEF OriginsOf
  <2> QED
    BY <1>6, <2>1, FS_EmptySet
<1>8. Cardinality(s) \in 1 .. Cardinality(O)
  BY <1>6, <1>7
<1>9. s \subseteq DOMAIN finished
  BY <1>1, FinishedCount
<1>10. s \in UNION {kSubset(k, DOMAIN finished) : k \in 1 .. Cardinality(O)}
  BY <1>8, <1>9 DEF kSubset
<1>11. s \in Combinations
  BY <1>3, <1>4, <1>5, <1>10 DEF Combinations
<1> QED
  BY <1>11 DEF s

(* Searching is all that the exploration does to the search. *)
LEMMA CombinationExplores == CombinationSpec => []ExploredInv
<1>1. CombinationInit => ExploredInv
  BY InitSearch, InitExplores DEF CombinationInit, ExploredInv, IsExplored
<1>2. [CombinationNext]_allVars => [Next]_vars
  BY DEF CombinationNext, Explore, Report, Try, GiveUp, allVars
<1>3. ExploredInv /\ [CombinationNext]_allVars => ExploredInv'
  BY <1>2, NextExplores
<1> QED
  BY <1>1, <1>3, PTL DEF CombinationSpec

(* No match is lost between the graph and the report, when the pattern has   *)
(* no quantifier: neither the keys that drop walks, nor the results that     *)
(* drop solutions, nor the recursion over them loses one.                    *)
THEOREM EveryMatchIsFound == CombinationSpec => []NoMatchIsLost
<1>1. ExploredInv /\ EachCombinationOnce => NoMatchIsLost
  <2> SUFFICES ASSUME ExploredInv, EachCombinationOnce, Combined, Bare(problem.machine),
                      NEW runs \in SUBSET Ends(problem), Joined(runs)
               PROVE  \E m \in ToSet(matches) :
                        /\ \A w \in runs : \E i \in ToSet(m) : Interchangeable(finished[i], w)
                        /\ \A i \in ToSet(m) : \E w \in runs : Interchangeable(finished[i], w)
    BY DEF NoMatchIsLost
  <2>1. SearchInv /\ NoRunIsLost /\ Exhausted
    BY ExhaustedIsClosed, ClosedLosesNone DEF ExploredInv, Combined
  <2>2. ASSUME NEW w \in runs
        PROVE  \E i \in 1 .. Len(finished) : Interchangeable(finished[i], w)
    <3>1. w.state \in problem.machine.valid /\ w \in Ends(problem)
      BY DEF Joined
    <3>2. PICK g \in ToSet(finished) : Interchangeable(g, w)
      BY <2>1, <3>1 DEF NoRunIsLost
    <3> QED
      BY <2>1, <3>2, FinishedCount DEF ToSet
  <2> DEFINE f == [w \in runs |-> CHOOSE i \in 1 .. Len(finished) : Interchangeable(finished[i], w)]
  <2>3. /\ f \in [runs -> 1 .. Len(finished)]
        /\ \A w \in runs : Interchangeable(finished[f[w]], w)
    BY <2>2
  <2>4. ASSUME NEW w \in runs PROVE Origin(w) # {}
    <3>1. Origin(w) = Origin(finished[f[w]]) /\ f[w] \in 1 .. Len(finished)
      BY <2>3, InterchangeableReads
    <3> QED
      BY <2>1, <3>1, OriginFacts
  <2> HIDE DEF f
  <2>5. {f[w] : w \in runs} \in Combinations
    BY <2>1, <2>3, <2>4, RunsCombine
  <2>6. PICK m \in ToSet(matches) : ToSet(m) = {f[w] : w \in runs}
    BY <2>5 DEF EachCombinationOnce
  <2> QED
    BY <2>3, <2>6
<1> QED
  BY <1>1, CombinationExplores, EveryCombinationOnce, PTL

-----------------------------------------------------------------------------
(* What a division of naturals leaves. *)
LEMMA Remainder ==
  ASSUME NEW b \in Nat, NEW o \in Nat \ {0}
  PROVE  b \div o \in Nat /\ b % o \in 0 .. o - 1 /\ b = (b \div o) * o + (b % o)
  BY SMT

(* The division that bounds a product. *)
LEMMA Division ==
  ASSUME NEW b \in Nat, NEW o \in Nat \ {0}, NEW c \in Nat
  PROVE  (c > b \div o) <=> (c * o > b)
<1> DEFINE q == b \div o
           r == b % o
<1>1. q \in Nat /\ r \in 0 .. o - 1 /\ b = q * o + r
  BY Remainder
<1> HIDE DEF q, r
<1>2. CASE c > q
  <2>1. c >= q + 1
    BY <1>1, <1>2
  <2>2. c * o >= (q + 1) * o
    BY <1>1, <2>1
  <2>3. (q + 1) * o = q * o + o
    BY <1>1
  <2>4. QED
    BY <1>1, <1>2, <2>2, <2>3 DEF q
<1>3. CASE ~ (c > q)
  <2>1. c <= q
    BY <1>1, <1>3
  <2>2. c * o <= q * o
    BY <1>1, <2>1
  <2>3. QED
    BY <1>1, <1>3, <2>2 DEF q
<1>4. QED
  BY <1>2, <1>3

Increasing(s, n) == \A i, j \in 1 .. n : i < j => s[i] < s[j]
Listed(S) == \E s \in [1 .. Cardinality(S) -> S] : Increasing(s, Cardinality(S))

(* Every finite set of naturals can be listed in increasing order: of the   *)
(* smallest that could not, the rest could be listed after its least element. *)
LEMMA AllListed ==
  ASSUME NEW S, S \subseteq Nat, IsFiniteSet(S)
  PROVE  Listed(S)
<1> SUFFICES ASSUME ~ Listed(S) PROVE FALSE
  OBVIOUS
<1> DEFINE Sizes == {n \in Nat : \E T \in SUBSET S : Cardinality(T) = n /\ ~ Listed(T)}
<1>1. \A T \in SUBSET S : IsFiniteSet(T) /\ Cardinality(T) \in Nat
  BY FS_Subset, FS_CardinalityType
<1>2. PICK n \in Sizes : \A m \in Sizes : n <= m
  <2>1. Sizes # {} /\ Sizes \subseteq Nat
    BY <1>1
  <2> HIDE DEF Sizes
  <2>2. QED
    BY <2>1, LeastElement
<1>3. PICK T \in SUBSET S : Cardinality(T) = n /\ ~ Listed(T)
  OBVIOUS
<1>4. T # {}
  <2> SUFFICES ASSUME T = {} PROVE FALSE
    OBVIOUS
  <2>1. Cardinality(T) = 0
    BY FS_EmptySet
  <2>2. Listed(T)
    <3>1. <<>> \in [1 .. 0 -> T]
      OBVIOUS
    <3>2. Increasing(<<>>, 0)
      BY DEF Increasing
    <3>3. QED
      BY <2>1, <3>1, <3>2, Zenon DEF Listed
  <2>3. QED
    BY <1>3, <2>2
<1>5. PICK x \in T : \A y \in T : x <= y
  BY <1>4, LeastElement
<1> DEFINE U == T \ {x}
<1>6. n \in Nat /\ n > 0 /\ Cardinality(U) = n - 1 /\ U \in SUBSET S
  <2>1. IsFiniteSet(T) /\ Cardinality(T) = n /\ n \in Nat
    BY <1>1, <1>3
  <2>2. n # 0
    BY <1>4, <2>1, FS_EmptySet
  <2>3. Cardinality(U) = Cardinality(T) - 1
    BY <2>1, FS_RemoveElement
  <2>4. QED
    BY <2>1, <2>2, <2>3
<1>7. Listed(U)
  <2>1. n - 1 \in Nat /\ ~ (n <= n - 1)
    BY <1>6
  <2>2. n - 1 \notin Sizes
    BY <1>2, <2>1
  <2>3. QED
    BY <1>6, <2>1, <2>2
<1>8. PICK u \in [1 .. n - 1 -> U] : Increasing(u, n - 1)
  BY <1>6, <1>7 DEF Listed
<1> DEFINE t == [i \in 1 .. n |-> IF i = 1 THEN x ELSE u[i - 1]]
<1>9. t \in [1 .. n -> T]
  <2>1. \A i \in 1 .. n : i = 1 \/ i - 1 \in 1 .. n - 1
    BY <1>6
  <2>2. QED
    BY <1>8, <2>1
<1>10. Increasing(t, n)
  <2> SUFFICES ASSUME NEW i \in 1 .. n, NEW j \in 1 .. n, i < j PROVE t[i] < t[j]
    BY DEF Increasing
  <2>1. j # 1 /\ j - 1 \in 1 .. n - 1 /\ (i = 1 \/ (i - 1 \in 1 .. n - 1 /\ i - 1 < j - 1))
    BY <1>6
  <2>2. t[j] = u[j - 1] /\ u[j - 1] \in U
    BY <1>8, <2>1
  <2>3. CASE i = 1
    <3>1. t[i] = x /\ x <= u[j - 1] /\ x # u[j - 1] /\ x \in Nat /\ u[j - 1] \in Nat
      BY <1>5, <2>2, <2>3
    <3>2. QED
      BY <2>2, <3>1
  <2>4. CASE i # 1
    <3>1. t[i] = u[i - 1]
      BY <2>4
    <3>2. u[i - 1] < u[j - 1]
      BY <1>8, <2>1, <2>4 DEF Increasing
    <3>3. QED
      BY <2>2, <3>1, <3>2
  <2>5. QED
    BY <2>3, <2>4
<1>11. QED
  BY <1>3, <1>9, <1>10 DEF Listed

(* The candidates of a group are listed once each. *)
LEMMA AscendingLists ==
  ASSUME NEW S, S \subseteq Nat, IsFiniteSet(S)
  PROVE  Ascending(S) \in Seq(S) /\ IsInjective(Ascending(S))
<1> DEFINE n == Cardinality(S)
           s == Ascending(S)
<1>1. n \in Nat
  BY FS_CardinalityType
<1>2. s \in [1 .. n -> S] /\ Increasing(s, n)
  BY AllListed DEF Listed, Increasing, Ascending
<1> HIDE DEF n, s
<1>3. s \in Seq(S)
  BY <1>1, <1>2
<1>4. ASSUME NEW i \in DOMAIN s, NEW j \in DOMAIN s, s[i] = s[j]
      PROVE  i = j
  <2>1. i \in 1 .. n /\ j \in 1 .. n /\ s[i] \in Nat
    BY <1>2
  <2>2. ~ (i < j) /\ ~ (j < i)
    BY <1>2, <1>4, <2>1 DEF Increasing
  <2>3. QED
    BY <1>1, <2>1, <2>2
<1>5. QED
  BY <1>3, <1>4 DEF s, IsInjective

-----------------------------------------------------------------------------
(* The groups of starts. *)
LEMMA TiedIsTransitive ==
  ASSUME NEW m, NEW i, NEW j, NEW k, Tied(m, i, j), Tied(m, j, k)
  PROVE  Tied(m, i, k)
  BY DEF Tied

(* Every start is tied to one that leads its group. *)
LEMMA LeaderExists ==
  ASSUME NEW m, NEW i \in Nat \ {0}
  PROVE  \E j \in 1 .. i : Leads(m, j) /\ Tied(m, j, i)
<1> DEFINE T == {j \in 1 .. i : Tied(m, j, i)}
<1>1. i \in T
  BY DEF Tied
<1>2. PICK j \in T : \A k \in T : j <= k
  <2>1. T # {} /\ T \subseteq Nat
    BY <1>1
  <2> HIDE DEF T
  <2>2. QED
    BY <2>1, LeastElement
<1>3. ASSUME NEW k \in 1 .. j - 1 PROVE ~ Tied(m, k, j)
  <2>1. k \in 1 .. i /\ ~ (j <= k)
    OBVIOUS
  <2>2. k \notin T
    BY <1>2, <2>1
  <2>3. QED
    BY <1>2, <2>1, <2>2, TiedIsTransitive
<1>4. QED
  BY <1>2, <1>3 DEF Leads

(* Every start has a group, and groups are numbered without a gap at the ends. *)
LEMMA GroupsExist ==
  ASSUME NEW m, NEW S, m.starts \in Seq(S)
  PROVE  /\ GroupCount(m) \in Nat
         /\ DOMAIN StartGroups(m) = DOMAIN m.starts
         /\ \A i \in DOMAIN m.starts : StartGroups(m)[i] \in 1 .. GroupCount(m)
<1> DEFINE n == Len(m.starts)
           leading(k) == {j \in 1 .. k : Leads(m, j)}
           leader(i) == CHOOSE j \in 1 .. i : Leads(m, j) /\ Tied(m, j, i)
<1>1. n \in Nat /\ DOMAIN m.starts = 1 .. n
  OBVIOUS
<1>2. GroupCount(m) = Cardinality(leading(n))
  BY <1>1 DEF GroupCount
<1>3. \A k \in Nat : IsFiniteSet(leading(k)) /\ Cardinality(leading(k)) \in Nat
  <2> TAKE k \in Nat
  <2>1. IsFiniteSet(1 .. k) /\ leading(k) \in SUBSET (1 .. k)
    BY FS_Interval
  <2>2. QED
    BY <2>1, FS_Subset, FS_CardinalityType
<1>4. ASSUME NEW i \in 1 .. n
      PROVE  StartGroups(m)[i] \in 1 .. GroupCount(m)
  <2>1. leader(i) \in 1 .. i /\ Leads(m, leader(i))
    <3>1. i \in Nat \ {0}
      BY <1>1
    <3>2. \E j \in 1 .. i : Leads(m, j) /\ Tied(m, j, i)
      BY <3>1, LeaderExists
    <3>3. QED
      BY <3>2
  <2>2. StartGroups(m)[i] = Cardinality(leading(leader(i)))
    BY <1>1 DEF StartGroups
  <2> DEFINE l == leader(i)
  <2>3. l \in 1 .. i /\ l \in Nat /\ l <= n /\ Leads(m, l)
    BY <2>1, <1>1
  <2> HIDE DEF l
  <2>4. leading(l) \in SUBSET leading(n) /\ leading(l) # {}
    BY <1>1, <2>3
  <2> HIDE DEF leading
  <2>5. Cardinality(leading(l)) <= Cardinality(leading(n)) /\ Cardinality(leading(l)) # 0
    <3>1. IsFiniteSet(leading(l)) /\ IsFiniteSet(leading(n))
      BY <1>1, <1>3, <2>3
    <3>2. Cardinality(leading(l)) <= Cardinality(leading(n))
      BY <2>4, <3>1, FS_Subset
    <3>3. Cardinality(leading(l)) # 0
      BY <2>4, <3>1, FS_EmptySet
    <3>4. QED
      BY <3>2, <3>3
  <2>6. Cardinality(leading(l)) \in Nat /\ Cardinality(leading(n)) \in Nat
    BY <1>1, <1>3, <2>3
  <2>7. Cardinality(leading(l)) \in 1 .. GroupCount(m)
    BY <1>2, <2>5, <2>6
  <2>8. QED
    BY <2>2, <2>7 DEF l
<1>5. GroupCount(m) \in Nat
  BY <1>1, <1>2, <1>3
<1>6. DOMAIN StartGroups(m) = DOMAIN m.starts
  BY DEF StartGroups
<1> HIDE DEF n
<1>7. QED
  BY <1>1, <1>4, <1>5, <1>6

(* What a request allows to start with. *)
Startable(r) == r.graph.nodes \cup {NoNode}

(* Each group has nodes of the graph as candidates, none of them twice. *)
LEMMA CandidatesListed ==
  ASSUME NEW r, IsRequest(r)
  PROVE  LET c == StartCandidates(r.graph, r.machine)
         IN  /\ c \in Seq(Seq(Startable(r))) /\ Len(c) = GroupCount(r.machine)
             /\ \A k \in DOMAIN c : IsInjective(c[k])
<1> DEFINE c == StartCandidates(r.graph, r.machine)
           n == GroupCount(r.machine)
           accepted(k) == {x \in r.graph.nodes : \A i \in DOMAIN r.machine.starts :
                        StartGroups(r.machine)[i] = k => x \in Accepts(r.graph, r.machine, r.machine.starts[i])}
<1>1. n \in Nat
  BY GroupsExist DEF IsRequest
<1>2. c = [k \in 1 .. n |-> IF r.graph.nodes = {} THEN <<NoNode>> ELSE Ascending(accepted(k))]
  BY DEF StartCandidates
<1>3. ASSUME NEW k \in 1 .. n
      PROVE  c[k] \in Seq(Startable(r)) /\ IsInjective(c[k])
  <2>1. CASE r.graph.nodes = {}
    <3>1. c[k] = <<NoNode>>
      BY <1>2, <2>1
    <3>2. <<NoNode>> \in Seq({NoNode}) /\ IsInjective(<<NoNode>>)
      BY DEF IsInjective
    <3>3. <<NoNode>> \in Seq(Startable(r))
      BY DEF Startable
    <3>4. QED
      BY <3>1, <3>2, <3>3
  <2>2. CASE r.graph.nodes # {}
    <3>1. c[k] = Ascending(accepted(k))
      BY <1>2, <2>2
    <3>2. accepted(k) \in SUBSET r.graph.nodes /\ r.graph.nodes \subseteq Nat /\ IsFiniteSet(r.graph.nodes)
      BY DEF IsRequest
    <3> HIDE DEF accepted, c
    <3>3. IsFiniteSet(accepted(k)) /\ accepted(k) \subseteq Nat /\ accepted(k) \subseteq Startable(r)
      BY <3>2, FS_Subset DEF Startable
    <3>4. Ascending(accepted(k)) \in Seq(accepted(k)) /\ IsInjective(Ascending(accepted(k)))
      BY <3>3, AscendingLists
    <3>5. QED
      BY <3>1, <3>3, <3>4, SeqMonotonic
  <2>3. QED
    BY <2>1, <2>2
<1>4. DOMAIN c = 1 .. n
  BY <1>2
<1>5. c \in [1 .. n -> Seq(Startable(r))]
  BY <1>2, <1>3
<1> HIDE DEF c, n
<1>6. c \in Seq(Seq(Startable(r))) /\ Len(c) = n
  <2> DEFINE S == Seq(Startable(r))
  <2> HIDE DEF S
  <2>1. c \in [1 .. n -> S]
    BY <1>5 DEF S
  <2>2. c \in Seq(S) /\ Len(c) = n
    BY <1>1, <2>1
  <2>3. QED
    BY <2>2 DEF S
<1>7. QED
  BY <1>3, <1>4, <1>6 DEF c, n

-----------------------------------------------------------------------------
(* The tuples of the first k groups. *)
Picks(S, c, k) == {t \in [1 .. k -> S] : \A i \in 1 .. k : t[i] \in ToSet(c[i])}
HasSize(S, n) == IsFiniteSet(S) /\ Cardinality(S) = n

(* A sequence without repetitions has as many elements as places. *)
LEMMA ListSize ==
  ASSUME NEW S, NEW s \in Seq(S), IsInjective(s)
  PROVE  Len(s) \in Nat /\ ToSet(s) \subseteq S /\ HasSize(ToSet(s), Len(s))
<1>1. Len(s) \in Nat /\ DOMAIN s = 1 .. Len(s) /\ ToSet(s) = {s[i] : i \in 1 .. Len(s)}
  BY DEF ToSet
<1>2. s \in [1 .. Len(s) -> ToSet(s)]
  BY <1>1
<1>3. s \in Bijection(1 .. Len(s), ToSet(s))
  BY <1>1, <1>2 DEF Bijection, Injection, Surjection, IsInjective
<1>4. ExistsBijection(1 .. Len(s), ToSet(s))
  BY <1>3 DEF ExistsBijection
<1>5. HasSize(ToSet(s), Len(s))
  BY <1>1, <1>4, FS_NatBijection, FS_CountingElements DEF HasSize
<1>6. QED
  BY <1>1, <1>5

(* There is one tuple of no group. *)
LEMMA NoPick ==
  ASSUME NEW S, NEW c
  PROVE  HasSize(Picks(S, c, 0), 1)
<1>1. Picks(S, c, 0) = {<<>>}
  <2>1. <<>> \in [1 .. 0 -> S]
    OBVIOUS
  <2>2. ASSUME NEW t \in [1 .. 0 -> S] PROVE t = <<>>
    <3>1. 1 .. 0 = {} /\ DOMAIN t = {} /\ t = [i \in {} |-> t[i]]
      OBVIOUS
    <3>2. <<>> = [i \in {} |-> t[i]]
      OBVIOUS
    <3>3. QED
      BY <3>1, <3>2
  <2>3. <<>> \in Picks(S, c, 0)
    BY <2>1 DEF Picks
  <2>4. Picks(S, c, 0) \subseteq [1 .. 0 -> S]
    BY DEF Picks
  <2>5. QED
    BY <2>2, <2>3, <2>4, Zenon
<1>2. QED
  BY <1>1, FS_Singleton DEF HasSize

(* A further group multiplies the tuples by the number of its candidates. *)
LEMMA PicksMultiply ==
  ASSUME NEW S, NEW c \in Seq(Seq(S)), NEW k \in Nat, k + 1 \in DOMAIN c, IsInjective(c[k + 1]),
         NEW n \in Nat, HasSize(Picks(S, c, k), n)
  PROVE  Len(c[k + 1]) \in Nat /\ HasSize(Picks(S, c, k + 1), n * Len(c[k + 1]))
<1> DEFINE P == Picks(S, c, k)
           Q == ToSet(c[k + 1])
           R == Picks(S, c, k + 1)
           f == [p \in P \X Q |-> [i \in 1 .. k + 1 |-> IF i = k + 1 THEN p[2] ELSE p[1][i]]]
<1>1. Len(c[k + 1]) \in Nat /\ Q \subseteq S /\ HasSize(Q, Len(c[k + 1]))
  <2>1. c[k + 1] \in Seq(S)
    OBVIOUS
  <2>2. QED
    BY <2>1, ListSize
<1>2. IsFiniteSet(P \X Q) /\ Cardinality(P \X Q) = n * Len(c[k + 1])
  <2> HIDE DEF P, Q
  <2>1. IsFiniteSet(P) /\ IsFiniteSet(Q) /\ Cardinality(P) = n /\ Cardinality(Q) = Len(c[k + 1])
    BY <1>1 DEF HasSize, P
  <2>2. QED
    BY <2>1, FS_Product
<1>3. 1 .. k + 1 = (1 .. k) \cup {k + 1} /\ k + 1 \notin 1 .. k
  OBVIOUS
<1>4. ASSUME NEW p \in P \X Q PROVE f[p] \in R
  <2>1. p[1] \in [1 .. k -> S] /\ (\A i \in 1 .. k : p[1][i] \in ToSet(c[i])) /\ p[2] \in Q
    BY DEF Picks
  <2>2. f[p] = [i \in 1 .. k + 1 |-> IF i = k + 1 THEN p[2] ELSE p[1][i]]
    OBVIOUS
  <2> HIDE DEF f
  <2>3. f[p] \in [1 .. k + 1 -> S]
    BY <1>1, <1>3, <2>1, <2>2
  <2>4. \A i \in 1 .. k + 1 : f[p][i] \in ToSet(c[i])
    BY <1>3, <2>1, <2>2
  <2>5. QED
    BY <2>3, <2>4 DEF Picks
<1>5. ASSUME NEW p \in P \X Q, NEW q \in P \X Q, f[p] = f[q] PROVE p = q
  <2>1. \A i \in 1 .. k + 1 : f[p][i] = f[q][i]
    BY <1>5
  <2>2. p[2] = q[2]
    BY <1>3, <2>1
  <2>3. \A i \in 1 .. k : p[1][i] = q[1][i]
    BY <1>3, <2>1
  <2>4. p[1] \in [1 .. k -> S] /\ q[1] \in [1 .. k -> S]
    BY DEF Picks
  <2>5. p[1] = q[1]
    BY <2>3, <2>4
  <2>6. QED
    BY <2>2, <2>5
<1>6. ASSUME NEW t \in R PROVE \E p \in P \X Q : f[p] = t
  <2> DEFINE u == [i \in 1 .. k |-> t[i]]
  <2>1. t \in [1 .. k + 1 -> S] /\ \A i \in 1 .. k + 1 : t[i] \in ToSet(c[i])
    BY DEF Picks
  <2>2. u \in P
    BY <1>3, <2>1 DEF Picks
  <2>3. t[k + 1] \in Q
    BY <1>3, <2>1
  <2>4. PICK p \in P \X Q : p[1] = u /\ p[2] = t[k + 1]
    <3> HIDE DEF u, P, Q
    <3>1. <<u, t[k + 1]>> \in P \X Q
      BY <2>2, <2>3
    <3>2. QED
      BY <3>1
  <2>5. f[p] = [i \in 1 .. k + 1 |-> IF i = k + 1 THEN p[2] ELSE p[1][i]]
    OBVIOUS
  <2> HIDE DEF f, P, Q
  <2>6. [i \in 1 .. k + 1 |-> IF i = k + 1 THEN p[2] ELSE p[1][i]] = t
    BY <1>3, <2>1, <2>4
  <2>7. QED
    BY <2>4, <2>5, <2>6
<1>7. ExistsBijection(P \X Q, R)
  <2>1. f \in [P \X Q -> R]
    BY <1>4
  <2> HIDE DEF f, P, Q, R
  <2>2. f \in Bijection(P \X Q, R)
    BY <1>5, <1>6, <2>1 DEF Bijection, Injection, Surjection, IsInjective
  <2>3. QED
    BY <2>2 DEF ExistsBijection
<1> HIDE DEF P, Q, R
<1>8. HasSize(R, n * Len(c[k + 1]))
  BY <1>2, <1>7, FS_Bijection DEF HasSize
<1>9. QED
  BY <1>1, <1>8 DEF R

(* Where there is a tuple, every group has a candidate. *)
LEMMA PicksNonempty ==
  ASSUME NEW S, NEW c \in Seq(Seq(S)), NEW n \in Nat \ {0}, HasSize(Picks(S, c, Len(c)), n)
  PROVE  \A i \in DOMAIN c : Len(c[i]) \in Nat \ {0}
<1>1. PICK t : t \in Picks(S, c, Len(c))
  BY FS_EmptySet DEF HasSize
<1>2. ASSUME NEW i \in DOMAIN c PROVE Len(c[i]) \in Nat \ {0}
  <2>1. t[i] \in ToSet(c[i]) /\ c[i] \in Seq(S)
    BY <1>1 DEF Picks
  <2>2. QED
    BY <2>1 DEF ToSet
<1>3. QED
  BY <1>2

-----------------------------------------------------------------------------
(***************************************************************************)
(* The invariant: `combinations` counts the tuples of the groups counted so *)
(* far, never more than the budget; numbers below it decode to a node for   *)
(* each group; and a search, where there is one, keeps its own invariant.   *)
(***************************************************************************)
Stages == {"counting", "next", "decoding", "searching", "answered", "refused"}
Planning == {"counting", "refused"}

ProblemInv ==
  /\ IsRequest(request)
  /\ problem.graph = request.graph /\ problem.machine = request.machine
  /\ order \in Orders(request.machine)
  /\ stage = "searching" => CombinationInv

PlanInv ==
  /\ candidates = StartCandidates(request.graph, request.machine)
  /\ counted \in 0 .. Len(candidates)
  /\ combinations \in 0 .. request.budget
  /\ combinations # 0 \/ stage \in Planning =>
       HasSize(Picks(Startable(request), candidates, counted), combinations)
  /\ combinations # 0 /\ stage \notin Planning => counted = Len(candidates)
  /\ stage = "refused" => counted < Len(candidates) /\ Options # 0 /\ TooMany

TupleInv ==
  /\ number \in 0 .. combinations
  /\ stage \in Planning => number = 0
  /\ stage \in {"decoding", "searching"} => number < combinations
  /\ rest \in Nat /\ chosen \in Seq(Startable(request))
  /\ stage = "decoding" => Len(chosen) <= Len(candidates)
  /\ searched \in Seq(Seq(Startable(request)))
  /\ Len(searched) = IF stage = "searching" THEN number + 1 ELSE number

(* The entries of an answer that AnswerAgrees accepts. *)
Agreed(r) ==
  {e \in [starts : Seq(Startable(r)), walks : SUBSET Walks] :
     /\ \A v, w \in e.walks : v # w => AreCompatible(v, w)
     /\ UNION {r.machine.origin[w.state] : w \in e.walks} = r.machine.origins
     /\ UNION {w.rejected : w \in e.walks} \subseteq UNION {ValidNodes(w) : w \in e.walks}}

RequestInv ==
  /\ stage \in Stages
  /\ ProblemInv /\ PlanInv /\ TupleInv
  /\ answer \in Seq(Agreed(request))

(* The candidates while the request is served. *)
LEMMA Candidates ==
  ASSUME RequestInv
  PROVE  /\ candidates \in Seq(Seq(Startable(request)))
         /\ Len(candidates) = GroupCount(request.machine) /\ Len(candidates) \in Nat
         /\ DOMAIN candidates = 1 .. Len(candidates)
         /\ \A k \in DOMAIN candidates : IsInjective(candidates[k])
         /\ request.budget \in Nat \ {0}
<1>1. IsRequest(request) /\ candidates = StartCandidates(request.graph, request.machine)
  BY DEF RequestInv, ProblemInv, PlanInv
<1>2. /\ candidates \in Seq(Seq(Startable(request))) /\ Len(candidates) = GroupCount(request.machine)
      /\ \A k \in DOMAIN candidates : IsInjective(candidates[k])
  BY <1>1, CandidatesListed
<1>3. QED
  BY <1>1, <1>2, LenProperties DEF IsRequest

(* The call begins. *)
LEMMA InitRequest == RequestInit => RequestInv
<1> SUFFICES ASSUME RequestInit PROVE RequestInv
  OBVIOUS
<1>1. IsRequest(request)
  BY RequestsAssumption DEF RequestInit
<1>2. ProblemInv
  BY <1>1 DEF RequestInit, ProblemInv
<1>3. PlanInv
  <2>1. candidates \in Seq(Seq(Startable(request))) /\ Len(candidates) \in Nat
    BY <1>1, CandidatesListed, LenProperties DEF RequestInit
  <2>2. HasSize(Picks(Startable(request), candidates, 0), 1)
    BY NoPick
  <2>3. request.budget \in Nat \ {0}
    BY <1>1 DEF IsRequest
  <2>4. counted = 0 /\ combinations = 1 /\ stage = "counting"
        /\ candidates = StartCandidates(request.graph, request.machine)
    BY DEF RequestInit
  <2>5. QED
    BY <2>1, <2>2, <2>3, <2>4 DEF PlanInv, Planning
<1>4. TupleInv
  BY DEF RequestInit, TupleInv, Planning
<1>5. stage \in Stages /\ answer \in Seq(Agreed(request))
  BY DEF RequestInit, Stages
<1>6. QED
  BY <1>2, <1>3, <1>4, <1>5 DEF RequestInv

(* A step that leaves the search alone and is not a search. *)
LEMMA ProblemStays ==
  ASSUME RequestInv, UNCHANGED <<allVars, request>>, stage' # "searching"
  PROVE  ProblemInv'
  BY DEF RequestInv, ProblemInv, allVars, vars, arguments

(* The tuples are counted. *)
LEMMA NoCandidateKeeps == RequestInv /\ NoCandidate => RequestInv'
<1> SUFFICES ASSUME RequestInv, NoCandidate PROVE RequestInv'
  OBVIOUS
<1>1. ProblemInv'
  BY ProblemStays DEF NoCandidate
<1>2. PlanInv'
  BY Candidates DEF RequestInv, PlanInv, NoCandidate, Planning
<1>3. TupleInv'
  BY DEF RequestInv, TupleInv, NoCandidate, Counting, Planning, decoding, writing
<1>4. QED
  BY <1>1, <1>2, <1>3 DEF RequestInv, NoCandidate, Stages, writing

LEMMA RefuseKeeps == RequestInv /\ RefuseRequest => RequestInv'
<1> SUFFICES ASSUME RequestInv, RefuseRequest PROVE RequestInv'
  OBVIOUS
<1>1. ProblemInv'
  BY ProblemStays DEF RefuseRequest
<1>2. PlanInv'
  BY DEF RequestInv, PlanInv, RefuseRequest, Counting, Planning, planning, Options, TooMany
<1>3. TupleInv'
  BY DEF RequestInv, TupleInv, RefuseRequest, Counting, Planning, planning, decoding, writing
<1>4. QED
  BY <1>1, <1>2, <1>3 DEF RequestInv, RefuseRequest, Stages, writing

LEMMA CountKeeps == RequestInv /\ CountGroup => RequestInv'
<1> SUFFICES ASSUME RequestInv, CountGroup PROVE RequestInv'
  OBVIOUS
<1> DEFINE S == Startable(request)
<1>1. stage = "counting" /\ counted \in Nat /\ counted + 1 \in DOMAIN candidates /\ Options # 0 /\ ~ TooMany
  BY Candidates DEF RequestInv, PlanInv, CountGroup, Counting
<1>2. ProblemInv'
  BY <1>1, ProblemStays DEF CountGroup
<1>3. combinations \in Nat /\ HasSize(Picks(S, candidates, counted), combinations)
  BY <1>1 DEF RequestInv, PlanInv, Planning
<1>4. Options \in Nat \ {0} /\ HasSize(Picks(S, candidates, counted + 1), combinations * Options)
  <2>1. candidates \in Seq(Seq(S)) /\ IsInjective(candidates[counted + 1])
    BY <1>1, Candidates
  <2> HIDE DEF S
  <2>2. QED
    BY <1>1, <1>3, <2>1, PicksMultiply DEF Options
<1>5. combinations * Options \in 0 .. request.budget
  <2>1. request.budget \in Nat
    BY Candidates
  <2>2. ~ (combinations * Options > request.budget)
    BY <1>1, <1>3, <1>4, <2>1, Division DEF TooMany
  <2>3. combinations * Options \in Nat
    BY <1>3, <1>4
  <2>4. QED
    BY <2>1, <2>2, <2>3
<1>6. combinations' = combinations * Options /\ counted' = counted + 1
      /\ UNCHANGED <<request, stage, candidates>>
  BY DEF CountGroup
<1>7. PlanInv'
  <2>1. counted' \in 0 .. Len(candidates)
    BY <1>1, <1>6, Candidates
  <2>2. HasSize(Picks(Startable(request), candidates, counted), combinations)'
    BY <1>4, <1>6
  <2>3. candidates' = StartCandidates(request.graph, request.machine)'
    BY <1>6 DEF RequestInv, PlanInv
  <2>4. QED
    BY <1>1, <1>5, <1>6, <2>1, <2>2, <2>3 DEF PlanInv, Planning
<1>8. TupleInv'
  BY <1>1, <1>3, <1>5, <1>6 DEF RequestInv, TupleInv, CountGroup, Planning, decoding, writing
<1>9. QED
  BY <1>2, <1>7, <1>8 DEF RequestInv, CountGroup, writing

LEMMA CountingEndsKeeps == RequestInv /\ CountingEnds => RequestInv'
<1> SUFFICES ASSUME RequestInv, CountingEnds PROVE RequestInv'
  OBVIOUS
<1>1. ProblemInv'
  BY ProblemStays DEF CountingEnds
<1>2. PlanInv'
  BY DEF RequestInv, PlanInv, CountingEnds, Planning, planning
<1>3. TupleInv'
  BY DEF RequestInv, TupleInv, CountingEnds, Planning, planning, decoding, writing
<1>4. QED
  BY <1>1, <1>2, <1>3 DEF RequestInv, CountingEnds, Stages, writing

(* A number is decoded. *)
LEMMA NextTupleKeeps == RequestInv /\ NextTuple => RequestInv'
<1> SUFFICES ASSUME RequestInv, NextTuple PROVE RequestInv'
  OBVIOUS
<1>1. ProblemInv'
  BY ProblemStays DEF NextTuple
<1>2. PlanInv'
  BY DEF RequestInv, PlanInv, NextTuple, Planning, planning
<1>3. TupleInv'
  <2>1. Len(candidates) \in Nat
    BY Candidates
  <2>2. number \in Nat
    BY DEF RequestInv, TupleInv
  <2>3. QED
    BY <2>1, <2>2 DEF RequestInv, TupleInv, NextTuple, Planning, planning, writing
<1>4. QED
  BY <1>1, <1>2, <1>3 DEF RequestInv, NextTuple, Stages, writing

LEMMA ChooseNodeKeeps == RequestInv /\ ChooseNode => RequestInv'
<1> SUFFICES ASSUME RequestInv, ChooseNode PROVE RequestInv'
  OBVIOUS
<1> DEFINE S == Startable(request)
           L == Len(candidates[Digit])
           node == candidates[Digit][1 + (rest % L)]
<1>1. /\ stage = "decoding" /\ stage' = stage /\ Len(chosen) < Len(candidates)
      /\ chosen' = Append(chosen, node) /\ rest' = rest \div L
      /\ UNCHANGED <<allVars, request, planning, writing>>
  BY DEF ChooseNode
<1>2. ProblemInv'
  BY <1>1, ProblemStays
<1>3. PlanInv'
  BY <1>1 DEF RequestInv, PlanInv, Planning, planning
<1>4. candidates \in Seq(Seq(S)) /\ chosen \in Seq(S) /\ rest \in Nat /\ Digit \in DOMAIN candidates
  BY <1>1, Candidates, LenProperties DEF RequestInv, TupleInv, Digit
<1>5. L \in Nat \ {0}
  <2>1. combinations \in Nat \ {0} /\ counted = Len(candidates)
    BY <1>1, Candidates DEF RequestInv, PlanInv, TupleInv, Planning
  <2>2. HasSize(Picks(S, candidates, Len(candidates)), combinations)
    BY <2>1 DEF RequestInv, PlanInv
  <2> HIDE DEF S
  <2>3. QED
    BY <1>4, <2>1, <2>2, PicksNonempty
<1>6. node \in S /\ rest' \in Nat
  <2> DEFINE c == candidates[Digit]
  <2> HIDE DEF S
  <2>1. c \in Seq(S)
    BY <1>4
  <2> HIDE DEF L
  <2>2. rest \div L \in Nat /\ rest % L \in 0 .. L - 1
    BY <1>4, <1>5, Remainder
  <2>3. 1 + (rest % L) \in 1 .. L
    BY <1>5, <2>2
  <2>4. node \in S
    BY <2>1, <2>3 DEF L
  <2>5. QED
    BY <1>1, <2>2, <2>4
<1> HIDE DEF node, L, S
<1>7. chosen' \in Seq(S) /\ Len(chosen') = Len(chosen) + 1 /\ Len(chosen) \in Nat
  BY <1>1, <1>4, <1>6, Appended
<1>8. TupleInv'
  <2>1. Len(chosen') <= Len(candidates)
    BY <1>1, <1>7, Candidates
  <2>2. QED
    BY <1>1, <1>6, <1>7, <2>1 DEF RequestInv, TupleInv, planning, writing, S
<1>9. QED
  BY <1>1, <1>2, <1>3, <1>8 DEF RequestInv, writing

(* The tuple that a search is given is one it is meant for. *)
LEMMA TupleTyped ==
  ASSUME RequestInv, chosen \in Seq(Startable(request)), Len(chosen) = Len(candidates)
  PROVE  Tuple \in Seq(Startable(request)) /\ Len(Tuple) = Len(request.machine.starts)
<1> DEFINE S == Startable(request)
           m == request.machine
           n == Len(m.starts)
<1>1. m.starts \in Seq(States(m))
  BY DEF RequestInv, ProblemInv, IsRequest
<1>2. n \in Nat /\ DOMAIN m.starts = 1 .. n
  BY <1>1, LenProperties
<1>3. \A i \in 1 .. n : StartGroups(m)[i] \in DOMAIN chosen
  BY <1>1, <1>2, GroupsExist, Candidates, LenProperties
<1>4. Tuple = [i \in 1 .. n |-> chosen[StartGroups(m)[i]]]
  BY <1>2 DEF Tuple
<1> HIDE DEF S, m, n
<1>5. Tuple \in [1 .. n -> S]
  <2>1. \A j \in DOMAIN chosen : chosen[j] \in S
    BY DEF S
  <2>2. QED
    BY <1>3, <1>4, <2>1
<1>6. Tuple \in Seq(S) /\ Len(Tuple) = n
  BY <1>2, <1>5
<1>7. QED
  BY <1>6 DEF S, m, n

(* A search begins with nothing found. *)
Fresh ==
  /\ IsProblem(problem) /\ order \in Orders(problem.machine)
  /\ begun = 0 /\ queue = <<>> /\ walk = Nowhere /\ tests = <<>>
  /\ moved = Nowhere /\ arrivals = {} /\ finished = <<>> /\ aborted = FALSE
  /\ precedence = <<>> /\ cursors = <<1>> /\ matches = <<>>

LEMMA FreshSearch == Fresh' => CombinationInv'
<1> SUFFICES ASSUME Fresh' PROVE CombinationInv'
  OBVIOUS
<1> USE DEF Fresh
<1>1. Len(problem'.tuple) \in Nat
  BY ProblemFacts, LenProperties
<1>2. SearchInv'
  <2>1. begun' \in 0 .. Len(problem'.tuple)
    BY <1>1
  <2>2. \A S : <<>> \in Seq(S)
    OBVIOUS
  <2>3. QED
    BY <2>1, <2>2 DEF SearchInv
<1>3. StackInv'
  BY DEF StackInv
<1>4. Agreeing(precedence)' /\ MatchesAgree'
  BY DEF Agreeing, MatchesAgree, ToSet
<1>5. QED
  BY <1>2, <1>3, <1>4 DEF CombinationInv

LEMMA SearchTupleKeeps == RequestInv /\ SearchTuple => RequestInv'
<1> SUFFICES ASSUME RequestInv, SearchTuple PROVE RequestInv'
  OBVIOUS
<1>1. /\ stage = "decoding" /\ Len(chosen) = Len(candidates) /\ stage' = "searching"
      /\ problem' = [problem EXCEPT !.tuple = Tuple] /\ searched' = Append(searched, Tuple)
      /\ UNCHANGED <<order, request, planning, decoding, number, answer>>
  BY DEF SearchTuple
<1>2. Tuple \in Seq(Startable(request)) /\ Len(Tuple) = Len(request.machine.starts)
  BY <1>1, TupleTyped DEF RequestInv, TupleInv
<1>3. problem'.graph = request.graph /\ problem'.machine = request.machine /\ problem'.tuple = Tuple
  BY <1>1 DEF RequestInv, ProblemInv
<1>4. ProblemInv'
  <2>1. IsProblem(problem')
    BY <1>2, <1>3 DEF IsProblem, RequestInv, ProblemInv, IsRequest, Startable
  <2>2. order' \in Orders(problem'.machine)
    BY <1>1, <1>3 DEF RequestInv, ProblemInv
  <2>3. CombinationInv'
    BY <2>1, <2>2, FreshSearch DEF SearchTuple, Fresh
  <2>4. QED
    BY <1>1, <1>3, <2>3 DEF RequestInv, ProblemInv
<1>5. PlanInv'
  BY <1>1 DEF RequestInv, PlanInv, Planning, planning
<1>6. TupleInv'
  <2> DEFINE T == Seq(Startable(request))
  <2>1. searched \in Seq(T) /\ Tuple \in T
    BY <1>2 DEF RequestInv, TupleInv
  <2>2. searched' \in Seq(T) /\ Len(searched') = Len(searched) + 1
    <3> HIDE DEF T
    <3>1. QED
      BY <1>1, <2>1, Appended
  <2>3. QED
    BY <1>1, <2>2 DEF RequestInv, TupleInv, Planning, planning, decoding
<1>7. QED
  BY <1>1, <1>4, <1>5, <1>6 DEF RequestInv, Stages

(* A step of the search or of the combination. *)
LEMMA SearchKeeps == RequestInv /\ Search => RequestInv'
<1> SUFFICES ASSUME RequestInv, Search PROVE RequestInv'
  OBVIOUS
<1>1. CombinationNext /\ stage = "searching" /\ UNCHANGED <<request, stage, planning, decoding, writing>>
  BY DEF Search
<1>2. problem' = problem /\ order' = order
  BY <1>1 DEF CombinationNext, Explore, Next, Begin, Visit, Cross, Arrive, Report, Try, GiveUp, vars, arguments
<1>3. CombinationInv'
  BY <1>1, NextCombination DEF RequestInv, ProblemInv
<1>4. ProblemInv'
  BY <1>1, <1>2, <1>3 DEF RequestInv, ProblemInv
<1>5. PlanInv'
  BY <1>1 DEF RequestInv, PlanInv, Planning, planning
<1>6. TupleInv'
  BY <1>1 DEF RequestInv, TupleInv, Planning, planning, decoding, writing
<1>7. QED
  BY <1>1, <1>4, <1>5, <1>6 DEF RequestInv, writing

(* Agreement does not depend on which walk is named first. *)
LEMMA CompatibleBothWays ==
  ASSUME NEW v, NEW w, AreCompatible(v, w)
  PROVE  AreCompatible(w, v)
  BY DEF AreCompatible

(* What is written of a match agrees. *)
LEMMA WrittenAgrees ==
  ASSUME RequestInv, stage = "searching", NEW m \in ToSet(matches)
  PROVE  Written(m) \in Agreed(request)
<1>1. CombinationInv /\ problem.machine = request.machine /\ problem.graph = request.graph
  BY DEF RequestInv, ProblemInv
<1>2. m \in Seq(1 .. Len(finished)) /\ finished \in Seq(Waiting(problem)) /\ Len(finished) \in Nat
  <2>1. matches \in Seq(Seq(1 .. Len(finished))) /\ finished \in Seq(Waiting(problem))
    BY <1>1 DEF CombinationInv, StackInv, SearchInv
  <2>2. QED
    BY <2>1, LenProperties DEF ToSet
<1>3. \A i \in ToSet(m) : i \in 1 .. Len(finished) /\ finished[i] \in Walks
  <2>1. \A i \in ToSet(m) : i \in 1 .. Len(finished)
    BY <1>2 DEF ToSet
  <2>2. \A i \in 1 .. Len(finished) : finished[i] \in Waiting(problem)
    BY <1>2
  <2>3. QED
    BY <2>1, <2>2 DEF Waiting
<1>4. Agreeing(m) /\ OriginsOf(ToSet(m)) = problem.machine.origins
      /\ RequiredBy(ToSet(m)) \subseteq CoveredBy(ToSet(m))
  BY <1>1 DEF CombinationInv, MatchesAgree
<1> DEFINE walks == {finished[i] : i \in ToSet(m)}
<1>5. walks \in SUBSET Walks
  BY <1>3
<1>6. ASSUME NEW v \in walks, NEW w \in walks, v # w
      PROVE  AreCompatible(v, w)
  <2>1. PICK k \in DOMAIN m, l \in DOMAIN m : v = finished[m[k]] /\ w = finished[m[l]]
    BY DEF ToSet
  <2>2. k \in Nat /\ l \in Nat /\ k # l
    BY <1>2, <1>6, <2>1, LenProperties
  <2>3. CASE k < l
    BY <1>4, <2>1, <2>3 DEF Agreeing
  <2>4. CASE l < k
    BY <1>4, <2>1, <2>4, CompatibleBothWays DEF Agreeing
  <2>5. QED
    BY <2>2, <2>3, <2>4
<1>7. UNION {request.machine.origin[w.state] : w \in walks} = request.machine.origins
  <2>1. {request.machine.origin[w.state] : w \in walks} = {Origin(finished[i]) : i \in ToSet(m)}
    BY <1>1 DEF Origin
  <2>2. QED
    BY <1>1, <1>4, <2>1 DEF OriginsOf
<1>8. UNION {w.rejected : w \in walks} \subseteq UNION {ValidNodes(w) : w \in walks}
  <2>1. /\ {w.rejected : w \in walks} = {finished[i].rejected : i \in ToSet(m)}
        /\ {ValidNodes(w) : w \in walks} = {ValidNodes(finished[i]) : i \in ToSet(m)}
    OBVIOUS
  <2>2. QED
    BY <1>4, <2>1 DEF RequiredBy, CoveredBy
<1>9. problem.tuple \in Seq(Startable(request))
  BY <1>1 DEF CombinationInv, SearchInv, IsProblem, Startable
<1>10. Written(m) = [starts |-> problem.tuple, walks |-> walks]
  BY DEF Written
<1> HIDE DEF walks
<1>11. QED
  BY <1>5, <1>6, <1>7, <1>8, <1>9, <1>10 DEF Agreed

(* The matches of a tuple are written. *)
LEMMA WriteKeeps == RequestInv /\ Write => RequestInv'
<1> SUFFICES ASSUME RequestInv, Write PROVE RequestInv'
  OBVIOUS
<1> DEFINE A == Agreed(request)
           entries == [m \in DOMAIN matches |-> Written(matches[m])]
<1>1. /\ stage = "searching" /\ stage' = "next" /\ number' = number + 1 /\ answer' = answer \o entries
      /\ UNCHANGED <<allVars, request, planning, decoding, searched>>
  BY DEF Write
<1>2. ProblemInv'
  BY <1>1, ProblemStays
<1>3. PlanInv'
  BY <1>1 DEF RequestInv, PlanInv, Planning, planning
<1>4. TupleInv'
  <2>1. number \in Nat /\ combinations \in Nat /\ number < combinations /\ Len(searched) = number + 1
    BY <1>1, Candidates DEF RequestInv, TupleInv, PlanInv
  <2>2. number' \in 0 .. combinations
    BY <1>1, <2>1
  <2>3. QED
    BY <1>1, <2>1, <2>2 DEF RequestInv, TupleInv, Planning, planning, decoding
<1>5. answer' \in Seq(A)
  <2>1. matches \in Seq(Seq(1 .. Len(finished)))
    BY <1>1 DEF RequestInv, ProblemInv, CombinationInv, StackInv
  <2>2. Len(matches) \in Nat /\ DOMAIN matches = 1 .. Len(matches)
    BY <2>1, LenProperties
  <2>3. \A m \in DOMAIN matches : Written(matches[m]) \in A
    BY <1>1, WrittenAgrees DEF ToSet
  <2> HIDE DEF A
  <2>4. entries \in [1 .. Len(matches) -> A]
    BY <2>2, <2>3
  <2> HIDE DEF entries
  <2>5. entries \in Seq(A)
    BY <2>2, <2>4
  <2>6. answer \in Seq(A)
    BY DEF RequestInv, A
  <2>7. QED
    BY <1>1, <2>5, <2>6, ConcatProperties
<1>6. QED
  BY <1>1, <1>2, <1>3, <1>4, <1>5 DEF RequestInv, Stages

LEMMA FinishKeeps == RequestInv /\ Finish => RequestInv'
<1> SUFFICES ASSUME RequestInv, Finish PROVE RequestInv'
  OBVIOUS
<1>1. ProblemInv'
  BY ProblemStays DEF Finish
<1>2. PlanInv'
  BY DEF RequestInv, PlanInv, Finish, Planning, planning
<1>3. TupleInv'
  BY DEF RequestInv, TupleInv, Finish, Planning, planning, decoding, writing
<1>4. QED
  BY <1>1, <1>2, <1>3 DEF RequestInv, Finish, Stages, writing

(* Every step keeps the invariant. *)
LEMMA NextRequest == RequestInv /\ [RequestNext]_requestVars => RequestInv'
<1> SUFFICES ASSUME RequestInv, [RequestNext]_requestVars PROVE RequestInv'
  OBVIOUS
<1>1. CASE RequestNext
  BY <1>1, NoCandidateKeeps, RefuseKeeps, CountKeeps, CountingEndsKeeps, NextTupleKeeps, ChooseNodeKeeps,
     SearchTupleKeeps, SearchKeeps, WriteKeeps, FinishKeeps DEF RequestNext
<1>2. CASE UNCHANGED requestVars
  <2>1. UNCHANGED <<allVars, request, stage, planning, decoding, writing>>
    BY <1>2 DEF requestVars
  <2>2. ProblemInv'
    <3>1. stage = "searching" => CombinationInv'
      BY <2>1, NextCombination DEF RequestInv, ProblemInv
    <3>2. QED
      BY <2>1, <3>1 DEF RequestInv, ProblemInv, allVars, vars, arguments
  <2>3. PlanInv'
    BY <2>1 DEF RequestInv, PlanInv, planning, Options, TooMany
  <2>4. TupleInv'
    BY <2>1 DEF RequestInv, TupleInv, planning, decoding, writing
  <2>5. QED
    BY <2>1, <2>2, <2>3, <2>4 DEF RequestInv, writing
<1>3. QED
  BY <1>1, <1>2

(* The plan, the decoded tuples, the search and the answer stay consistent. *)
THEOREM RequestInvariant == RequestSpec => []RequestInv
<1>1. RequestInit => RequestInv
  BY InitRequest
<1>2. RequestInv /\ [RequestNext]_requestVars => RequestInv'
  BY NextRequest
<1>3. QED
  BY <1>1, <1>2, PTL DEF RequestSpec

(* A request never searches more tuples than its budget allows, and one that *)
(* is refused has more than that, counted up to the group that exceeds it.   *)
THEOREM BudgetKept == RequestSpec => []WithinBudget
<1>1. RequestInv => WithinBudget
  <2> SUFFICES ASSUME RequestInv PROVE WithinBudget
    OBVIOUS
  <2>1. Len(searched) <= request.budget
    <3>1. number \in Nat /\ combinations \in Nat /\ combinations <= request.budget /\ request.budget \in Nat
          /\ number <= combinations /\ (stage = "searching" => number < combinations)
      BY Candidates DEF RequestInv, PlanInv, TupleInv
    <3>2. Len(searched) = IF stage = "searching" THEN number + 1 ELSE number
      BY DEF RequestInv, TupleInv
    <3>3. QED
      BY <3>1, <3>2
  <2>2. ASSUME stage = "refused"
        PROVE  Cardinality(Picks(Startable(request), candidates, counted + 1)) > request.budget
    <3> DEFINE S == Startable(request)
    <3>1. counted \in Nat /\ counted + 1 \in DOMAIN candidates /\ Options # 0 /\ TooMany
      BY <2>2, Candidates DEF RequestInv, PlanInv
    <3>2. candidates \in Seq(Seq(S)) /\ IsInjective(candidates[counted + 1]) /\ request.budget \in Nat
      BY <3>1, Candidates
    <3>3. combinations \in Nat /\ HasSize(Picks(S, candidates, counted), combinations)
      BY <2>2, <3>2 DEF RequestInv, PlanInv, Planning
    <3> HIDE DEF S
    <3>4. Options \in Nat \ {0} /\ HasSize(Picks(S, candidates, counted + 1), combinations * Options)
      BY <3>1, <3>2, <3>3, PicksMultiply DEF Options
    <3>5. combinations * Options > request.budget
      BY <3>1, <3>2, <3>3, <3>4, Division DEF TooMany
    <3>6. QED
      BY <3>4, <3>5 DEF HasSize, S
  <2>3. StartNodes = Startable(request)
    BY DEF RequestInv, ProblemInv, StartNodes, Nodes, Startable
  <2>4. QED
    BY <2>1, <2>2, <2>3 DEF WithinBudget, Picks
<1>2. QED
  BY <1>1, RequestInvariant, PTL

(* Whatever has been searched before, the walks of every match that is       *)
(* written cover all paths, agree two by two, and cover what their strict    *)
(* anchors demand.                                                           *)
THEOREM AnswersAgree == RequestSpec => []AnswerAgrees
<1>1. RequestInv => AnswerAgrees
  <2> SUFFICES ASSUME RequestInv, NEW entry \in ToSet(answer)
               PROVE  /\ \A v, w \in entry.walks : v # w => AreCompatible(v, w)
                      /\ UNION {Origin(w) : w \in entry.walks} = request.machine.origins
                      /\ UNION {w.rejected : w \in entry.walks} \subseteq UNION {ValidNodes(w) : w \in entry.walks}
    BY DEF AnswerAgrees
  <2>1. answer \in Seq(Agreed(request)) /\ problem.machine = request.machine
    BY DEF RequestInv, ProblemInv
  <2>2. entry \in Agreed(request)
    BY <2>1 DEF ToSet
  <2>3. {Origin(w) : w \in entry.walks} = {request.machine.origin[w.state] : w \in entry.walks}
    BY <2>1 DEF Origin
  <2>4. QED
    BY <2>2, <2>3 DEF Agreed
<1>2. QED
  BY <1>1, RequestInvariant, PTL

(* Every number decodes to nodes of the graph, and every search is given a   *)
(* problem it is meant for.                                                  *)
THEOREM RequestTyped == RequestSpec => []RequestTypeOK
<1>1. RequestInv => RequestTypeOK
  <2> SUFFICES ASSUME RequestInv PROVE RequestTypeOK
    OBVIOUS
  <2>1. StartNodes = Startable(request)
    BY DEF RequestInv, ProblemInv, StartNodes, Nodes, Startable
  <2>2. stage = "searching" => IsProblem(problem) /\ CombinationTypeOK
    BY InvariantTypes DEF RequestInv, ProblemInv, CombinationInv, StackInv, SearchInv, CombinationTypeOK
  <2>3. combinations \in Nat /\ counted \in 0 .. Len(candidates)
    BY Candidates DEF RequestInv, PlanInv
  <2>4. QED
    BY <2>1, <2>2, <2>3 DEF RequestInv, TupleInv, RequestTypeOK, Stages
<1>2. QED
  BY <1>1, RequestInvariant, PTL

-----------------------------------------------------------------------------
(***************************************************************************)
(* Decoding.  `q` is what is left of a number after each division, `p` the  *)
(* nodes picked: the tuples of all groups are picked once each, because no   *)
(* two numbers below their count pick the same, and there are as many.      *)
(***************************************************************************)
IsPlan(S, c) == c \in Seq(Seq(S)) /\ \A k \in DOMAIN c : IsInjective(c[k]) /\ Len(c[k]) \in Nat \ {0}

Decodes(c, q, p) ==
  /\ q \in [0 .. Len(p) -> Nat]
  /\ \A k \in 1 .. Len(p) :
       q[k] = q[k - 1] \div Len(c[k]) /\ p[k] = c[k][1 + (q[k - 1] % Len(c[k]))]

(* A number below the count of the tuples is used up by its divisions. *)
LEMMA UsedUp ==
  ASSUME NEW S, NEW c, IsPlan(S, c), NEW n \in Nat, HasSize(Picks(S, c, Len(c)), n),
         NEW p, Len(p) = Len(c), NEW q, Decodes(c, q, p), q[0] < n
  PROVE  q[Len(c)] = 0
<1> DEFINE K == Len(c)
           size(k) == Cardinality(Picks(S, c, k))
           T == {k \in 0 .. K : size(k) \in Nat /\ HasSize(Picks(S, c, k), size(k)) /\ q[k] * size(k) <= q[0]}
<1>1. K \in Nat /\ DOMAIN c = 1 .. K /\ c \in Seq(Seq(S))
  BY LenProperties DEF IsPlan
<1>2. q \in [0 .. K -> Nat] /\ \A k \in 1 .. K : q[k] = q[k - 1] \div Len(c[k])
  BY DEF Decodes
<1>3. 0 \in T
  <2>1. HasSize(Picks(S, c, 0), 1)
    BY NoPick
  <2>2. size(0) = 1 /\ q[0] \in Nat
    BY <1>1, <1>2, <2>1 DEF HasSize
  <2>3. q[0] * size(0) <= q[0]
    BY <2>2
  <2> QED
    BY <1>1, <2>1, <2>2, <2>3
<1>4. ASSUME NEW k \in 0 .. K - 1, k \in T PROVE k + 1 \in T
  <2> DEFINE L == Len(c[k + 1])
             w == size(k)
  <2>1. k \in Nat /\ k + 1 \in 1 .. K /\ k + 1 \in 0 .. K /\ k \in 0 .. K /\ (k + 1) - 1 = k
    BY <1>1
  <2>2. w \in Nat /\ HasSize(Picks(S, c, k), w) /\ q[k] * w <= q[0]
    BY <1>4
  <2>3. L \in Nat \ {0} /\ IsInjective(c[k + 1])
    BY <1>1, <2>1 DEF IsPlan
  <2> HIDE DEF T, K, size
  <2>4. HasSize(Picks(S, c, k + 1), w * L)
    BY <1>1, <2>1, <2>2, <2>3, PicksMultiply
  <2>5. size(k + 1) = w * L /\ size(k + 1) \in Nat
    BY <2>2, <2>3, <2>4 DEF HasSize, size
  <2> HIDE DEF w, L
  <2>6. q[k] \in Nat /\ q[k + 1] \in Nat /\ q[0] \in Nat /\ q[k + 1] = q[k] \div L
    BY <1>1, <1>2, <2>1 DEF L
  <2>7. q[k + 1] * L <= q[k]
    <3>1. (q[k] \div L) * L + (q[k] % L) = q[k] /\ q[k] % L \in 0 .. L - 1
      BY <2>3, <2>6, Remainder
    <3>2. q[k + 1] * L + (q[k] % L) = q[k]
      BY <2>6, <3>1
    <3> QED
      BY <2>3, <2>6, <3>1, <3>2
  <2>8. q[k + 1] * (w * L) <= q[0]
    <3> DEFINE a == q[k]
               b == q[k + 1]
    <3>1. a \in Nat /\ b \in Nat /\ b * L <= a /\ a * w <= q[0]
      BY <2>2, <2>6, <2>7
    <3> HIDE DEF a, b
    <3>2. (b * L) * w <= a * w
      BY <2>2, <2>3, <3>1
    <3>3. b * (w * L) = (b * L) * w
      BY <2>2, <2>3, <3>1
    <3>4. b * (w * L) <= q[0]
      BY <2>2, <2>3, <2>6, <3>1, <3>2, <3>3
    <3> QED
      BY <3>4 DEF b
  <2>9. HasSize(Picks(S, c, k + 1), size(k + 1))
    BY <2>4, <2>5
  <2> QED
    BY <2>1, <2>5, <2>8, <2>9 DEF T
<1>5. K \in T
  <2> HIDE DEF T
  <2>1. 0 .. K \subseteq T
    BY <1>1, <1>3, <1>4, UpTo
  <2> QED
    BY <1>1, <2>1
<1>6. q[K] \in Nat /\ q[K] * n <= q[0] /\ q[0] \in Nat
  <2>1. size(K) = n
    BY DEF HasSize
  <2> QED
    BY <1>1, <1>2, <1>5, <2>1
<1> HIDE DEF K
<1>7. q[K] = 0
  <2> SUFFICES ASSUME q[K] # 0 PROVE FALSE
    OBVIOUS
  <2> DEFINE a == q[K]
  <2>1. a \in Nat /\ a >= 1 /\ a * n <= q[0]
    BY <1>6
  <2> HIDE DEF a
  <2>2. a * n >= n
    BY <2>1
  <2> QED
    BY <1>6, <2>1, <2>2
<1> QED
  BY <1>7 DEF K

(* Two numbers that pick the same nodes are the same. *)
LEMMA PickedOnce ==
  ASSUME NEW S, NEW c, IsPlan(S, c), NEW n \in Nat, HasSize(Picks(S, c, Len(c)), n), NEW p, Len(p) = Len(c),
         NEW q, Decodes(c, q, p), q[0] < n, NEW r, Decodes(c, r, p), r[0] < n
  PROVE  q[0] = r[0]
<1> SUFFICES ASSUME q[0] # r[0] PROVE FALSE
  OBVIOUS
<1> DEFINE K == Len(c)
           T == {k \in 0 .. K : q[k] # r[k]}
<1>1. K \in Nat /\ DOMAIN c = 1 .. K /\ c \in Seq(Seq(S))
  BY LenProperties DEF IsPlan
<1>2. /\ q \in [0 .. K -> Nat] /\ r \in [0 .. K -> Nat]
      /\ \A k \in 1 .. K : q[k] = q[k - 1] \div Len(c[k]) /\ p[k] = c[k][1 + (q[k - 1] % Len(c[k]))]
      /\ \A k \in 1 .. K : r[k] = r[k - 1] \div Len(c[k]) /\ p[k] = c[k][1 + (r[k - 1] % Len(c[k]))]
  BY DEF Decodes
<1>3. q[K] = 0 /\ r[K] = 0
  BY UsedUp
<1>4. ASSUME NEW k \in 0 .. K - 1, k \in T PROVE k + 1 \in T
  <2> DEFINE L == Len(c[k + 1])
  <2>1. k + 1 \in 1 .. K /\ k + 1 \in 0 .. K /\ k \in 0 .. K /\ (k + 1) - 1 = k
    BY <1>1
  <2>2. L \in Nat \ {0} /\ IsInjective(c[k + 1]) /\ c[k + 1] \in Seq(S)
    <3>1. k + 1 \in DOMAIN c
      BY <1>1, <2>1
    <3>2. c[k + 1] \in Seq(S)
      BY <1>1, <3>1
    <3> QED
      BY <3>1, <3>2 DEF IsPlan
  <2>3. DOMAIN c[k + 1] = 1 .. L
    BY <2>2
  <2>4. /\ q[k] \in Nat /\ r[k] \in Nat
        /\ q[k + 1] = q[k] \div L /\ r[k + 1] = r[k] \div L
        /\ c[k + 1][1 + (q[k] % L)] = c[k + 1][1 + (r[k] % L)]
    BY <1>2, <2>1
  <2> HIDE DEF L
  <2>5. /\ q[k] % L \in 0 .. L - 1 /\ q[k] = q[k + 1] * L + (q[k] % L)
        /\ r[k] % L \in 0 .. L - 1 /\ r[k] = r[k + 1] * L + (r[k] % L)
    BY <2>2, <2>4, Remainder
  <2>6. q[k] % L = r[k] % L
    <3>1. 1 + (q[k] % L) \in DOMAIN c[k + 1] /\ 1 + (r[k] % L) \in DOMAIN c[k + 1]
      BY <2>2, <2>3, <2>5
    <3>2. 1 + (q[k] % L) = 1 + (r[k] % L)
      BY <2>2, <2>4, <3>1 DEF IsInjective
    <3> QED
      BY <2>5, <3>2
  <2>7. q[k + 1] # r[k + 1]
    <3>1. q[k] # r[k]
      BY <1>4
    <3> QED
      BY <2>5, <2>6, <3>1
  <2> QED
    BY <2>1, <2>7
<1>5. 0 \in T
  BY <1>1
<1>6. K \in T
  <2> HIDE DEF T
  <2>1. 0 .. K \subseteq T
    BY <1>1, <1>4, <1>5, UpTo
  <2> QED
    BY <1>1, <2>1
<1> QED
  BY <1>3, <1>6

(* What is picked is a tuple of all groups. *)
LEMMA PickedTuple ==
  ASSUME NEW S, NEW c, IsPlan(S, c), NEW p \in Seq(S), Len(p) = Len(c), NEW q, Decodes(c, q, p)
  PROVE  p \in Picks(S, c, Len(c))
<1> DEFINE K == Len(c)
<1>1. K \in Nat /\ DOMAIN c = 1 .. K /\ c \in Seq(Seq(S)) /\ p \in [1 .. K -> S]
  BY LenProperties DEF IsPlan
<1>2. ASSUME NEW k \in 1 .. K PROVE p[k] \in ToSet(c[k])
  <2>1. Len(c[k]) \in Nat \ {0} /\ c[k] \in Seq(S) /\ DOMAIN c[k] = 1 .. Len(c[k])
    <3>1. k \in DOMAIN c
      BY <1>1
    <3>2. c[k] \in Seq(S)
      BY <1>1, <3>1
    <3>3. DOMAIN c[k] = 1 .. Len(c[k])
      BY <3>2
    <3> QED
      BY <3>1, <3>2, <3>3 DEF IsPlan
  <2>2. k - 1 \in 0 .. K /\ q[k - 1] \in Nat
    <3>1. k - 1 \in 0 .. K
      BY <1>1
    <3>2. q \in [0 .. K -> Nat]
      BY DEF Decodes
    <3> QED
      BY <3>1, <3>2
  <2>3. q[k - 1] % Len(c[k]) \in 0 .. Len(c[k]) - 1
    BY <2>1, <2>2, Remainder
  <2>4. 1 + (q[k - 1] % Len(c[k])) \in DOMAIN c[k]
    BY <2>1, <2>3
  <2>5. p[k] = c[k][1 + (q[k - 1] % Len(c[k]))]
    BY DEF Decodes
  <2> QED
    BY <2>4, <2>5 DEF ToSet
<1> QED
  BY <1>1, <1>2 DEF Picks

(* The numbers below the count of the tuples pick each of them once. *)
LEMMA AllPicked ==
  ASSUME NEW S, NEW c, IsPlan(S, c), NEW n \in Nat, HasSize(Picks(S, c, Len(c)), n),
         NEW s \in [1 .. n -> Seq(S)],
         \A i \in 1 .. n : Len(s[i]) = Len(c) /\ \E q : Decodes(c, q, s[i]) /\ q[0] = i - 1
  PROVE  s \in Bijection(1 .. n, Picks(S, c, Len(c)))
<1> DEFINE P == Picks(S, c, Len(c))
<1>1. s \in [1 .. n -> P]
  BY PickedTuple
<1>2. ASSUME NEW i \in 1 .. n, NEW j \in 1 .. n, s[i] = s[j] PROVE i = j
  <2>1. PICK q : Decodes(c, q, s[i]) /\ q[0] = i - 1
    OBVIOUS
  <2>2. PICK r : Decodes(c, r, s[i]) /\ r[0] = j - 1
    BY <1>2
  <2>3. q[0] < n /\ r[0] < n /\ Len(s[i]) = Len(c)
    BY <2>1, <2>2
  <2>4. q[0] = r[0]
    <3> DEFINE p == s[i]
    <3>1. Decodes(c, q, p) /\ Decodes(c, r, p) /\ Len(p) = Len(c)
      BY <2>1, <2>2, <2>3
    <3> HIDE DEF p
    <3> QED
      BY <2>3, <3>1, PickedOnce
  <2> QED
    BY <2>1, <2>2, <2>4
<1> HIDE DEF P
<1>3. s \in Injection(1 .. n, P)
  BY <1>1, <1>2 DEF Injection, IsInjective
<1>4. IsFiniteSet(P) /\ Cardinality(P) = n /\ Cardinality(1 .. n) = n
  <2>1. Cardinality(1 .. n) = n
    BY FS_Interval
  <2> QED
    BY <2>1 DEF HasSize, P
<1>5. s \in Surjection(1 .. n, P)
  BY <1>3, <1>4, FS_Injection
<1> QED
  BY <1>3, <1>5 DEF Bijection, P

-----------------------------------------------------------------------------
(* No group is left without a start, and tied starts are those of one group.  *)
LEMMA GroupsAreTies ==
  ASSUME NEW m, NEW S, m.starts \in Seq(S)
  PROVE  /\ \A g \in 1 .. GroupCount(m) : \E i \in DOMAIN m.starts : StartGroups(m)[i] = g
         /\ \A i, j \in DOMAIN m.starts : StartGroups(m)[i] = StartGroups(m)[j] <=> Tied(m, i, j)
<1> DEFINE n == Len(m.starts)
           leading(k) == {j \in 1 .. k : Leads(m, j)}
           leader(i) == CHOOSE j \in 1 .. i : Leads(m, j) /\ Tied(m, j, i)
<1>1. n \in Nat /\ DOMAIN m.starts = 1 .. n
  OBVIOUS
<1>2. GroupCount(m) = Cardinality(leading(n))
  BY <1>1 DEF GroupCount
<1>3. \A k \in Nat : IsFiniteSet(leading(k)) /\ Cardinality(leading(k)) \in Nat
  <2> TAKE k \in Nat
  <2>1. IsFiniteSet(1 .. k) /\ leading(k) \in SUBSET (1 .. k)
    BY FS_Interval
  <2> QED
    BY <2>1, FS_Subset, FS_CardinalityType
<1>4. ASSUME NEW i \in 1 .. n
      PROVE  leader(i) \in 1 .. i /\ Leads(m, leader(i)) /\ Tied(m, leader(i), i)
             /\ StartGroups(m)[i] = Cardinality(leading(leader(i)))
  <2>1. i \in Nat \ {0}
    BY <1>1
  <2>2. \E j \in 1 .. i : Leads(m, j) /\ Tied(m, j, i)
    BY <2>1, LeaderExists
  <2> QED
    BY <1>1, <2>2 DEF StartGroups
<1>5. ASSUME NEW i \in 1 .. n, NEW j \in 1 .. n, Leads(m, i), Leads(m, j), i < j
      PROVE  ~ Tied(m, i, j) /\ Cardinality(leading(i)) < Cardinality(leading(j))
  <2>1. i \in 1 .. j - 1 /\ i \in Nat /\ j \in Nat
    BY <1>1, <1>5
  <2>2. ~ Tied(m, i, j)
    BY <1>5, <2>1 DEF Leads
  <2>3. leading(i) \subseteq leading(j) /\ j \in leading(j) /\ j \notin leading(i)
    BY <1>5, <2>1
  <2> HIDE DEF leading
  <2>4. IsFiniteSet(leading(j)) /\ IsFiniteSet(leading(i)) /\ Cardinality(leading(i)) \in Nat /\ Cardinality(leading(j)) \in Nat
    BY <1>3, <2>1
  <2>5. Cardinality(leading(i)) <= Cardinality(leading(j)) /\ Cardinality(leading(i)) # Cardinality(leading(j))
    BY <2>3, <2>4, FS_Subset
  <2> QED
    BY <2>2, <2>4, <2>5
<1>6. ASSUME NEW i \in 1 .. n, NEW j \in 1 .. n
      PROVE  StartGroups(m)[i] = StartGroups(m)[j] <=> Tied(m, i, j)
  <2> DEFINE a == leader(i)
             b == leader(j)
  <2>1. /\ a \in 1 .. n /\ b \in 1 .. n /\ a \in Nat /\ b \in Nat /\ Leads(m, a) /\ Leads(m, b)
        /\ Tied(m, a, i) /\ Tied(m, b, j)
        /\ StartGroups(m)[i] = Cardinality(leading(a)) /\ StartGroups(m)[j] = Cardinality(leading(b))
    <3>1. a \in 1 .. i /\ b \in 1 .. j /\ Leads(m, a) /\ Leads(m, b) /\ Tied(m, a, i) /\ Tied(m, b, j)
          /\ StartGroups(m)[i] = Cardinality(leading(a)) /\ StartGroups(m)[j] = Cardinality(leading(b))
      BY <1>4
    <3> HIDE DEF a, b
    <3> QED
      BY <1>1, <3>1
  <2> HIDE DEF a, b, leader
  <2>2. Cardinality(leading(a)) \in Nat /\ Cardinality(leading(b)) \in Nat
    BY <1>3, <2>1
  <2>3. a # b => ~ Tied(m, a, b) /\ Cardinality(leading(a)) # Cardinality(leading(b))
    <3>1. a < b => ~ Tied(m, a, b) /\ Cardinality(leading(a)) < Cardinality(leading(b))
      BY <1>5, <2>1
    <3>2. b < a => ~ Tied(m, b, a) /\ Cardinality(leading(b)) < Cardinality(leading(a))
      BY <1>5, <2>1
    <3>3. Tied(m, a, b) => Tied(m, b, a)
      BY DEF Tied
    <3> HIDE DEF leading
    <3> QED
      BY <2>1, <2>2, <3>1, <3>2, <3>3
  <2>4. Tied(m, i, j) => Tied(m, a, b)
    <3>1. Tied(m, b, j) => Tied(m, j, b)
      BY DEF Tied
    <3> QED
      BY <2>1, <3>1, TiedIsTransitive
  <2>5. a = b => Tied(m, i, j)
    <3>1. Tied(m, a, i) => Tied(m, i, a)
      BY DEF Tied
    <3> QED
      BY <2>1, <3>1, TiedIsTransitive
  <2> QED
    BY <2>1, <2>3, <2>4, <2>5
<1>7. ASSUME NEW g \in 1 .. GroupCount(m)
      PROVE  \E i \in DOMAIN m.starts : StartGroups(m)[i] = g
  <2> DEFINE U == {k \in 1 .. n : g <= Cardinality(leading(k))}
  <2>1. n \in U
    <3>1. Cardinality(leading(n)) \in Nat /\ g <= Cardinality(leading(n)) /\ g >= 1
      <4>1. Cardinality(leading(n)) \in Nat
        BY <1>1, <1>3
      <4> HIDE DEF leading, n
      <4> QED
        BY <1>2, <4>1
    <3>2. n # 0
      <4>1. n = 0 => leading(n) = {}
        OBVIOUS
      <4> HIDE DEF leading, n
      <4>2. Cardinality({}) = 0
        BY FS_EmptySet
      <4>3. Cardinality(leading(n)) # 0
        BY <3>1
      <4> QED
        BY <4>1, <4>2, <4>3
    <3> HIDE DEF leading
    <3> QED
      BY <1>1, <3>1, <3>2
  <2>2. PICK k \in U : \A j \in U : k <= j
    <3>1. U \subseteq Nat /\ U # {}
      <4>1. U \subseteq 1 .. n /\ U # {}
        BY <2>1
      <4> HIDE DEF U
      <4> QED
        BY <1>1, <4>1
    <3> HIDE DEF U
    <3> QED
      BY <3>1, LeastElement
  <2>3. k \in 1 .. n /\ g <= Cardinality(leading(k)) /\ k \in Nat /\ k - 1 \in Nat /\ g \in Nat \ {0}
    BY <1>1, <1>2
  <2>4. Cardinality(leading(k - 1)) < g
    <3>1. CASE k = 1
      <4>1. leading(k - 1) = {}
        BY <3>1
      <4>2. Cardinality(leading(k - 1)) = 0
        BY <4>1, FS_EmptySet
      <4> HIDE DEF leading
      <4> QED
        BY <2>3, <4>2
    <3>2. CASE k # 1
      <4>1. k - 1 \in 1 .. n /\ ~ (k <= k - 1)
        BY <1>1, <2>3, <3>2
      <4>2. k - 1 \notin U
        BY <2>2, <4>1
      <4>3. ~ (g <= Cardinality(leading(k - 1))) /\ Cardinality(leading(k - 1)) \in Nat
        BY <1>3, <2>3, <4>1, <4>2
      <4> QED
        BY <2>3, <4>3
    <3> QED
      BY <3>1, <3>2
  <2>5. Leads(m, k) /\ leading(k) = leading(k - 1) \cup {k} /\ k \notin leading(k - 1)
    <3>1. 1 .. k = (1 .. k - 1) \cup {k} /\ k \notin 1 .. k - 1
      BY <2>3
    <3>2. Leads(m, k)
      <4> SUFFICES ASSUME ~ Leads(m, k) PROVE FALSE
        OBVIOUS
      <4>1. leading(k) = leading(k - 1)
        BY <3>1
      <4>2. Cardinality(leading(k)) \in Nat
        BY <1>3, <2>3
      <4> HIDE DEF leading
      <4> QED
        BY <2>3, <2>4, <4>1, <4>2
    <3> QED
      BY <3>1, <3>2
  <2>6. Cardinality(leading(k)) = g
    <3>1. Cardinality(leading(k)) = Cardinality(leading(k - 1)) + 1 /\ Cardinality(leading(k - 1)) \in Nat
      <4>1. IsFiniteSet(leading(k - 1)) /\ Cardinality(leading(k - 1)) \in Nat
        BY <1>3, <2>3
      <4> HIDE DEF leading
      <4> QED
        BY <2>5, <4>1, FS_AddElement
    <3> HIDE DEF leading
    <3> QED
      BY <2>3, <2>4, <3>1
  <2>7. leader(k) = k
    <3>1. leader(k) \in 1 .. k /\ Leads(m, leader(k)) /\ Tied(m, leader(k), k)
      BY <1>4, <2>3
    <3> DEFINE l == leader(k)
    <3>2. l \in 1 .. n /\ l \in Nat /\ l <= k /\ Leads(m, l) /\ Tied(m, l, k)
      BY <1>1, <2>3, <3>1
    <3> HIDE DEF l
    <3>3. ~ (l < k)
      BY <1>5, <2>3, <2>5, <3>2
    <3>4. l = k
      BY <2>3, <3>2, <3>3
    <3> QED
      BY <3>4 DEF l
  <2> QED
    BY <1>1, <1>4, <2>3, <2>6, <2>7
<1> QED
  BY <1>1, <1>6, <1>7

(* The candidates of a group are the nodes that all its starts accept. *)
LEMMA CandidateSets ==
  ASSUME NEW r, IsRequest(r), NEW k \in 1 .. GroupCount(r.machine)
  PROVE  ToSet(StartCandidates(r.graph, r.machine)[k]) =
           IF r.graph.nodes = {} THEN {NoNode}
           ELSE {x \in r.graph.nodes : \A i \in DOMAIN r.machine.starts :
                   StartGroups(r.machine)[i] = k => x \in Accepts(r.graph, r.machine, r.machine.starts[i])}
<1> DEFINE A == {x \in r.graph.nodes : \A i \in DOMAIN r.machine.starts :
                   StartGroups(r.machine)[i] = k => x \in Accepts(r.graph, r.machine, r.machine.starts[i])}
           list == StartCandidates(r.graph, r.machine)[k]
<1>1. list = IF r.graph.nodes = {} THEN <<NoNode>> ELSE Ascending(A)
  BY DEF StartCandidates
<1>2. A \in SUBSET r.graph.nodes /\ r.graph.nodes \subseteq Nat /\ IsFiniteSet(r.graph.nodes)
  BY DEF IsRequest
<1> HIDE DEF A, list
<1>3. IsFiniteSet(A) /\ A \subseteq Nat
  BY <1>2, FS_Subset
<1>4. ToSet(Ascending(A)) = A
  <2> DEFINE s == Ascending(A)
  <2>1. s \in Seq(A) /\ IsInjective(s)
    BY <1>3, AscendingLists
  <2> HIDE DEF s
  <2>2. Len(s) \in Nat /\ ToSet(s) \subseteq A /\ HasSize(ToSet(s), Len(s))
    BY <2>1, ListSize
  <2>3. Len(s) = Cardinality(A)
    <3>1. s \in [1 .. Cardinality(A) -> A] /\ Cardinality(A) \in Nat
      BY <1>3, AllListed, FS_CardinalityType DEF Listed, Increasing, Ascending, s
    <3> QED
      BY <3>1
  <2> QED
    BY <1>3, <2>2, <2>3, FS_Subset DEF HasSize, s
<1>5. ToSet(<<NoNode>>) = {NoNode}
  BY DEF ToSet
<1> QED
  BY <1>1, <1>4, <1>5 DEF A, list

(* The tuple of starts that a node for each group gives. *)
Starting(p) == [i \in DOMAIN request.machine.starts |-> p[StartGroups(request.machine)[i]]]

(* These are the tuples to try, and each comes from one choice for groups.   *)
LEMMA StartingTuples ==
  ASSUME RequestInv
  PROVE  LET P == Picks(Startable(request), candidates, Len(candidates))
         IN  /\ \A p \in P : Starting(p) \in TuplesToTry
             /\ \A t \in TuplesToTry : \E p \in P : Starting(p) = t
             /\ \A p, o \in P : Starting(p) = Starting(o) => p = o
<1> DEFINE S == Startable(request)
           m == request.machine
           K == Len(candidates)
           P == Picks(S, candidates, K)
           G == StartGroups(m)
           D == DOMAIN m.starts
           nodes == request.graph.nodes
           accepted(i) == IF nodes = {} THEN {NoNode} ELSE Accepts(request.graph, m, m.starts[i])
<1>1. /\ IsRequest(request) /\ candidates = StartCandidates(request.graph, m) /\ Nodes = nodes
      /\ m.starts \in Seq(States(m))
  BY DEF RequestInv, ProblemInv, PlanInv, Nodes, IsRequest
<1>2. K = GroupCount(m) /\ K \in Nat /\ DOMAIN G = D /\ \A i \in D : G[i] \in 1 .. K
  BY <1>1, Candidates, GroupsExist
<1>3. /\ \A g \in 1 .. K : \E i \in D : G[i] = g
      /\ \A i, j \in D : G[i] = G[j] <=> Tied(m, i, j)
  BY <1>1, <1>2, GroupsAreTies
<1>4. \A g \in 1 .. K : ToSet(candidates[g]) =
        IF nodes = {} THEN {NoNode} ELSE {x \in nodes : \A i \in D : G[i] = g => x \in accepted(i)}
  <2> SUFFICES ASSUME NEW g \in 1 .. K
               PROVE  ToSet(candidates[g]) =
                        IF nodes = {} THEN {NoNode} ELSE {x \in nodes : \A i \in D : G[i] = g => x \in accepted(i)}
    OBVIOUS
  <2>1. ToSet(candidates[g]) =
          IF nodes = {} THEN {NoNode}
          ELSE {x \in nodes : \A i \in D : G[i] = g => x \in Accepts(request.graph, m, m.starts[i])}
    BY <1>1, <1>2, CandidateSets, Zenon
  <2>2. CASE nodes = {}
    BY <2>1, <2>2
  <2>3. CASE nodes # {}
    <3>1. \A i \in D : accepted(i) = Accepts(request.graph, m, m.starts[i])
      BY <2>3
    <3> HIDE DEF accepted
    <3> QED
      BY <2>1, <2>3, <3>1
  <2> QED
    BY <2>2, <2>3
<1>5. \A i \in D : accepted(i) \subseteq S
  <2>1. \A i \in D : Accepts(request.graph, m, m.starts[i]) \subseteq nodes
    BY DEF Accepts
  <2> QED
    BY <2>1 DEF Startable
<1>6. TuplesToTry = {t \in [D -> S] : \A i \in D : t[i] \in accepted(i) /\ \A j \in D : Tied(m, i, j) => t[i] = t[j]}
  BY <1>1 DEF TuplesToTry, StartNodes, Startable
<1>7. \A p : Starting(p) = [i \in D |-> p[G[i]]]
  BY DEF Starting
<1>8. P = {p \in [1 .. K -> S] : \A g \in 1 .. K : p[g] \in ToSet(candidates[g])}
  BY DEF Picks
<1> HIDE DEF S, K, G, D, P, nodes, m
<1>9. ASSUME NEW p \in P PROVE Starting(p) \in TuplesToTry
  <2>1. ASSUME NEW i \in D PROVE p[G[i]] \in accepted(i)
    <3>1. G[i] \in 1 .. K /\ p[G[i]] \in ToSet(candidates[G[i]])
      BY <1>2, <1>8
    <3> QED
      BY <1>4, <3>1
  <2>2. \A i \in D : p[G[i]] \in S
    BY <1>5, <2>1
  <2>3. Starting(p) \in [D -> S] /\ \A i \in D : Starting(p)[i] = p[G[i]]
    BY <1>7, <2>2
  <2> HIDE DEF accepted
  <2> QED
    BY <1>3, <1>6, <2>1, <2>3
<1>10. ASSUME NEW t \in TuplesToTry PROVE \E p \in P : Starting(p) = t
  <2> DEFINE of(g) == CHOOSE i \in D : G[i] = g
             p == [g \in 1 .. K |-> t[of(g)]]
  <2>1. \A g \in 1 .. K : of(g) \in D /\ G[of(g)] = g
    BY <1>3
  <2>2. t \in [D -> S] /\ \A i \in D : t[i] \in accepted(i) /\ \A j \in D : Tied(m, i, j) => t[i] = t[j]
    BY <1>6
  <2>3. \A g \in 1 .. K : \A i \in D : G[i] = g => t[i] = p[g]
    <3> SUFFICES ASSUME NEW g \in 1 .. K, NEW i \in D, G[i] = g PROVE t[i] = p[g]
      OBVIOUS
    <3>1. of(g) \in D /\ G[of(g)] = G[i] /\ p[g] = t[of(g)]
      BY <2>1
    <3>2. Tied(m, of(g), i)
      BY <1>3, <3>1
    <3> QED
      BY <2>2, <3>1, <3>2
  <2>4. ASSUME NEW g \in 1 .. K PROVE p[g] \in S /\ p[g] \in ToSet(candidates[g])
    <3>1. of(g) \in D /\ p[g] = t[of(g)] /\ t[of(g)] \in S /\ t[of(g)] \in accepted(of(g))
      BY <2>1, <2>2
    <3>2. CASE nodes = {}
      BY <1>4, <3>1, <3>2
    <3>3. CASE nodes # {}
      <4>1. \A i \in D : accepted(i) \subseteq nodes
        BY <3>3 DEF Accepts, nodes
      <4>2. \A i \in D : G[i] = g => p[g] \in accepted(i)
        BY <2>2, <2>3
      <4> HIDE DEF p, of, accepted
      <4> QED
        BY <1>4, <3>1, <3>3, <4>1, <4>2
    <3> QED
      BY <3>1, <3>2, <3>3
  <2>5. p \in P
    <3>1. p \in [1 .. K -> S]
      BY <2>4
    <3> HIDE DEF p
    <3> QED
      BY <1>8, <2>4, <3>1
  <2>6. Starting(p) = t
    <3> HIDE DEF p
    <3>1. \A i \in D : p[G[i]] = t[i]
      BY <1>2, <2>3
    <3> QED
      BY <1>7, <2>2, <3>1
  <2> QED
    BY <2>5, <2>6
<1>11. ASSUME NEW p \in P, NEW o \in P, Starting(p) = Starting(o) PROVE p = o
  <2>1. p \in [1 .. K -> S] /\ o \in [1 .. K -> S]
    BY <1>8
  <2>2. ASSUME NEW g \in 1 .. K PROVE p[g] = o[g]
    <3>1. PICK i \in D : G[i] = g
      BY <1>3
    <3>2. Starting(p)[i] = p[g] /\ Starting(o)[i] = o[g]
      BY <1>7, <3>1
    <3> QED
      BY <1>11, <3>2
  <2>3. p = [g \in 1 .. K |-> p[g]] /\ o = [g \in 1 .. K |-> o[g]]
    BY <2>1
  <2>4. [g \in 1 .. K |-> p[g]] = [g \in 1 .. K |-> o[g]]
    BY <2>2
  <2> QED
    BY <2>3, <2>4
<1> QED
  BY <1>9, <1>10, <1>11 DEF P, K, S

-----------------------------------------------------------------------------
(* The tuples searched so far are those of the first numbers, in their order. *)
Comes(n, t) ==
  \E p \in Seq(Startable(request)) :
    /\ Len(p) = Len(candidates) /\ t = Starting(p)
    /\ \E q : Decodes(candidates, q, p) /\ q[0] = n

DecodeInv ==
  /\ combinations = 0 => stage \notin Planning /\ \E k \in DOMAIN candidates : Len(candidates[k]) = 0
  /\ stage = "answered" => number = combinations
  /\ stage = "decoding" =>
       \E q : Decodes(candidates, q, chosen) /\ q[0] = number /\ q[Len(chosen)] = rest
  /\ \A n \in 1 .. Len(searched) : Comes(n - 1, searched[n])

LEMMA InitDecode == RequestInit => DecodeInv
BY DEF RequestInit, DecodeInv, Planning

LEMMA SearchedStays ==
  ASSUME DecodeInv, UNCHANGED <<request, candidates, searched>>
  PROVE  \A n \in 1 .. Len(searched') : Comes(n - 1, searched[n])'
BY DEF DecodeInv, Comes, Starting

(* A step that neither counts nor decodes. *)
LEMMA DecodeStays ==
  ASSUME DecodeInv, UNCHANGED <<request, candidates, combinations, searched>>,
         stage' \notin {"decoding"} \/ UNCHANGED <<stage, number, chosen, rest>>,
         stage' \in Planning => stage \in Planning,
         stage' = "answered" => number' = combinations
  PROVE  DecodeInv'
<1>1. UNCHANGED <<request, candidates, searched>>
  OBVIOUS
<1>2. \A n \in 1 .. Len(searched') : Comes(n - 1, searched[n])'
  BY <1>1, SearchedStays, Zenon
<1>3. stage' = "decoding" =>
        \E q : Decodes(candidates', q, chosen') /\ q[0] = number' /\ q[Len(chosen')] = rest'
  BY DEF DecodeInv
<1> QED
  BY <1>2, <1>3 DEF DecodeInv

LEMMA CountDecodes == ASSUME RequestInv, DecodeInv, CountGroup PROVE DecodeInv'
<1>1. /\ stage = "counting" /\ stage' = stage /\ combinations' = combinations * Options /\ Options # 0
      /\ counted < Len(candidates) /\ UNCHANGED <<request, candidates, searched>>
  BY DEF CountGroup, Counting, writing
<1>2. combinations \in Nat \ {0} /\ Options \in Nat
  <2>1. combinations \in Nat
    BY Candidates DEF RequestInv, PlanInv
  <2>2. combinations # 0
    BY <1>1 DEF DecodeInv, Planning
  <2>3. counted + 1 \in DOMAIN candidates /\ candidates \in Seq(Seq(Startable(request)))
    BY <1>1, Candidates DEF RequestInv, PlanInv
  <2> QED
    BY <2>1, <2>2, <2>3 DEF Options
<1>3. combinations' # 0
  <2> DEFINE a == combinations
             b == Options
  <2>1. a \in Nat \ {0} /\ b \in Nat \ {0} /\ combinations' = a * b
    BY <1>1, <1>2
  <2> HIDE DEF a, b
  <2> QED
    BY <2>1
<1>4. \A n \in 1 .. Len(searched') : Comes(n - 1, searched[n])'
  BY <1>1 DEF DecodeInv, Comes, Starting
<1> QED
  BY <1>1, <1>3, <1>4 DEF DecodeInv

LEMMA NoCandidateDecodes == ASSUME RequestInv, DecodeInv, NoCandidate PROVE DecodeInv'
<1>1. /\ combinations' = 0 /\ stage' = "next" /\ counted < Len(candidates) /\ Len(candidates[counted + 1]) = 0
      /\ UNCHANGED <<request, candidates, searched>>
  BY DEF NoCandidate, Counting, Options, writing
<1>2. counted + 1 \in DOMAIN candidates'
  BY <1>1, Candidates DEF RequestInv, PlanInv
<1>3. \A n \in 1 .. Len(searched') : Comes(n - 1, searched[n])'
  BY <1>1 DEF DecodeInv, Comes, Starting
<1> QED
  BY <1>1, <1>2, <1>3 DEF DecodeInv, Planning

LEMMA NextTupleDecodes == ASSUME RequestInv, DecodeInv, NextTuple PROVE DecodeInv'
<1>1. /\ rest' = number /\ chosen' = <<>> /\ stage = "next" /\ stage' = "decoding"
      /\ UNCHANGED <<request, candidates, combinations, searched, number>>
  BY DEF NextTuple, planning, writing
<1> DEFINE q == [k \in 0 .. 0 |-> number]
<1>2. Decodes(candidates', q, chosen') /\ q[0] = number' /\ q[Len(chosen')] = rest'
  <2>1. number \in Nat /\ Len(<<>>) = 0
    BY DEF RequestInv, TupleInv
  <2>2. q \in [0 .. 0 -> Nat] /\ 1 .. 0 = {} /\ q[0] = number
    BY <2>1
  <2> HIDE DEF q
  <2> QED
    BY <1>1, <2>1, <2>2 DEF Decodes
<1>3. \A n \in 1 .. Len(searched') : Comes(n - 1, searched[n])'
  BY <1>1 DEF DecodeInv, Comes, Starting
<1> HIDE DEF q
<1> QED
  BY <1>1, <1>2, <1>3 DEF DecodeInv, Planning

(* Where a tuple is decoded, every group has candidates. *)
LEMMA EveryGroupHas ==
  ASSUME RequestInv, combinations # 0, stage \notin Planning
  PROVE  /\ IsPlan(Startable(request), candidates) /\ combinations \in Nat
         /\ HasSize(Picks(Startable(request), candidates, Len(candidates)), combinations)
<1> DEFINE S == Startable(request)
<1>1. combinations \in Nat \ {0} /\ counted = Len(candidates)
  BY Candidates DEF RequestInv, PlanInv, Planning
<1>2. HasSize(Picks(S, candidates, Len(candidates)), combinations)
  BY <1>1 DEF RequestInv, PlanInv
<1>3. candidates \in Seq(Seq(S)) /\ \A k \in DOMAIN candidates : IsInjective(candidates[k])
  BY Candidates
<1> HIDE DEF S
<1>4. \A k \in DOMAIN candidates : Len(candidates[k]) \in Nat \ {0}
  BY <1>1, <1>2, <1>3, PicksNonempty
<1> QED
  BY <1>1, <1>2, <1>3, <1>4 DEF IsPlan, S

LEMMA ChooseNodeDecodes == ASSUME RequestInv, DecodeInv, ChooseNode PROVE DecodeInv'
<1> DEFINE d == Len(chosen)
           L == Len(candidates[d + 1])
           node == candidates[d + 1][1 + (rest % L)]
<1>1. /\ stage = "decoding" /\ stage' = stage /\ d < Len(candidates)
      /\ chosen' = Append(chosen, node) /\ rest' = rest \div L
      /\ UNCHANGED <<request, candidates, combinations, searched, number>>
  BY DEF ChooseNode, Digit, planning, writing
<1>2. PICK q : Decodes(candidates, q, chosen) /\ q[0] = number /\ q[d] = rest
  BY <1>1 DEF DecodeInv
<1> DEFINE r == [k \in 0 .. d + 1 |-> IF k = d + 1 THEN rest \div L ELSE q[k]]
<1>3. chosen \in Seq(Startable(request)) /\ d \in Nat /\ Len(candidates) \in Nat /\ rest \in Nat
      /\ number \in Nat /\ number < combinations /\ combinations \in Nat
  BY <1>1, Candidates DEF RequestInv, TupleInv, PlanInv
<1>4. L \in Nat \ {0}
  <2>1. IsPlan(Startable(request), candidates)
    BY <1>1, <1>3, EveryGroupHas DEF Planning
  <2>2. d + 1 \in DOMAIN candidates
    BY <1>1, <1>3, Candidates
  <2> QED
    BY <2>1, <2>2 DEF IsPlan
<1>5. rest \div L \in Nat
  <2> HIDE DEF L
  <2> QED
    BY <1>3, <1>4, Remainder
<1> HIDE DEF L, node
<1>6. Len(chosen') = d + 1 /\ chosen'[d + 1] = node /\ \A k \in 1 .. d : chosen'[k] = chosen[k]
  <2>1. chosen \in Seq(Startable(request) \cup {node})
    BY <1>3, SeqMonotonic
  <2> QED
    BY <1>1, <2>1
<1> HIDE DEF d
<1>7. q \in [0 .. d -> Nat] /\ \A k \in 1 .. d : q[k] = q[k - 1] \div Len(candidates[k])
                                  /\ chosen[k] = candidates[k][1 + (q[k - 1] % Len(candidates[k]))]
  BY <1>2 DEF Decodes, d
<1>8. r \in [0 .. d + 1 -> Nat] /\ r[d + 1] = rest' /\ r[0] = number' /\ \A k \in 0 .. d : r[k] = q[k]
  BY <1>1, <1>2, <1>3, <1>5, <1>7 DEF d
<1> HIDE DEF r
<1>9. ASSUME NEW k \in 1 .. d + 1
      PROVE  r[k] = r[k - 1] \div Len(candidates[k]) /\ chosen'[k] = candidates[k][1 + (r[k - 1] % Len(candidates[k]))]
  <2>1. d \in Nat
    BY <1>3 DEF d
  <2>2. CASE k = d + 1
    <3>1. k - 1 = d /\ d \in 0 .. d
      BY <2>1, <2>2
    <3>2. r[k - 1] = rest
      BY <1>2, <1>8, <3>1 DEF d
    <3>3. r[k] = rest \div L /\ chosen'[k] = node
      BY <1>1, <1>6, <1>8, <2>2 DEF d
    <3> QED
      BY <2>2, <3>2, <3>3 DEF L, node, d
  <2>3. CASE k # d + 1
    <3>1. k \in 1 .. d /\ k \in 0 .. d /\ k - 1 \in 0 .. d
      BY <2>1, <2>3
    <3>2. r[k] = q[k] /\ r[k - 1] = q[k - 1] /\ chosen'[k] = chosen[k]
      BY <1>6, <1>8, <3>1 DEF d
    <3> QED
      BY <1>7, <3>1, <3>2
  <2> QED
    BY <2>2, <2>3
<1>10. Decodes(candidates', r, chosen') /\ r[Len(chosen')] = rest'
  BY <1>1, <1>6, <1>8, <1>9 DEF Decodes, d
<1>11. \A n \in 1 .. Len(searched') : Comes(n - 1, searched[n])'
  BY <1>1 DEF DecodeInv, Comes, Starting
<1> QED
  BY <1>1, <1>8, <1>10, <1>11 DEF DecodeInv, Planning

LEMMA SearchTupleDecodes == ASSUME RequestInv, DecodeInv, SearchTuple PROVE DecodeInv'
<1>1. /\ stage = "decoding" /\ Len(chosen) = Len(candidates) /\ stage' = "searching"
      /\ searched' = Append(searched, Starting(chosen))
      /\ UNCHANGED <<request, candidates, combinations>>
  BY DEF SearchTuple, Tuple, Starting, planning
<1> DEFINE t == Starting(chosen)
<1>2. Comes(number, t)
  <2>1. chosen \in Seq(Startable(request))
    BY DEF RequestInv, TupleInv
  <2>2. \E q : Decodes(candidates, q, chosen) /\ q[0] = number
    BY <1>1 DEF DecodeInv
  <2> QED
    BY <1>1, <2>1, <2>2 DEF Comes
<1> HIDE DEF t
<1>3. Len(searched') = number + 1 /\ searched'[number + 1] = t /\ \A n \in 1 .. number : searched'[n] = searched[n]
      /\ Len(searched) = number /\ number \in Nat
  <2> DEFINE T == Seq(Startable(request)) \cup {t}
  <2>1. Seq(Startable(request)) \subseteq T /\ t \in T /\ searched' = Append(searched, t)
    BY <1>1 DEF t
  <2>2. searched \in Seq(Seq(Startable(request))) /\ Len(searched) = number /\ number \in Nat
    BY <1>1 DEF RequestInv, TupleInv
  <2> HIDE DEF T
  <2>3. searched \in Seq(T)
    BY <2>1, <2>2, SeqMonotonic
  <2> QED
    BY <2>1, <2>2, <2>3
<1>4. number \in Nat /\ Len(searched) = number
  BY <1>1 DEF RequestInv, TupleInv
<1>5. ASSUME NEW n \in 1 .. number + 1 PROVE Comes(n - 1, searched'[n])
  <2>1. CASE n = number + 1
    <3>1. n - 1 = number
      BY <1>4, <2>1
    <3> QED
      BY <1>2, <1>3, <2>1, <3>1
  <2>2. CASE n # number + 1
    <3>1. number \in Nat /\ Len(searched) = number
      BY <1>4
    <3>2. n \in 1 .. number
      BY <2>2, <3>1
    <3>3. n \in 1 .. Len(searched)
      BY <3>1, <3>2
    <3>4. Comes(n - 1, searched[n])
      BY <3>3 DEF DecodeInv
    <3> QED
      BY <1>3, <3>2, <3>4
  <2> QED
    BY <2>1, <2>2
<1>6. \A n \in 1 .. Len(searched') : Comes(n - 1, searched[n])'
  BY <1>1, <1>3, <1>5 DEF Comes, Starting
<1> QED
  BY <1>1, <1>6 DEF DecodeInv, Planning

LEMMA NextDecodes == ASSUME RequestInv, DecodeInv, [RequestNext]_requestVars PROVE DecodeInv'
<1>1. CASE NoCandidate
  BY <1>1, NoCandidateDecodes
<1>2. CASE CountGroup
  BY <1>2, CountDecodes
<1>3. CASE NextTuple
  BY <1>3, NextTupleDecodes
<1>4. CASE ChooseNode
  BY <1>4, ChooseNodeDecodes
<1>5. CASE SearchTuple
  BY <1>5, SearchTupleDecodes
<1>6. CASE RefuseRequest \/ CountingEnds \/ Search \/ Write \/ Finish
  BY <1>6, DecodeStays
     DEF RefuseRequest, Counting, CountingEnds, Search, Write, Finish, planning, decoding, writing, Planning
<1>7. CASE UNCHANGED requestVars
  <2>1. UNCHANGED <<request, candidates, combinations, searched, stage, number, chosen, rest>>
    BY <1>7 DEF requestVars, planning, decoding, writing
  <2>2. stage = "answered" => number = combinations
    BY DEF DecodeInv
  <2> QED
    BY <2>1, <2>2, DecodeStays
<1> QED
  BY <1>1, <1>2, <1>3, <1>4, <1>5, <1>6, <1>7 DEF RequestNext

(* evaluate(number): when the call ends, every tuple of starts that the       *)
(* candidates allow has been searched, once, with one node for tied starts.   *)
THEOREM EveryTupleOnce == RequestSpec => []TuplesOnce
<1>1. RequestInit => DecodeInv
  BY InitDecode
<1>2. RequestInv /\ DecodeInv /\ [RequestNext]_requestVars => DecodeInv'
  BY NextDecodes
<1>3. RequestInv /\ DecodeInv => TuplesOnce
  <2> SUFFICES ASSUME RequestInv, DecodeInv, stage = "answered"
               PROVE  IsInjective(searched) /\ ToSet(searched) = TuplesToTry
    BY DEF TuplesOnce
  <2> DEFINE S == Startable(request)
             P == Picks(S, candidates, Len(candidates))
             N == combinations
  <2>1. Len(searched) = N /\ N \in Nat /\ searched \in Seq(Seq(S)) /\ DOMAIN searched = 1 .. N
    <3>1. searched \in Seq(Seq(S)) /\ Len(searched) = number /\ number = N /\ N \in Nat
      BY Candidates DEF RequestInv, TupleInv, PlanInv, DecodeInv
    <3> QED
      BY <3>1
  <2>2. /\ \A p \in P : Starting(p) \in TuplesToTry
        /\ \A t \in TuplesToTry : \E p \in P : Starting(p) = t
        /\ \A p, o \in P : Starting(p) = Starting(o) => p = o
    BY StartingTuples
  <2>3. CASE N = 0
    <3>1. PICK k \in DOMAIN candidates : Len(candidates[k]) = 0
      BY <2>3 DEF DecodeInv
    <3>2. P = {}
      <4>2. k \in 1 .. Len(candidates) /\ candidates[k] \in Seq(S)
        BY Candidates
      <4>3. ToSet(candidates[k]) = {}
        BY <3>1, <4>2 DEF ToSet
      <4> QED
        BY <4>2, <4>3 DEF Picks
    <3>3. TuplesToTry = {}
      BY <2>2, <3>2
    <3>4. DOMAIN searched = {}
      BY <2>1, <2>3
    <3> QED
      BY <3>3, <3>4 DEF IsInjective, ToSet
  <2>4. CASE N # 0
    <3>1. IsPlan(S, candidates) /\ HasSize(P, N)
      BY <2>4, EveryGroupHas DEF Planning
    <3> DEFINE from(n) == CHOOSE p \in Seq(S) :
                 /\ Len(p) = Len(candidates) /\ searched[n] = Starting(p)
                 /\ \E q : Decodes(candidates, q, p) /\ q[0] = n - 1
               s == [n \in 1 .. N |-> from(n)]
    <3>2. \A n \in 1 .. N : /\ from(n) \in Seq(S) /\ Len(from(n)) = Len(candidates) /\ searched[n] = Starting(from(n))
                             /\ \E q : Decodes(candidates, q, from(n)) /\ q[0] = n - 1
      <4>1. \A n \in 1 .. N : Comes(n - 1, searched[n])
        BY <2>1 DEF DecodeInv
      <4> QED
        BY <4>1 DEF Comes
    <3> HIDE DEF from, S, N, P
    <3>3. s \in [1 .. N -> Seq(S)] /\ \A n \in 1 .. N : s[n] = from(n)
      BY <3>2
    <3> HIDE DEF s
    <3>4. s \in Bijection(1 .. N, P)
      BY <2>1, <3>1, <3>2, <3>3, AllPicked DEF P
    <3>5. /\ \A n \in 1 .. N : s[n] \in P /\ searched[n] = Starting(s[n])
          /\ \A i, j \in 1 .. N : s[i] = s[j] => i = j
          /\ \A p \in P : \E n \in 1 .. N : s[n] = p
      BY <3>2, <3>3, <3>4 DEF Bijection, Injection, Surjection, IsInjective
    <3>6. DOMAIN searched = 1 .. N
      BY <2>1
    <3>7. IsInjective(searched)
      <4>1. ASSUME NEW i \in 1 .. N, NEW j \in 1 .. N, searched[i] = searched[j] PROVE i = j
        BY <2>2, <3>5, <4>1
      <4> QED
        BY <3>6, <4>1 DEF IsInjective
    <3>8. ToSet(searched) = TuplesToTry
      <4>1. \A n \in 1 .. N : searched[n] \in TuplesToTry
        BY <2>2, <3>5
      <4>2. \A t \in TuplesToTry : \E n \in 1 .. N : searched[n] = t
        BY <2>2, <3>5
      <4>3. ToSet(searched) = {searched[n] : n \in 1 .. N}
        BY <3>6 DEF ToSet
      <4> QED
        BY <4>1, <4>2, <4>3
    <3> QED
      BY <3>7, <3>8
  <2> QED
    BY <2>3, <2>4
<1> QED
  BY <1>1, <1>2, <1>3, RequestInvariant, PTL DEF RequestSpec
=============================================================================
