------------------------ MODULE Publications_proofs ------------------------
(***************************************************************************)
(* Where a problem goes, for every number of problems, authors, requests   *)
(* and schedules: what a transaction has checked under its locks stays     *)
(* true until it commits, so that no problem has two destinations and no   *)
(* copy of one is left behind.                                             *)
(***************************************************************************)
EXTENDS Publications, FiniteSetTheorems, WellFoundedInduction, TLAPS

\* A set of naturals has a least element: what holds of no least number holds of none.
LEMMA Least ==
  ASSUME NEW S, S \subseteq Nat, S # {}
  PROVE  \E x \in S : \A y \in S : x <= y
<1> DEFINE R == OpToRel(<, Nat)
<1>1. IsWellFoundedOn(R, Nat)
  BY NatLessThanWellFounded
<1>2. \A y, x \in Nat : y < x => <<y, x>> \in R
  BY DEF OpToRel
<1> HIDE DEF R
<1>3. PICK x \in S : \A y \in S : ~ (<<y, x>> \in R)
  BY <1>1, WFMin
<1>4. \A y \in S : ~(y < x)
  BY <1>2, <1>3
<1> QED BY <1>4

\* A bounded one has a greatest.
LEMMA MaxFacts ==
  ASSUME NEW S, S \subseteq Nat, S # {}, NEW n \in Nat, \A x \in S : x <= n
  PROVE  Max(S) \in S /\ \A y \in S : y <= Max(S)
<1> DEFINE Differences == {n - x : x \in S}
<1>1. PICK d \in Differences : \A e \in Differences : d <= e
  <2>1. Differences \subseteq Nat /\ Differences # {}
    <3>1. \A x \in S : x \in Nat /\ x <= n /\ n - x \in Nat
      OBVIOUS
    <3> QED BY <3>1
  <2> HIDE DEF Differences
  <2> QED BY <2>1, Least
<1>2. PICK x \in S : d = n - x
  OBVIOUS
<1>3. \A y \in S : x >= y
  <2> TAKE y \in S
  <2>1. n - x <= n - y
    BY <1>1, <1>2
  <2> QED BY <2>1
<1>4. Max(S) \in S /\ \A y \in S : Max(S) >= y
  BY <1>3 DEF Max
<1> QED BY <1>4

\* So has one of an interval.
LEMMA MaxIn ==
  ASSUME NEW m \in Nat, NEW S \in SUBSET (1..m), S # {}
  PROVE  Max(S) \in S /\ \A y \in S : y <= Max(S)
<1>1. S \subseteq Nat /\ \A x \in S : x <= m
  OBVIOUS
<1> QED BY <1>1, MaxFacts

\* Min is the least.
LEMMA MinFacts ==
  ASSUME NEW S, S \subseteq Nat, S # {}
  PROVE  Min(S) \in S /\ \A y \in S : Min(S) <= y
BY Least DEF Min

\* g sums up the points of the groups in each subset of the first n, taking the last group off.
Sums(groups, n, g) ==
  g = [s \in SUBSET (1..n) |-> IF s = {} THEN 0 ELSE g[s \ {Max(s)}] + groups[Max(s)].points]

\* There is such a function, by induction on n.
LEMMA SumsExist ==
  ASSUME NEW groups, NEW n \in Nat
  PROVE  \E g : Sums(groups, n, g)
<1> DEFINE Lacking == {m \in Nat : ~\E g : Sums(groups, m, g)}
<1> SUFFICES ASSUME Lacking # {} PROVE FALSE
  OBVIOUS
<1>1. PICK m \in Lacking : \A k \in Lacking : m <= k
  BY Least
<1>2. CASE m = 0
  <2> DEFINE g == [s \in SUBSET (1..0) |-> 0]
  <2>1. \A s \in SUBSET (1..0) : s = {}
    OBVIOUS
  <2>2. Sums(groups, 0, g)
    BY <2>1 DEF Sums
  <2> QED BY <1>1, <1>2, <2>2
<1>3. CASE m # 0
  <2>1. m - 1 \in Nat /\ m - 1 \notin Lacking
    BY <1>1, <1>3
  <2>2. PICK f : Sums(groups, m - 1, f)
    BY <2>1
  <2> DEFINE g == [s \in SUBSET (1..m) |-> IF m \in s THEN f[s \ {m}] + groups[m].points ELSE f[s]]
  <2>3. ASSUME NEW s \in SUBSET (1..m)
        PROVE  g[s] = IF s = {} THEN 0 ELSE g[s \ {Max(s)}] + groups[Max(s)].points
    <3>0. \A q \in SUBSET (1..(m-1)) : f[q] = IF q = {} THEN 0 ELSE f[q \ {Max(q)}] + groups[Max(q)].points
      BY <2>2 DEF Sums
    <3>1. CASE m \in s
      <4>1. Max(s) = m
        <5>1. Max(s) \in s /\ \A y \in s : y <= Max(s)
          BY <1>1, <3>1, MaxIn
        <5>2. m \in Nat /\ Max(s) \in 1..m /\ m <= Max(s)
          BY <1>1, <3>1, <5>1
        <5> QED BY <5>2
      <4>2. s \ {m} \in SUBSET (1..m) /\ m \notin s \ {m} /\ s # {}
        BY <3>1
      <4>3. g[s] = f[s \ {m}] + groups[m].points /\ g[s \ {m}] = f[s \ {m}]
        BY <3>1, <4>2
      <4> HIDE DEF g
      <4> QED BY <4>1, <4>2, <4>3
    <3>2. CASE m \notin s
      <4>1. s \in SUBSET (1..(m-1)) /\ g[s] = f[s]
        <5>1. \A x \in s : x \in 1..(m-1)
          BY <3>2, <2>1
        <5> QED BY <3>2, <5>1
      <4>2. CASE s = {}
        <5> HIDE DEF g
        <5> QED BY <3>0, <4>1, <4>2
      <4>3. CASE s # {}
        <5>1. Max(s) \in s
          BY <1>1, <4>3, MaxIn
        <5>2. s \ {Max(s)} \in SUBSET (1..m) /\ m \notin s \ {Max(s)}
          BY <3>2
        <5>3. g[s \ {Max(s)}] = f[s \ {Max(s)}]
          BY <5>2
        <5> HIDE DEF g
        <5> QED BY <3>0, <4>1, <4>3, <5>3
      <4> QED BY <4>2, <4>3
    <3> QED BY <3>1, <3>2
  <2>4. g = [s \in SUBSET (1..m) |-> g[s]]
    OBVIOUS
  <2> HIDE DEF g
  <2>5. Sums(groups, m, g)
    BY <2>3, <2>4 DEF Sums
  <2> QED BY <1>1, <2>5
<1> QED BY <1>2, <1>3

\* It is a natural number for the first n groups, by induction on n.
LEMMA SumsAreNatural ==
  ASSUME NEW groups, NEW n \in Nat, NEW g, Sums(groups, n, g), \A i \in 1..n : groups[i].points \in Nat
  PROVE  g[1..n] \in Nat
<1> DEFINE Odd == {m \in 0..n : ~(g[1..m] \in Nat)}
<1> SUFFICES ASSUME Odd # {} PROVE FALSE
  OBVIOUS
<1>1. PICK m \in Odd : \A k \in Odd : m <= k
  <2>1. Odd \subseteq Nat
    OBVIOUS
  <2> HIDE DEF Odd
  <2> QED BY <2>1, Least
<1>2. CASE m = 0
  <2>1. 1..0 = {} /\ {} \in SUBSET (1..n)
    OBVIOUS
  <2> QED BY <1>1, <1>2, <2>1 DEF Sums
<1>3. CASE m # 0
  <2>1. m - 1 \in 0..n /\ g[1..(m-1)] \in Nat
    <3>1. m \in 1..n /\ m - 1 \in 0..n /\ ~(m <= m - 1)
      BY <1>3
    <3> QED BY <1>1, <3>1
  <2>2. Max(1..m) = m /\ (1..m) \ {m} = 1..(m-1) /\ m \in 1..n /\ 1..m \in SUBSET (1..n) /\ 1..m # {}
    <3>1. m \in 1..n /\ m \in 1..m
      BY <1>3
    <3>2. Max(1..m) \in 1..m /\ \A y \in 1..m : y <= Max(1..m)
      <4>1. m \in Nat
        BY <3>1
      <4>2. 1..m \in SUBSET (1..m)
        OBVIOUS
      <4>3. 1..m # {}
        BY <3>1
      <4> QED BY <4>1, <4>2, <4>3, MaxIn
    <3> QED BY <3>1, <3>2
  <2>3. g[1..m] = g[1..(m-1)] + groups[m].points
    BY <2>2 DEF Sums
  <2> QED BY <1>1, <2>1, <2>2, <2>3
<1> QED BY <1>2, <1>3

\* So the points of groups add up to a natural number.
LEMMA PointsAreNatural ==
  ASSUME NEW groups, NEW G, groups \in Seq(G), \A x \in G : x.points \in Nat
  PROVE  Points(groups) \in Nat
<1>1. DOMAIN groups = 1..Len(groups) /\ Len(groups) \in Nat /\ \A i \in 1..Len(groups) : groups[i].points \in Nat
  OBVIOUS
<1> DEFINE g == CHOOSE f : Sums(groups, Len(groups), f)
<1>2. Sums(groups, Len(groups), g)
  BY <1>1, SumsExist
<1>3. Points(groups) = g[1..Len(groups)]
  BY <1>1 DEF Points, FoldLeft, MapThenFoldSet, Sums
<1> QED BY <1>1, <1>2, <1>3, SumsAreNatural

-----------------------------------------------------------------------------

\* What the steps below need to know of the variables' types.
Typed ==
  /\ now \in Nat
  /\ contest \in {None} \cup Contests /\ (contest # None => contest.starts < contest.ends)
  /\ DOMAIN row \subseteq Problems /\ DOMAIN held \subseteq DOMAIN row /\ DOMAIN apps \subseteq DOMAIN row
  /\ DOMAIN held # {} => contest # None
  /\ since \in [Problems -> Nat] /\ DOMAIN judgedBy = Problems
  /\ DOMAIN req = Requests

\* Two open transactions never hold the same lock.
Exclusive == \A x, y \in Requests : x # y => req[x].locks \cap req[y].locks = {}

\* A copy of a problem's draft.
InStep(p, c) == c.draft = row[p].draft /\ c.version \in Nat /\ since[p] <= c.version /\ c.version <= row[p].version

Destined(p) ==
  /\ Reserved(p) => ~Public(p) /\ ~Scheduled(p) /\ ~Applied(p)
  /\ Applied(p) => ~row[p].ever /\ ~Scheduled(p)
Copied(p) ==
  Live(p) => /\ row[p].version \in Nat /\ since[p] <= row[p].version
             /\ Public(p) => row[p].ever /\ InStep(p, row[p].pub)
             /\ Scheduled(p) => InStep(p, row[p].sched)
             /\ Held(p) => InStep(p, held[p])
Finished(p) == p \notin slips \cup unjudged /\ (Public(p) \/ Scheduled(p) \/ Reserved(p)) => Publishable(row[p].draft)
Scored(p) ==
  /\ judgedBy[p] # {} => Held(p) /\ Started
  /\ p \notin slips /\ Held(p) =>
       /\ judgedBy[p] \subseteq {Definition(held[p].draft.scoring)}
       /\ held[p].draft.scoring # None => held[p].points = FullScore(held[p].draft.scoring)
Sound(p) == Destined(p) /\ Copied(p) /\ Finished(p) /\ Scored(p)

UnderCap == \A p \in DOMAIN apps : Cardinality(Others(p)) < Cap

\* What a transaction has checked is still so.
SavingKnows(q) ==
  /\ Problem(q.p) \in q.locks /\ Live(q.p) /\ row[q.p].version = q.seen
  /\ Public(q.p) \/ Scheduled(q.p) \/ (Reserved(q.p) /\ ~q.unruled) => Publishable(q.d)
  /\ Held(q.p) /\ Contest \in q.locks =>
       IF q.started THEN SameDefinition(held[q.p].draft.scoring, q.d.scoring)
       ELSE judgedBy[q.p] = {} /\ Publishable(q.d)
ContestKnows(q) ==
  /\ q.s \in Schedules /\ DOMAIN q.copies \subseteq Problems
  /\ {Contest} \cup Rows(DOMAIN q.copies) \subseteq q.locks
  /\ \A p \in Problems : judgedBy[p] = {}
  /\ \A p \in DOMAIN q.copies :
       /\ Enters(p) /\ InStep(p, q.copies[p])
       /\ q.copies[p].draft.scoring # None => q.copies[p].points = FullScore(q.copies[p].draft.scoring)
ApplyKnows(q) == {Owner(q.p), Problem(q.p)} \subseteq q.locks /\ Live(q.p) /\ Appliable(q.p)
MoveKnows(q) ==
  Live(q.p) => /\ q.judged \in Nat /\ q.judged <= row[q.p].version
               /\ row[q.p].version = q.judged /\ q.on => Publishable(row[q.p].draft)
Knows(q) ==
  /\ q.kind \in {"save", "saving", "apply", "publish", "schedule"} => q.p \in Problems
  /\ q.kind = "saving" => SavingKnows(q)
  /\ q.kind = "contest" => ContestKnows(q)
  /\ q.kind = "apply" => ApplyKnows(q)
  /\ q.kind \in {"publish", "schedule"} => MoveKnows(q)
  /\ q.kind = "schedule" => q.on

PublicationsIInv == Typed /\ Exclusive /\ (\A p \in Problems : Sound(p)) /\ UnderCap /\ \A x \in Requests : Knows(req[x])


-----------------------------------------------------------------------------
\* The rules.

\* A publishable partial problem has a full score.
LEMMA FullScoreCounts ==
  ASSUME NEW d, Publishable(d), d.scoring # None
  PROVE  FullScore(d.scoring) >= 1
<1>1. ScoringIssues(d) \subseteq ContentIssues(d) /\ (~ValidScoring(d) => "invalid_draft" \in ContentIssues(d))
  <2>1. ScoringIssues(d) \subseteq ContentIssues(d)
    BY DEF ContentIssues
  <2>2. ~ValidScoring(d) => "invalid_draft" \in ContentIssues(d)
    BY DEF ContentIssues
  <2> QED BY <2>1, <2>2
<1>2. d.scoring.groups # <<>>
  BY <1>1 DEF ScoringIssues, Publishable
<1> QED BY <1>1, <1>2 DEF ValidScoring, Publishable

\* A draft's full score is a number.
LEMMA ScoreIsNatural ==
  ASSUME NEW d \in Drafts, d.scoring # None
  PROVE  FullScore(d.scoring) \in Nat
<1> DEFINE G == [name : STRING, points : Nat]
<1>1. d.scoring.groups \in Seq(G) /\ \A x \in G : x.points \in Nat
  BY DraftAssumption
<1> HIDE DEF G
<1>2. Points(d.scoring.groups) \in Nat
  BY <1>1, PointsAreNatural
<1> QED BY <1>2 DEF FullScore

\* What makes up a scoring's definition decides its worth.
LEMMA SameDefinitionFacts ==
  ASSUME NEW s, NEW o, SameDefinition(s, o)
  PROVE  Definition(s) = Definition(o) /\ FullScore(s) = FullScore(o) /\ (s = None <=> o = None)
BY DEF SameDefinition, Definition, FullScore

\* The locks of different things differ.
LEMMA LocksDiffer ==
  ASSUME NEW p, NEW o
  PROVE  /\ Problem(p) = Problem(o) => p = o
         /\ Problem(p) # Contest /\ Problem(p) # Owner(o) /\ Owner(p) # Contest
         /\ Problem(p) # Schedule /\ Contest # Schedule /\ Owner(p) # Schedule
         /\ Author[p] = Author[o] => Owner(p) = Owner(o)
BY DEF Problem, Contest, Schedule, Owner

\* Fewer applications keep every author under the cap.
LEMMA CapStays ==
  ASSUME Typed, UnderCap, DOMAIN apps' \subseteq DOMAIN apps
  PROVE  UnderCap'
<1> SUFFICES ASSUME NEW p \in DOMAIN apps' PROVE Cardinality(Others(p)') < Cap
  BY DEF UnderCap
<1>1. IsFiniteSet(DOMAIN apps) /\ IsFiniteSet(Others(p))
  BY FiniteAssumption, FS_Subset DEF Typed, Others
<1>2. Others(p)' \subseteq Others(p)
  BY DEF Others
<1>3. Cardinality(Others(p)') <= Cardinality(Others(p)) /\ Cardinality(Others(p)') \in Nat /\ Cardinality(Others(p)) \in Nat
  BY <1>1, <1>2, FS_Subset, FS_CardinalityType
<1> QED BY <1>3, BoundAssumption DEF UnderCap

\* A step that leaves a transaction's locked rows alone leaves what it knows.
Spared(x) ==
  LET locks == req[x].locks IN
  /\ \A p \in Problems : Problem(p) \in locks /\ Live(p) =>
       /\ Live(p)' /\ row'[p] = row[p] /\ since'[p] = since[p]
       /\ (Applied(p)' => Applied(p)) /\ (Held(p)' => Held(p)) /\ (Reserved(p)' => Reserved(p))
       /\ Contest \in locks /\ Held(p)' => held'[p] = held[p]
  /\ Contest \in locks => \A p \in Problems : judgedBy'[p] = judgedBy[p]
  /\ \A p \in Problems : Owner(p) \in locks => Others(p)' \subseteq Others(p)
  /\ \A p \in Problems : Live(p)' =>
       /\ Live(p) /\ row'[p].version \in Nat /\ row[p].version <= row'[p].version
       /\ row'[p].version = row[p].version => row'[p].draft = row[p].draft

LEMMA SparedKnows ==
  ASSUME PublicationsIInv, NEW x \in Requests, req'[x] = req[x], Spared(x)
  PROVE  Knows(req[x])'
<1> DEFINE q == req[x]
<1>0. Knows(q) /\ Typed /\ \A p \in Problems : Sound(p)
  BY DEF PublicationsIInv
<1>1. q.kind = "saving" => SavingKnows(q)'
  <2> SUFFICES ASSUME q.kind = "saving" PROVE SavingKnows(q)'
    OBVIOUS
  <2>1. SavingKnows(q) /\ q.p \in Problems
    BY <1>0 DEF Knows
  <2>2. Problem(q.p) \in q.locks /\ Live(q.p)
    BY <2>1 DEF SavingKnows
  <2>3. /\ Live(q.p)' /\ row'[q.p] = row[q.p] /\ (Held(q.p)' => Held(q.p)) /\ (Reserved(q.p)' => Reserved(q.p))
        /\ Contest \in q.locks /\ Held(q.p)' => held'[q.p] = held[q.p]
        /\ Contest \in q.locks => judgedBy'[q.p] = judgedBy[q.p]
    BY <2>1, <2>2 DEF Spared
  <2>4. (Public(q.p)' => Public(q.p)) /\ (Scheduled(q.p)' => Scheduled(q.p))
    BY <2>2, <2>3 DEF Public, Scheduled
  <2> QED BY <2>1, <2>3, <2>4 DEF SavingKnows, Problem, Contest
<1>2. q.kind = "contest" => ContestKnows(q)'
  <2> SUFFICES ASSUME q.kind = "contest" PROVE ContestKnows(q)'
    OBVIOUS
  <2>1. ContestKnows(q)
    BY <1>0 DEF Knows
  <2>2. Contest \in q.locks /\ \A p \in Problems : judgedBy'[p] = {}
    BY <2>1 DEF ContestKnows, Spared
  <2>3. ASSUME NEW p \in DOMAIN q.copies PROVE Enters(p)' /\ InStep(p, q.copies[p])'
    <3>1. p \in Problems /\ Problem(p) \in q.locks /\ Enters(p) /\ InStep(p, q.copies[p])
      BY <2>1 DEF ContestKnows, Rows
    <3>2. Live(p)
      BY <3>1 DEF Enters
    <3>3. Live(p)' /\ row'[p] = row[p] /\ since'[p] = since[p] /\ (Applied(p)' => Applied(p))
      BY <3>1, <3>2 DEF Spared
    <3> QED BY <3>1, <3>2, <3>3 DEF Enters, InStep, Public, Scheduled
  <2> QED BY <2>1, <2>2, <2>3 DEF ContestKnows, Rows, Problem, Contest
<1>3. q.kind = "apply" => ApplyKnows(q)'
  <2> SUFFICES ASSUME q.kind = "apply" PROVE ApplyKnows(q)'
    OBVIOUS
  <2>1. ApplyKnows(q) /\ q.p \in Problems
    BY <1>0 DEF Knows
  <2>2. Problem(q.p) \in q.locks /\ Owner(q.p) \in q.locks /\ Live(q.p) /\ Appliable(q.p)
    BY <2>1 DEF ApplyKnows
  <2>3. Live(q.p)' /\ row'[q.p] = row[q.p] /\ (Held(q.p)' => Held(q.p)) /\ Others(q.p)' \subseteq Others(q.p)
    BY <2>1, <2>2 DEF Spared
  <2>4. IsFiniteSet(Others(q.p))
    BY <1>0, FiniteAssumption, FS_Subset DEF Typed, Others
  <2>5. Cardinality(Others(q.p)') <= Cardinality(Others(q.p)) /\ Cardinality(Others(q.p)') \in Nat /\ Cardinality(Others(q.p)) \in Nat
    BY <2>3, <2>4, FS_Subset, FS_CardinalityType
  <2>6. Cardinality(Others(q.p)') < Cap
    BY <2>2, <2>5, BoundAssumption DEF Appliable
  <2>7. Appliable(q.p)'
    BY <2>2, <2>3, <2>6 DEF Appliable, Scheduled
  <2> QED BY <2>2, <2>3, <2>7 DEF ApplyKnows, Owner, Problem
<1>4. q.kind \in {"publish", "schedule"} => MoveKnows(q)'
  <2> SUFFICES ASSUME q.kind \in {"publish", "schedule"}, Live(q.p)'
               PROVE  /\ q.judged \in Nat /\ q.judged <= row'[q.p].version
                      /\ row'[q.p].version = q.judged /\ q.on => Publishable(row'[q.p].draft)
    BY DEF MoveKnows
  <2>1. MoveKnows(q) /\ q.p \in Problems
    BY <1>0 DEF Knows
  <2>2. /\ Live(q.p) /\ row'[q.p].version \in Nat /\ row[q.p].version <= row'[q.p].version
        /\ row'[q.p].version = row[q.p].version => row'[q.p].draft = row[q.p].draft
    BY <2>1 DEF Spared
  <2>3. row[q.p].version \in Nat
    BY <1>0, <2>1, <2>2 DEF Sound, Copied
  <2> QED BY <2>1, <2>2, <2>3 DEF MoveKnows
<1> QED BY <1>0, <1>1, <1>2, <1>3, <1>4 DEF Knows

-----------------------------------------------------------------------------
\* A step of one transaction, and a step of none.
LEMMA TransactionStep ==
  ASSUME PublicationsIInv, NEW r \in Requests, NEW q, Move(r, q), Free(r, q.locks),
         Typed', \A p \in Problems : Sound(p)', UnderCap', Knows(q)',
         \A x \in Requests : x # r => Spared(x)
  PROVE  PublicationsIInv'
<1>1. req'[r] = q /\ \A x \in Requests : x # r => req'[x] = req[x]
  BY DEF Move, PublicationsIInv, Typed
<1>2. Exclusive'
  BY <1>1 DEF Free, PublicationsIInv, Exclusive
<1>3. ASSUME NEW x \in Requests PROVE Knows(req[x])'
  <2>1. CASE x = r
    BY <1>1, <2>1 DEF Knows, SavingKnows, ContestKnows, ApplyKnows, MoveKnows
  <2>2. CASE x # r
    BY <1>1, <2>2, SparedKnows
  <2> QED BY <2>1, <2>2
<1> QED BY <1>2, <1>3 DEF PublicationsIInv

LEMMA OtherStep ==
  ASSUME PublicationsIInv, UNCHANGED req,
         Typed', \A p \in Problems : Sound(p)', UnderCap',
         \A x \in Requests : Spared(x)
  PROVE  PublicationsIInv'
<1>1. Exclusive'
  BY DEF PublicationsIInv, Exclusive
<1>2. ASSUME NEW x \in Requests PROVE Knows(req[x])'
  BY SparedKnows
<1> QED BY <1>1, <1>2 DEF PublicationsIInv

\* What another transaction has locked, a step that has to be free of it leaves alone.
LEMMA FreeOfOthers ==
  ASSUME NEW r \in Requests, NEW x \in Requests, x # r, NEW S, Free(r, S)
  PROVE  S \cap req[x].locks = {}
BY DEF Free

LEMMA OwnLocks ==
  ASSUME PublicationsIInv, NEW r \in Requests
  PROVE  Free(r, req[r].locks)
BY DEF Free, PublicationsIInv, Exclusive

\* A step that leaves the tables alone.
Quiet == UNCHANGED <<now, row, held, contest, apps, since, judgedBy, slips, unjudged>>

LEMMA QuietFacts ==
  ASSUME PublicationsIInv, Quiet, DOMAIN req' = Requests
  PROVE  /\ Typed' /\ UnderCap' /\ \A p \in Problems : Sound(p)'
         /\ \A x \in Requests : Spared(x)
<1> USE DEF Quiet
<1>1. Typed'
  BY DEF PublicationsIInv, Typed
<1>2. UnderCap'
  BY DEF PublicationsIInv, UnderCap, Others
<1>3. ASSUME NEW p \in Problems PROVE Sound(p)'
  <2>1. Sound(p)
    BY DEF PublicationsIInv
  <2> QED BY <2>1 DEF Sound, Destined, Copied, Finished, Scored, InStep, Reserved, Held, Live, Public, Scheduled, Applied, Started
<1>4. ASSUME NEW x \in Requests PROVE Spared(x)
  <2>1. \A p \in Problems : Live(p) => row[p].version \in Nat
    BY DEF PublicationsIInv, Sound, Copied
  <2> QED BY <2>1 DEF Spared, Live, Applied, Held, Reserved, Others
<1> QED BY <1>1, <1>2, <1>3, <1>4

LEMMA QuietStep ==
  ASSUME PublicationsIInv, NEW r \in Requests, NEW q, Quiet, Move(r, q), Free(r, q.locks), Knows(q)
  PROVE  PublicationsIInv'
<1>1. DOMAIN req' = Requests
  BY DEF Move, PublicationsIInv, Typed
<1>2. Knows(q)'
  BY DEF Quiet, Knows, SavingKnows, ContestKnows, ApplyKnows, MoveKnows, Enters, Appliable, Others, InStep,
         Reserved, Held, Live, Public, Scheduled, Applied
<1> QED BY <1>1, <1>2, QuietFacts, TransactionStep

LEMMA DoneStep ==
  ASSUME PublicationsIInv, NEW r \in Requests, Quiet, Done(r)
  PROVE  PublicationsIInv'
<1>1. Knows(Idle) /\ Free(r, Idle.locks)
  BY DEF Knows, Idle, Free
<1> QED BY <1>1, QuietStep DEF Done, Move

-----------------------------------------------------------------------------
\* Transactions that only read and lock.
LEMMA SaveBeginStep ==
  ASSUME PublicationsIInv, NEW r \in Requests, NEW p \in Problems, NEW d, NEW named, SaveBegin(r, p, d, named), UNCHANGED now
  PROVE  PublicationsIInv'
<1> DEFINE q == [kind |-> "save", p |-> p, d |-> d, seen |-> named, locks |-> IF Held(p) THEN {Contest} ELSE {}]
<1>1. Move(r, q) /\ Free(r, q.locks) /\ Quiet
  BY DEF SaveBegin, Begin, Move, Quiet, tables, history
<1>2. Knows(q)
  BY DEF Knows
<1> QED BY <1>1, <1>2, QuietStep

LEMMA ContestBeginStep ==
  ASSUME PublicationsIInv, NEW r \in Requests, NEW S \in SUBSET Problems, NEW s \in Schedules,
         ContestBegin(r, S, s), UNCHANGED now
  PROVE  PublicationsIInv'
<1> DEFINE copies == [p \in S |-> [draft |-> row[p].draft, version |-> row[p].version,
                                   points |-> IF row[p].draft.scoring = None THEN 100 ELSE FullScore(row[p].draft.scoring)]]
           q == [kind |-> "contest", s |-> s, locks |-> {Contest} \cup Rows(S), copies |-> copies]
<1>1. Move(r, q) /\ Free(r, q.locks) /\ Quiet
  BY DEF ContestBegin, Begin, Move, Quiet, tables, history
<1>2. ~Started /\ \A p \in S : Enters(p)
  BY DEF ContestBegin
<1>3. \A p \in Problems : judgedBy[p] = {}
  BY <1>2 DEF PublicationsIInv, Sound, Scored
<1>4. ASSUME NEW p \in S
      PROVE  /\ InStep(p, copies[p])
             /\ copies[p].draft.scoring # None => copies[p].points = FullScore(copies[p].draft.scoring)
  <2>1. Live(p) /\ p \in Problems
    BY <1>2, <1>4 DEF Enters
  <2>2. row[p].version \in Nat /\ since[p] <= row[p].version
    BY <2>1 DEF PublicationsIInv, Sound, Copied
  <2> QED BY <2>2 DEF InStep
<1>5. ContestKnows(q)
  BY <1>2, <1>3, <1>4 DEF ContestKnows
<1>6. Knows(q)
  BY <1>5 DEF Knows
<1> QED BY <1>1, <1>6, QuietStep

LEMMA PublishBeginStep ==
  ASSUME PublicationsIInv, NEW r \in Requests, NEW p \in Problems, NEW on \in BOOLEAN, NEW author \in BOOLEAN, NEW named,
         PublishBegin(r, p, on, author, named), UNCHANGED now
  PROVE  PublicationsIInv'
<1> DEFINE q == [kind |-> "publish", p |-> p, on |-> on, author |-> author, seen |-> named, judged |-> row[p].version, locks |-> {}]
<1>1. Move(r, q) /\ Free(r, q.locks) /\ Quiet
  BY DEF PublishBegin, Begin, Move, Quiet, tables, history, Free
<1>2. Live(p) /\ (on => Publishable(row[p].draft))
  BY DEF PublishBegin, Movable, NotPast
<1>3. row[p].version \in Nat
  BY <1>2 DEF PublicationsIInv, Sound, Copied
<1>4. Knows(q)
  BY <1>2, <1>3 DEF Knows, MoveKnows
<1> QED BY <1>1, <1>4, QuietStep

LEMMA ScheduleBeginStep ==
  ASSUME PublicationsIInv, NEW r \in Requests, NEW p \in Problems, NEW at, NEW named,
         ScheduleBegin(r, p, at, named), UNCHANGED now
  PROVE  PublicationsIInv'
<1> DEFINE q == [kind |-> "schedule", p |-> p, at |-> at, on |-> TRUE, seen |-> named, judged |-> row[p].version, locks |-> {}]
<1>1. Move(r, q) /\ Free(r, q.locks) /\ Quiet
  BY DEF ScheduleBegin, Begin, Move, Quiet, tables, history, Free
<1>2. Live(p) /\ Publishable(row[p].draft)
  BY DEF ScheduleBegin, Movable, NotPast
<1>3. row[p].version \in Nat
  BY <1>2 DEF PublicationsIInv, Sound, Copied
<1>4. Knows(q)
  BY <1>2, <1>3 DEF Knows, MoveKnows
<1> QED BY <1>1, <1>4, QuietStep

LEMMA ApplyBeginStep ==
  ASSUME PublicationsIInv, NEW r \in Requests, NEW p \in Problems, NEW pref, ApplyBegin(r, p, pref), UNCHANGED now
  PROVE  PublicationsIInv'
<1> DEFINE q == [kind |-> "apply", p |-> p, pref |-> pref, locks |-> {Owner(p), Problem(p)}]
<1>1. Move(r, q) /\ Free(r, q.locks) /\ Quiet
  BY DEF ApplyBegin, Begin, Move, Quiet, tables, history
<1>2. Knows(q)
  BY DEF ApplyBegin, Knows, ApplyKnows
<1> QED BY <1>1, <1>2, QuietStep

\* The release of rounds locks its schedule; what it read may be stale.
LEMMA FeaturedBeginStep ==
  ASSUME PublicationsIInv, NEW r \in Requests, FeaturedDue(r) \/ FeaturedLock(r), UNCHANGED now
  PROVE  PublicationsIInv'
<1>1. Quiet
  BY DEF FeaturedDue, FeaturedLock, Quiet, tables, history
<1>2. CASE FeaturedDue(r)
  <2> DEFINE q == [kind |-> "due", locks |-> {}]
  <2>1. Move(r, q) /\ Free(r, q.locks) /\ Knows(q)
    BY <1>2 DEF FeaturedDue, Begin, Move, Free, Knows
  <2> QED BY <1>1, <2>1, QuietStep
<1>3. CASE FeaturedLock(r)
  <2> DEFINE q == [kind |-> "featured", pool |-> Queue, locks |-> {Schedule}]
  <2>1. Move(r, q) /\ Free(r, q.locks) /\ Knows(q)
    BY <1>3 DEF FeaturedLock, Move, Free, Knows
  <2> QED BY <1>1, <2>1, QuietStep
<1> QED BY <1>2, <1>3

\* The save that passes its checks knows what it may write, and keeps the row locked.
LEMMA SaveCheckStep ==
  ASSUME PublicationsIInv, NEW r \in Requests, SaveCheck(r), UNCHANGED now
  PROVE  PublicationsIInv'
<1> DEFINE q == req[r]
           p == q.p
           started == Held(p) /\ Started
           unruled == Reserved(p) /\ now >= contest.ends
           m == [kind |-> "saving", p |-> p, d |-> q.d, seen |-> q.seen, started |-> started, unruled |-> unruled,
                 locks |-> q.locks \cup {Problem(p)}]
<1>1. Quiet /\ q.kind = "save" /\ Free(r, {Problem(p)})
  BY DEF SaveCheck, At, Quiet, tables, history
<1>2. p \in Problems
  BY <1>1 DEF PublicationsIInv, Knows
<1>3. CASE Done(r)
  BY <1>1, <1>3, DoneStep
<1>4. CASE Live(p) /\ row[p].version = q.seen /\ ~Refused(p, q.d, started) /\ Move(r, m)
  <2>1. Free(r, q.locks \cup {Problem(p)})
    BY <1>1, OwnLocks DEF Free
  <2>2. Public(p) \/ Scheduled(p) \/ (Reserved(p) /\ ~unruled) => Publishable(q.d)
    <3>1. SUFFICES ASSUME Reserved(p), ~unruled PROVE now < contest.ends /\ Held(p)
      BY <1>4 DEF Refused
    <3>2. contest \in Contests /\ now \in Nat
      BY <3>1 DEF PublicationsIInv, Typed, Reserved, Held
    <3> QED BY <3>1, <3>2 DEF Contests, Reserved
  <2>3. ASSUME Held(p)
        PROVE  IF started THEN SameDefinition(held[p].draft.scoring, q.d.scoring)
               ELSE judgedBy[p] = {} /\ Publishable(q.d)
    <3>1. CASE started
      BY <1>4, <3>1 DEF Refused
    <3>2. CASE ~started
      <4>1. ~Started /\ judgedBy[p] = {}
        BY <1>2, <2>3, <3>2 DEF PublicationsIInv, Sound, Scored
      <4>2. contest \in Contests /\ contest # None /\ contest.starts < contest.ends /\ now \in Nat
        BY <2>3 DEF PublicationsIInv, Typed, Held
      <4>3. now < contest.ends
        BY <4>1, <4>2 DEF Started, Contests
      <4> QED BY <1>4, <2>3, <3>2, <4>1, <4>3 DEF Refused
    <3> QED BY <3>1, <3>2
  <2>4. m.kind = "saving" /\ m.p = p /\ m.d = q.d /\ m.seen = q.seen /\ m.started = started /\ m.unruled = unruled
        /\ m.locks = q.locks \cup {Problem(p)}
    OBVIOUS
  <2> HIDE DEF m, started, unruled
  <2>5. SavingKnows(m)
    BY <1>4, <2>2, <2>3, <2>4 DEF SavingKnows
  <2>6. Knows(m)
    BY <1>2, <2>4, <2>5 DEF Knows
  <2> QED BY <1>1, <1>4, <2>1, <2>4, <2>6, QuietStep
<1> QED BY <1>3, <1>4 DEF SaveCheck

-----------------------------------------------------------------------------
\* A problem that a step leaves alone stays sound.
LEMMA UntouchedStaysSound ==
  ASSUME PublicationsIInv, NEW p \in Problems, Started' <=> Started, Reserved(p)' <=> Reserved(p),
         Live(p)' <=> Live(p), Live(p) => row'[p] = row[p] /\ since'[p] = since[p],
         Applied(p)' => Applied(p), Held(p)' <=> Held(p), Held(p) => held'[p] = held[p],
         judgedBy'[p] = judgedBy[p], p \in slips => p \in slips', p \in unjudged => p \in unjudged'
  PROVE  Sound(p)'
<1>1. Sound(p) /\ (Held(p) => Live(p)) /\ (Applied(p) => Live(p))
  BY DEF PublicationsIInv, Typed, Held, Live, Applied
<1>2. (Public(p)' <=> Public(p)) /\ (Scheduled(p)' <=> Scheduled(p))
  BY DEF Public, Scheduled
<1>3. Destined(p)'
  BY <1>1, <1>2 DEF Sound, Destined
<1>4. Copied(p)'
  BY <1>1, <1>2 DEF Sound, Copied, InStep, Public, Scheduled
<1>5. Finished(p)'
  BY <1>1, <1>2 DEF Sound, Finished, Public, Scheduled, Reserved
<1>6. Scored(p)'
  BY <1>1, <1>2 DEF Sound, Scored
<1> QED BY <1>3, <1>4, <1>5, <1>6 DEF Sound

\* What Write, and what Store and Leave, do to each row.
LEMMA WriteFacts ==
  ASSUME NEW new, Write(new)
  PROVE  /\ DOMAIN row' = DOMAIN row
         /\ \A p \in DOMAIN row : row'[p] = IF p \in DOMAIN new THEN new[p] ELSE row[p]
         /\ DOMAIN apps' = DOMAIN apps \ {p \in DOMAIN new : new[p].pub # None}
BY DEF Write, Store, Leave

\* A write to rows that no other transaction has locked, and which goes on from their versions.
LEMMA WriteSpares ==
  ASSUME PublicationsIInv, NEW x \in Requests, NEW S,
         DOMAIN row' = DOMAIN row, \A p \in DOMAIN row \ S : row'[p] = row[p],
         \A p \in S \cap DOMAIN row : row'[p].version = row[p].version + 1,
         DOMAIN apps' \subseteq DOMAIN apps, DOMAIN held' = DOMAIN held,
         \A p \in Problems \ S : since'[p] = since[p] /\ (Held(p) => held'[p] = held[p]),
         UNCHANGED judgedBy, contest' = contest \/ contest'.released,
         Rows(S) \cap req[x].locks = {}
  PROVE  Spared(x)
<1>1. \A p \in Problems : Problem(p) \in req[x].locks => p \notin S
  BY DEF Rows
<1>2. \A p \in Problems : Live(p) => row[p].version \in Nat
  BY DEF PublicationsIInv, Sound, Copied
<1>3. \A p \in Problems : Live(p)' => row'[p].version \in Nat /\ row[p].version <= row'[p].version
                                     /\ (row'[p].version = row[p].version => row'[p].draft = row[p].draft)
  <2> TAKE p \in Problems
  <2>1. CASE p \in S
    BY <1>2, <2>1 DEF Live
  <2>2. CASE p \notin S
    BY <1>2, <2>2 DEF Live
  <2> QED BY <2>1, <2>2
<1> QED BY <1>1, <1>3 DEF Spared, Live, Applied, Held, Reserved, Others

LEMMA StoredFacts ==
  ASSUME NEW draft, NEW version, NEW pub, NEW sched, NEW ever, NEW w, w = Stored(draft, version, pub, sched, ever)
  PROVE  /\ w.draft = draft /\ w.version = version /\ w.pub = pub
         /\ w.sched = (IF pub # None THEN None ELSE sched) /\ (w.ever <=> ever \/ pub # None)
BY DEF Stored

-----------------------------------------------------------------------------
\* Saving: every copy takes the new draft, under the rules that were checked.
LEMMA SaveCommitStep ==
  ASSUME PublicationsIInv, NEW r \in Requests, SaveCommit(r), UNCHANGED now
  PROVE  PublicationsIInv'
<1>q. PICK q : q = req[r]
  OBVIOUS
<1>p. PICK p : p = q.p
  OBVIOUS
<1>v. PICK v : v = q.seen + 1
  OBVIOUS
<1>1. /\ q.kind = "saving" /\ Write([o \in {p} |-> Saved(row[o], q.d)]) /\ Done(r) /\ UNCHANGED <<contest, judgedBy>>
      /\ held' = [o \in DOMAIN held |-> IF o = p THEN HeldCopy(held[o], q.d, v, q.started) ELSE held[o]]
      /\ since' = [since EXCEPT ![p] = v]
      /\ slips' = IF Held(p) /\ (Contest \notin q.locks \/ q.unruled) THEN slips \cup {p} ELSE slips
      /\ unjudged' = unjudged \ {p}
  BY <1>q, <1>p, <1>v DEF SaveCommit, At
<1>2. p \in Problems /\ SavingKnows(q)
  BY <1>1, <1>q, <1>p DEF PublicationsIInv, Knows
<1>3. Live(p) /\ row[p].version = q.seen /\ Problem(p) \in q.locks
  BY <1>2, <1>p DEF SavingKnows
<1>4. Sound(p) /\ q.seen \in Nat /\ v \in Nat /\ since[p] \in Nat
  BY <1>2, <1>3, <1>v DEF PublicationsIInv, Sound, Copied, Typed
<1>5. /\ DOMAIN row' = DOMAIN row /\ \A o \in DOMAIN row \ {p} : row'[o] = row[o]
      /\ row'[p] = Saved(row[p], q.d) /\ DOMAIN apps' \subseteq DOMAIN apps
  <2> DEFINE new == [o \in {p} |-> Saved(row[o], q.d)]
  <2>1. DOMAIN new = {p} /\ new[p] = Saved(row[p], q.d)
    OBVIOUS
  <2> HIDE DEF new
  <2>2. /\ DOMAIN row' = DOMAIN row
        /\ \A o \in DOMAIN row : row'[o] = IF o \in DOMAIN new THEN new[o] ELSE row[o]
        /\ DOMAIN apps' = DOMAIN apps \ {o \in DOMAIN new : new[o].pub # None}
    <3>1. Write(new)
      BY <1>1 DEF new
    <3> QED BY <3>1, WriteFacts
  <2> QED BY <1>3, <2>1, <2>2 DEF Live
<1>6. /\ row'[p].draft = q.d /\ row'[p].version = v
      /\ row'[p].pub = IF row[p].pub = None THEN None ELSE [draft |-> q.d, version |-> v]
      /\ Scheduled(p)' => Scheduled(p) /\ row'[p].sched = [draft |-> q.d, version |-> v, at |-> row[p].sched.at]
      /\ row'[p].ever <=> row[p].ever \/ row'[p].pub # None
  <2> DEFINE u == row[p].version + 1
  <2>1. u = v
    BY <1>3, <1>v
  <2>2. row'[p] = Stored(q.d, u, IF row[p].pub = None THEN None ELSE [draft |-> q.d, version |-> u],
                         IF row[p].sched = None THEN None ELSE [draft |-> q.d, version |-> u, at |-> row[p].sched.at], row[p].ever)
    BY <1>5 DEF Saved
  <2> HIDE DEF u
  <2>3. /\ row'[p].draft = q.d /\ row'[p].version = u
        /\ row'[p].pub = IF row[p].pub = None THEN None ELSE [draft |-> q.d, version |-> u]
        /\ row'[p].sched = IF row'[p].pub # None THEN None
                           ELSE IF row[p].sched = None THEN None ELSE [draft |-> q.d, version |-> u, at |-> row[p].sched.at]
        /\ row'[p].ever <=> row[p].ever \/ row'[p].pub # None
    BY <2>2, StoredFacts
  <2> QED BY <1>3, <2>1, <2>3 DEF Scheduled
<1>7. since'[p] = v /\ \A o \in Problems \ {p} : since'[o] = since[o]
  BY <1>1, <1>2 DEF PublicationsIInv, Typed
<1>8. DOMAIN held' = DOMAIN held /\ \A o \in DOMAIN held \ {p} : held'[o] = held[o]
  BY <1>1
<1>9. Held(p) => held'[p] = HeldCopy(held[p], q.d, v, q.started)
  BY <1>1 DEF Held
<1>10. Typed'
  BY <1>1, <1>4, <1>5, <1>8 DEF PublicationsIInv, Typed, Done
<1>11. UnderCap'
  BY <1>5, CapStays DEF PublicationsIInv
<1>12. ASSUME NEW x \in Requests, x # r PROVE Spared(x)
  <2>1. Rows({p}) \cap req[x].locks = {}
    BY <1>3, <1>12, <1>q DEF PublicationsIInv, Exclusive, Rows
  <2>2. \A o \in Problems \ {p} : Held(o) => held'[o] = held[o]
    BY <1>8 DEF Held
  <2>3. \A o \in {p} \cap DOMAIN row : row'[o].version = row[o].version + 1
    BY <1>3, <1>6, <1>v
  <2>4. UNCHANGED judgedBy /\ contest' = contest
    BY <1>1
  <2> QED BY <1>5, <1>7, <1>8, <2>1, <2>2, <2>3, <2>4, WriteSpares
<1>13. Sound(p)'
  <2>1. (Live(p)') /\ (Held(p)' <=> Held(p)) /\ (Reserved(p)' <=> Reserved(p)) /\ (Applied(p)' => Applied(p))
        /\ (Public(p)' => Public(p)) /\ (Scheduled(p)' => Scheduled(p)) /\ (Started' <=> Started)
    BY <1>1, <1>3, <1>5, <1>6, <1>8 DEF Live, Held, Reserved, Applied, Public, Started
  <2>2. Destined(p)'
    <3>1. Destined(p) /\ (Applied(p) => ~row[p].ever /\ ~Public(p))
      BY <1>4, <1>3 DEF Sound, Destined, Copied
    <3>2. Applied(p)' => row'[p].pub = None
      BY <1>3, <1>6, <2>1, <3>1 DEF Public
    <3> QED BY <1>6, <2>1, <3>1, <3>2 DEF Destined
  <2>3. Copied(p)'
    <3>1. Public(p)' => (row'[p].ever /\ InStep(p, row[p].pub)')
      BY <1>3, <1>v, <1>4, <1>6, <1>7, <2>1 DEF InStep, Public
    <3>2. Scheduled(p)' => InStep(p, row[p].sched)'
      BY <1>3, <1>v, <1>4, <1>6, <1>7 DEF InStep
    <3>3. Held(p)' => InStep(p, held[p])'
      BY <1>3, <1>v, <1>4, <1>6, <1>7, <1>9, <2>1 DEF InStep, HeldCopy
    <3> QED BY <1>3, <1>v, <1>4, <1>6, <1>7, <3>1, <3>2, <3>3 DEF Copied
  <2>4. Finished(p)'
    <3>1. p \notin slips' /\ Reserved(p) => ~q.unruled
      BY <1>1 DEF Reserved
    <3> QED BY <1>2, <1>p, <1>6, <2>1, <3>1 DEF Finished, SavingKnows
  <2>5. Scored(p)'
    <3>1. judgedBy'[p] # {} => Held(p)' /\ Started'
      BY <1>1, <1>4, <2>1 DEF Sound, Scored
    <3>2. SUFFICES ASSUME p \notin slips', Held(p)
                   PROVE  /\ judgedBy[p] \subseteq {Definition(held'[p].draft.scoring)}
                          /\ held'[p].draft.scoring # None => held'[p].points = FullScore(held'[p].draft.scoring)
      BY <1>1, <2>1, <3>1 DEF Scored
    <3>3. Contest \in q.locks /\ p \notin slips
      BY <1>1, <3>2
    <3>4. held'[p].draft = q.d /\ held'[p].points =
            IF q.d.scoring # None /\ FullScore(q.d.scoring) >= 1 /\ ~q.started THEN FullScore(q.d.scoring) ELSE held[p].points
      BY <1>9, <3>2 DEF HeldCopy
    <3>5. /\ judgedBy[p] \subseteq {Definition(held[p].draft.scoring)}
          /\ held[p].draft.scoring # None => held[p].points = FullScore(held[p].draft.scoring)
      BY <1>4, <3>2, <3>3 DEF Sound, Scored
    <3>6. CASE q.started
      <4>1. SameDefinition(held[p].draft.scoring, q.d.scoring)
        BY <1>2, <1>p, <3>2, <3>3, <3>6 DEF SavingKnows
      <4> QED BY <3>4, <3>5, <3>6, <4>1, SameDefinitionFacts
    <3>7. CASE ~q.started
      <4>1. judgedBy[p] = {} /\ Publishable(q.d)
        BY <1>2, <1>p, <3>2, <3>3, <3>7 DEF SavingKnows
      <4> QED BY <3>4, <3>7, <4>1, FullScoreCounts
    <3> QED BY <3>6, <3>7
  <2> QED BY <2>2, <2>3, <2>4, <2>5 DEF Sound
<1>14. ASSUME NEW o \in Problems PROVE Sound(o)'
  <2>1. CASE o = p
    BY <1>13, <2>1
  <2>2. CASE o # p
    <3>1. (Started' <=> Started) /\ (Reserved(o)' <=> Reserved(o))
      BY <1>1, <1>8 DEF Started, Reserved, Held
    <3> QED BY <1>1, <1>5, <1>7, <1>8, <2>2, <3>1, UntouchedStaysSound DEF Live, Applied, Held
  <2> QED BY <2>1, <2>2
<1>15. Knows(Idle)' /\ Free(r, Idle.locks)
  BY DEF Knows, Idle, Free
<1> QED BY <1>1, <1>10, <1>11, <1>12, <1>14, <1>15, TransactionStep DEF Done, Move

-----------------------------------------------------------------------------
\* Publishing, taking down, reserving and releasing write rows of this form:
\* the draft stays, and its copies go on from the version the row had.
Fits(p, c) == c.draft = row[p].draft /\ c.version \in Nat /\ since[p] <= c.version /\ c.version <= row[p].version + 1
Moved(p) == /\ Live(p) /\ Live(p)'
            /\ row'[p].draft = row[p].draft /\ row'[p].version = row[p].version + 1
            /\ row'[p].ever <=> row[p].ever \/ row'[p].pub # None
            /\ row'[p].pub # None => Fits(p, row'[p].pub)
            /\ row'[p].sched # None => Fits(p, row'[p].sched) /\ ~Applied(p)'
            /\ Applied(p)' => Applied(p) /\ row'[p].pub = None
            /\ row'[p].pub # None \/ row'[p].sched # None =>
                 ~Reserved(p)' /\ (p \in slips \cup unjudged' \/ Publishable(row[p].draft))
            /\ Reserved(p)' /\ p \in unjudged => p \in unjudged'

LEMMA MovedStaysSound ==
  ASSUME PublicationsIInv, NEW p \in Problems, Moved(p), UNCHANGED <<now, held, since, judgedBy, slips>>,
         Started' <=> Started, Reserved(p)' => Reserved(p)
  PROVE  Sound(p)'
<1>1. Sound(p) /\ Live(p) /\ Live(p)' /\ row[p].version \in Nat /\ since[p] \in Nat
  BY DEF PublicationsIInv, Sound, Copied, Moved, Typed
<1>2. (Public(p)' <=> row'[p].pub # None) /\ (Scheduled(p)' <=> row'[p].sched # None) /\ (Held(p)' <=> Held(p))
  BY <1>1 DEF Public, Scheduled, Held
<1>3. Destined(p)'
  BY <1>1, <1>2 DEF Sound, Destined, Moved
<1>4. Copied(p)'
  <2>1. row'[p].version \in Nat /\ since'[p] <= row'[p].version
    BY <1>1 DEF Sound, Copied, Moved
  <2>2. Public(p)' => row'[p].ever /\ InStep(p, row[p].pub)'
    BY <1>1, <1>2 DEF Moved, Fits, InStep
  <2>3. Scheduled(p)' => InStep(p, row[p].sched)'
    BY <1>1, <1>2 DEF Moved, Fits, InStep
  <2>4. Held(p)' => InStep(p, held[p])'
    BY <1>1, <1>2 DEF Moved, InStep, Sound, Copied
  <2> QED BY <2>1, <2>2, <2>3, <2>4 DEF Copied
<1>5. Finished(p)'
  BY <1>1, <1>2 DEF Sound, Finished, Moved
<1>6. Scored(p)'
  BY <1>1, <1>2 DEF Sound, Scored
<1> QED BY <1>3, <1>4, <1>5, <1>6 DEF Sound

\* A step that moves the problems of S, all of them free of other transactions.
MovesOnly(S) ==
  /\ UNCHANGED <<now, held, since, judgedBy, slips>> /\ contest' \in {None} \cup Contests
  /\ \A p \in Problems \ S : p \in unjudged => p \in unjudged'
  /\ Started' <=> Started
  /\ contest' = contest \/ contest'.released
  /\ contest' # None => contest'.starts < contest'.ends
  /\ contest # None => contest' # None
  /\ \A p \in Problems : (p \notin S \/ contest' = contest) => (Reserved(p)' <=> Reserved(p))
  /\ DOMAIN row' = DOMAIN row /\ \A p \in DOMAIN row \ S : row'[p] = row[p]
  /\ DOMAIN apps' \subseteq DOMAIN apps
  /\ S \subseteq Problems /\ \A p \in S : Moved(p)

LEMMA MovesFacts ==
  ASSUME PublicationsIInv, NEW S, MovesOnly(S), DOMAIN req' = Requests
  PROVE  /\ Typed' /\ UnderCap' /\ \A p \in Problems : Sound(p)'
         /\ \A x \in Requests : Rows(S) \cap req[x].locks = {} => Spared(x)
<1>1. Typed'
  BY DEF PublicationsIInv, Typed, MovesOnly
<1>2. UnderCap'
  BY CapStays DEF PublicationsIInv, MovesOnly
<1>3. ASSUME NEW p \in Problems PROVE Sound(p)'
  <2>1. CASE p \in S
    <3>1. Reserved(p)' => Reserved(p)
      BY <2>1 DEF MovesOnly, Reserved, Held
    <3> QED BY <2>1, <3>1, MovedStaysSound DEF MovesOnly
  <2>2. CASE p \notin S
    BY <2>2, UntouchedStaysSound DEF MovesOnly, Live, Applied, Held
  <2> QED BY <2>1, <2>2
<1>4. ASSUME NEW x \in Requests, Rows(S) \cap req[x].locks = {} PROVE Spared(x)
  <2>1. \A p \in S \cap DOMAIN row : row'[p].version = row[p].version + 1
    BY DEF MovesOnly, Moved
  <2>2. UNCHANGED <<held, since, judgedBy>> /\ DOMAIN row' = DOMAIN row /\ DOMAIN apps' \subseteq DOMAIN apps
        /\ (contest' = contest \/ contest'.released) /\ \A p \in DOMAIN row \ S : row'[p] = row[p]
    BY DEF MovesOnly
  <2> QED BY <1>4, <2>1, <2>2, WriteSpares
<1> QED BY <1>1, <1>2, <1>3, <1>4

\* One problem moves, written under its own lock.
LEMMA OneMoves ==
  ASSUME PublicationsIInv, NEW r \in Requests, NEW p \in Problems, NEW w, Live(p), Free(r, {Problem(p)}),
         Write([o \in {p} |-> w]), Done(r), UNCHANGED <<now, held, contest, since, judgedBy, slips>>,
         unjudged \ {p} \subseteq unjudged',
         w.draft = row[p].draft, w.version = row[p].version + 1, w.ever <=> row[p].ever \/ w.pub # None,
         w.pub # None => Fits(p, w.pub), w.sched # None => Fits(p, w.sched) /\ ~Applied(p),
         ~Reserved(p), w.pub # None \/ w.sched # None => p \in slips \cup unjudged' \/ Publishable(row[p].draft)
  PROVE  PublicationsIInv'
<1>1. /\ DOMAIN row' = DOMAIN row /\ \A o \in DOMAIN row \ {p} : row'[o] = row[o]
      /\ row'[p] = w /\ DOMAIN apps' = DOMAIN apps \ {o \in {p} : w.pub # None}
  <2> DEFINE new == [o \in {p} |-> w]
  <2>1. DOMAIN new = {p} /\ new[p] = w
    OBVIOUS
  <2>2. Write(new)
    OBVIOUS
  <2> HIDE DEF new
  <2>3. /\ DOMAIN row' = DOMAIN row
        /\ \A o \in DOMAIN row : row'[o] = IF o \in DOMAIN new THEN new[o] ELSE row[o]
        /\ DOMAIN apps' = DOMAIN apps \ {o \in DOMAIN new : new[o].pub # None}
    BY <2>2, WriteFacts
  <2> QED BY <2>1, <2>3 DEF Live
<1>2. (Reserved(p)' <=> Reserved(p)) /\ (Applied(p)' => Applied(p) /\ w.pub = None) /\ Live(p)'
  BY <1>1 DEF Reserved, Held, Applied, Live
<1>3. Moved(p)
  BY <1>1, <1>2 DEF Moved
<1>4. MovesOnly({p})
  BY <1>1, <1>3 DEF MovesOnly, Reserved, Held, Started, PublicationsIInv, Typed
<1>5. DOMAIN req' = Requests
  BY DEF Done, PublicationsIInv, Typed
<1>6. ASSUME NEW x \in Requests, x # r PROVE Rows({p}) \cap req[x].locks = {}
  BY <1>6, FreeOfOthers DEF Free, Rows
<1>7. Knows(Idle)' /\ Free(r, Idle.locks)
  BY DEF Knows, Idle, Free
<1> QED BY <1>4, <1>5, <1>6, <1>7, MovesFacts, TransactionStep DEF Done, Move

LEMMA PublishCommitStep ==
  ASSUME PublicationsIInv, NEW r \in Requests, PublishCommit(r), UNCHANGED now
  PROVE  PublicationsIInv'
<1>q. PICK q : q = req[r]
  OBVIOUS
<1>p. PICK p : p = q.p
  OBVIOUS
<1>1. /\ q.kind = "publish" /\ Free(r, {Problem(p)}) /\ Done(r)
      /\ UNCHANGED <<held, contest, since, judgedBy, slips>>
  BY <1>q, <1>p DEF PublishCommit, At
<1>2. p \in Problems /\ MoveKnows(q)
  BY <1>q, <1>p, <1>1 DEF PublicationsIInv, Knows
<1>3. CASE ~Publishes(q)
  <2>1. Quiet
    BY <1>q, <1>1, <1>3 DEF PublishCommit, Quiet
  <2> QED BY <1>1, <2>1, DoneStep
<1>4. CASE Publishes(q)
  <2>1. Live(p) /\ row[p].version = q.seen /\ ~Reserved(p)
    BY <1>4, <1>p DEF Publishes, Current
  <2>2. row[p].version \in Nat /\ since[p] \in Nat /\ since[p] <= row[p].version
    BY <1>2, <2>1 DEF PublicationsIInv, Typed, Sound, Copied
  <2>3. PICK w : w = IF q.on THEN Published(row[p], row[p].draft, row[p].version + 1)
                     ELSE Stored(row[p].draft, row[p].version + 1, None, None, row[p].ever)
    OBVIOUS
  <2>4. Write([o \in {p} |-> w])
    BY <1>q, <1>p, <1>4, <2>3 DEF PublishCommit
  <2>a. unjudged' = IF q.on /\ q.seen # q.judged THEN unjudged \cup {p} ELSE unjudged \ {p}
    BY <1>q, <1>p, <1>4 DEF PublishCommit, Vouched
  <2>5. CASE q.on
    <3>1. PICK c : c = [draft |-> row[p].draft, version |-> row[p].version + 1]
      OBVIOUS
    <3>2. w = Stored(row[p].draft, row[p].version + 1, c, row[p].sched, row[p].ever)
      BY <2>3, <2>5, <3>1 DEF Published
    <3>3. Fits(p, c)
      BY <2>2, <3>1 DEF Fits
    <3>4. /\ w.draft = row[p].draft /\ w.version = row[p].version + 1 /\ w.pub = c
          /\ w.sched = (IF c # None THEN None ELSE row[p].sched) /\ (w.ever <=> row[p].ever \/ c # None)
      BY <3>2, StoredFacts
    <3>5. p \in unjudged' \/ Publishable(row[p].draft)
      BY <1>2, <1>p, <2>1, <2>a, <2>5 DEF MoveKnows
    <3>6. Scheduled(p) => Fits(p, row[p].sched) /\ ~Applied(p)
      BY <1>2, <2>2 DEF PublicationsIInv, Sound, Destined, Copied, InStep, Fits, Scheduled
    <3>7. w.sched # None => Fits(p, w.sched) /\ ~Applied(p)
      BY <2>1, <3>4, <3>6 DEF Scheduled
    <3> QED BY <1>1, <1>2, <2>1, <2>4, <2>a, <3>3, <3>4, <3>5, <3>7, OneMoves
  <2>6. CASE ~q.on
    <3>1. w.draft = row[p].draft /\ w.version = row[p].version + 1 /\ w.pub = None /\ w.sched = None /\ (w.ever <=> row[p].ever)
      BY <2>3, <2>6, StoredFacts
    <3> QED BY <1>1, <1>2, <2>1, <2>4, <2>a, <3>1, OneMoves
  <2> QED BY <2>5, <2>6
<1> QED BY <1>3, <1>4

LEMMA ScheduleCommitStep ==
  ASSUME PublicationsIInv, NEW r \in Requests, ScheduleCommit(r), UNCHANGED now
  PROVE  PublicationsIInv'
<1>q. PICK q : q = req[r]
  OBVIOUS
<1>p. PICK p : p = q.p
  OBVIOUS
<1>1. /\ q.kind = "schedule" /\ Free(r, {Problem(p)}) /\ Done(r)
      /\ UNCHANGED <<held, contest, since, judgedBy, slips>>
  BY <1>q, <1>p DEF ScheduleCommit, At
<1>2. p \in Problems /\ MoveKnows(q) /\ q.on
  BY <1>q, <1>p, <1>1 DEF PublicationsIInv, Knows
<1>3. CASE ~Reserves(q)
  <2>1. Quiet
    BY <1>q, <1>1, <1>3 DEF ScheduleCommit, Quiet
  <2> QED BY <1>1, <2>1, DoneStep
<1>4. CASE Reserves(q)
  <2>1. Live(p) /\ row[p].version = q.seen /\ row[p].pub = None /\ ~Held(p) /\ ~Applied(p)
    BY <1>4, <1>p DEF Reserves, Current, Public
  <2>2. row[p].version \in Nat /\ since[p] \in Nat /\ since[p] <= row[p].version
    BY <1>2, <2>1 DEF PublicationsIInv, Typed, Sound, Copied
  <2>3. PICK c : c = [draft |-> row[p].draft, version |-> row[p].version + 1, at |-> q.at]
    OBVIOUS
  <2>4. PICK w : w = Stored(row[p].draft, row[p].version + 1, row[p].pub, c, row[p].ever)
    OBVIOUS
  <2>5. Write([o \in {p} |-> w])
    BY <1>q, <1>p, <1>4, <2>3, <2>4 DEF ScheduleCommit
  <2>6. Fits(p, c)
    BY <2>2, <2>3 DEF Fits
  <2>7. w.draft = row[p].draft /\ w.version = row[p].version + 1 /\ w.pub = None /\ w.sched = c /\ (w.ever <=> row[p].ever)
    BY <2>1, <2>4, StoredFacts
  <2>a. unjudged' = IF q.on /\ q.seen # q.judged THEN unjudged \cup {p} ELSE unjudged \ {p}
    BY <1>q, <1>p, <1>4 DEF ScheduleCommit, Vouched
  <2>8. (p \in unjudged' \/ Publishable(row[p].draft)) /\ ~Reserved(p)
    BY <1>1, <1>2, <1>p, <2>1, <2>a DEF MoveKnows, Reserved
  <2> QED BY <1>1, <1>2, <2>1, <2>a, <2>5, <2>6, <2>7, <2>8, OneMoves
<1> QED BY <1>3, <1>4

-----------------------------------------------------------------------------
\* Applying, withdrawing and deleting.
LEMMA ApplyCommitStep ==
  ASSUME PublicationsIInv, NEW r \in Requests, ApplyCommit(r), UNCHANGED now
  PROVE  PublicationsIInv'
<1>q. PICK q : q = req[r]
  OBVIOUS
<1>p. PICK p : p = q.p
  OBVIOUS
<1>1. /\ q.kind = "apply" /\ DOMAIN apps' = DOMAIN apps \cup {p} /\ Done(r)
      /\ UNCHANGED <<row, held, contest, since, judgedBy, slips, unjudged>>
  BY <1>q, <1>p DEF ApplyCommit, At
<1>2. p \in Problems /\ ApplyKnows(q)
  BY <1>q, <1>p, <1>1 DEF PublicationsIInv, Knows
<1>3. Owner(p) \in q.locks /\ Problem(p) \in q.locks /\ Live(p) /\ Appliable(p)
  BY <1>2, <1>p DEF ApplyKnows
<1>4. Typed'
  BY <1>1, <1>3 DEF PublicationsIInv, Typed, Done, Live
<1>5. UnderCap'
  <2>1. SUFFICES ASSUME NEW o \in DOMAIN apps' PROVE Cardinality(Others(o)') < Cap
    BY DEF UnderCap
  <2>2. IsFiniteSet(DOMAIN apps) /\ IsFiniteSet(Others(p)) /\ IsFiniteSet(Others(o)')
    BY <1>1, <2>1, FiniteAssumption, FS_Subset, FS_AddElement DEF PublicationsIInv, Typed, Others
  <2>3. Cardinality(Others(p)) < Cap
    BY <1>3 DEF Appliable
  <2>4. CASE Author[o] # Author[p]
    <3>1. o \in DOMAIN apps /\ Others(o)' = Others(o)
      BY <1>1, <2>1, <2>4 DEF Others
    <3> QED BY <3>1 DEF PublicationsIInv, UnderCap
  <2>5. CASE o = p
    <3>1. Others(o)' = Others(p)
      BY <1>1, <2>5 DEF Others
    <3> QED BY <2>3, <3>1
  <2>6. CASE Author[o] = Author[p] /\ o # p
    \* the other applications of the author are those beside p, with p in the place of o
    <3>1. o \in Others(p) /\ Others(o)' = (Others(p) \ {o}) \cup {p} /\ p \notin Others(p) \ {o}
      BY <1>1, <2>1, <2>6 DEF Others
    <3>2. /\ IsFiniteSet(Others(p) \ {o}) /\ Cardinality(Others(p) \ {o}) = Cardinality(Others(p)) - 1
      BY <2>2, <3>1, FS_RemoveElement
    <3>3. Cardinality(Others(o)') = Cardinality(Others(p) \ {o}) + 1
      BY <3>1, <3>2, FS_AddElement
    <3>4. Cardinality(Others(p)) \in Nat
      BY <2>2, FS_CardinalityType
    <3> QED BY <2>3, <3>2, <3>3, <3>4
  <2> QED BY <2>4, <2>5, <2>6
<1>6. ASSUME NEW o \in Problems PROVE Sound(o)'
  <2>1. (Started' <=> Started) /\ (Reserved(o)' <=> Reserved(o)) /\ (Live(o)' <=> Live(o)) /\ (Held(o)' <=> Held(o))
    BY <1>1 DEF Started, Reserved, Live, Held
  <2>2. CASE o # p
    BY <1>1, <2>1, <2>2, UntouchedStaysSound DEF Applied
  <2>3. CASE o = p
    <3>1. Sound(p) /\ ~row[p].ever /\ ~Scheduled(p) /\ ~Held(p) /\ ~Reserved(p)
      BY <1>2, <1>3 DEF PublicationsIInv, Appliable, Reserved
    <3>2. Destined(p)' /\ Copied(p)' /\ Finished(p)' /\ Scored(p)'
      BY <1>1, <2>1, <2>3, <3>1 DEF Sound, Destined, Copied, Finished, Scored, InStep, Public, Scheduled
    <3> QED BY <2>3, <3>2 DEF Sound
  <2> QED BY <2>2, <2>3
<1>7. ASSUME NEW x \in Requests, x # r PROVE Spared(x)
  <2>1. Problem(p) \notin req[x].locks /\ Owner(p) \notin req[x].locks
    BY <1>3, <1>7, <1>q DEF PublicationsIInv, Exclusive
  <2>2. \A o \in Problems : Problem(o) \in req[x].locks => (Applied(o)' => Applied(o))
    BY <1>1, <2>1 DEF Applied
  <2>3. \A o \in Problems : Owner(o) \in req[x].locks => Others(o)' \subseteq Others(o)
    BY <1>1, <2>1 DEF Others, Owner
  <2>4. \A o \in Problems : Live(o) => row[o].version \in Nat
    BY DEF PublicationsIInv, Sound, Copied
  <2> QED BY <1>1, <2>2, <2>3, <2>4 DEF Spared, Live, Held, Reserved
<1>8. Knows(Idle)' /\ Free(r, Idle.locks)
  BY DEF Knows, Idle, Free
<1> QED BY <1>1, <1>4, <1>5, <1>6, <1>7, <1>8, TransactionStep DEF Done, Move

\* A problem's application goes, and the problem with it if it is deleted.
LEMMA LeaveStep ==
  ASSUME PublicationsIInv, NEW p \in Problems, Withdraw(p) \/ Delete(p)
  PROVE  PublicationsIInv'
<1>1. /\ DOMAIN apps' = DOMAIN apps \ {p} /\ UNCHANGED <<now, held, contest, req, since, judgedBy, slips, unjudged>>
      /\ Problem(p) \notin Taken
      /\ \/ UNCHANGED row
         \/ ~Held(p) /\ row' = [o \in DOMAIN row \ {p} |-> row[o]]
  BY DEF Withdraw, Delete, Leave
<1>2. DOMAIN row' \subseteq DOMAIN row /\ \A o \in DOMAIN row' : row'[o] = row[o]
  BY <1>1
<1>3. \A o \in Problems \ {p} : Live(o)' <=> Live(o)
  BY <1>1 DEF Live
<1>4. \A o \in Problems : /\ (Started' <=> Started) /\ (Reserved(o)' <=> Reserved(o)) /\ (Held(o)' <=> Held(o))
                         /\ (Live(o)' => Live(o)) /\ (Applied(o)' => Applied(o))
  BY <1>1, <1>2 DEF Started, Reserved, Held, Live, Applied
<1>5. Typed'
  BY <1>1, <1>2 DEF PublicationsIInv, Typed, Held
<1>6. UnderCap'
  BY <1>1, CapStays DEF PublicationsIInv
<1>7. ASSUME NEW o \in Problems PROVE Sound(o)'
  <2>1. CASE Live(o)' <=> Live(o)
    BY <1>1, <1>2, <1>4, <2>1, UntouchedStaysSound DEF Live
  <2>2. CASE o = p /\ ~Live(p)' /\ ~Held(p)
    <3>1. ~Applied(p)' /\ ~Held(p)' /\ ~Public(p)' /\ ~Scheduled(p)' /\ ~Reserved(p)' /\ Sound(p)
      BY <1>1, <1>4, <2>2 DEF Applied, Public, Scheduled, Reserved, PublicationsIInv
    <3>2. Destined(p)' /\ Copied(p)' /\ Finished(p)' /\ Scored(p)'
      BY <1>1, <2>2, <3>1 DEF Sound, Destined, Copied, Finished, Scored
    <3> QED BY <2>2, <3>2 DEF Sound
  <2> QED BY <1>1, <1>3, <2>1, <2>2 DEF Live
<1>8. ASSUME NEW x \in Requests PROVE Spared(x)
  <2>1. Problem(p) \notin req[x].locks
    BY <1>1 DEF Taken
  <2>2. \A o \in Problems : Live(o) => row[o].version \in Nat
    BY DEF PublicationsIInv, Sound, Copied
  <2>3. \A o \in Problems : Problem(o) \in req[x].locks /\ Live(o) => Live(o)' /\ row'[o] = row[o]
    BY <1>2, <1>3, <2>1 DEF Live
  <2>4. \A o \in Problems : Others(o)' \subseteq Others(o)
    BY <1>1 DEF Others
  <2>5. \A o \in Problems : Live(o)' => Live(o) /\ row'[o] = row[o]
    BY <1>2, <1>4 DEF Live
  <2> QED BY <1>1, <1>4, <2>2, <2>3, <2>4, <2>5 DEF Spared
<1> QED BY <1>1, <1>5, <1>6, <1>7, <1>8, OtherStep

-----------------------------------------------------------------------------
\* The contest: taking its problems, running, and releasing them.
LEMMA ContestCommitStep ==
  ASSUME PublicationsIInv, NEW r \in Requests, ContestCommit(r), UNCHANGED now
  PROVE  PublicationsIInv'
<1>q. PICK q : q = req[r]
  OBVIOUS
<1>1. q.kind = "contest" /\ Done(r) /\ UNCHANGED <<row, apps, since, judgedBy, slips, unjudged>>
  BY <1>q DEF ContestCommit, At
<1>2. ContestKnows(q)
  BY <1>q, <1>1 DEF PublicationsIInv, Knows
<1>3. CASE ~(now < q.s.starts)
  <2>1. Quiet
    BY <1>q, <1>1, <1>3 DEF ContestCommit, Quiet
  <2> QED BY <1>1, <2>1, DoneStep
<1>4. CASE now < q.s.starts
  <2>1. held' = q.copies /\ contest' = [starts |-> q.s.starts, ends |-> q.s.ends, released |-> FALSE]
    BY <1>q, <1>4 DEF ContestCommit
  <2>2. contest' \in Contests /\ contest'.starts < contest'.ends
    BY <1>2, <2>1, ContestAssumption DEF ContestKnows, Contests
  <2>3. /\ DOMAIN held' \subseteq Problems
        /\ \A p \in DOMAIN held' : /\ Problem(p) \in q.locks /\ Enters(p) /\ InStep(p, held'[p])
                                   /\ held'[p].draft.scoring # None => held'[p].points = FullScore(held'[p].draft.scoring)
    BY <1>2, <2>1 DEF ContestKnows, Rows
  <2>4. Typed'
    <3>1. contest' # None /\ DOMAIN held' \subseteq DOMAIN row
      BY <2>2, <2>3, ContestAssumption DEF Enters, Live
    <3> QED BY <1>1, <2>2, <3>1 DEF PublicationsIInv, Typed, Done
  <2>5. UnderCap'
    BY <1>1, CapStays DEF PublicationsIInv
  <2>6. ASSUME NEW p \in Problems PROVE Sound(p)'
    <3>1. Sound(p) /\ judgedBy'[p] = {}
      BY <1>1, <1>2 DEF PublicationsIInv, ContestKnows
    <3>2. /\ (Live(p)' <=> Live(p)) /\ (Public(p)' <=> Public(p)) /\ (Scheduled(p)' <=> Scheduled(p))
          /\ (Applied(p)' <=> Applied(p))
      BY <1>1 DEF Live, Public, Scheduled, Applied
    <3>3. Held(p)' => Enters(p) /\ InStep(p, held[p])'
      BY <1>1, <2>3 DEF Held, InStep
    <3>4. Destined(p)'
      BY <1>1, <3>1, <3>2, <3>3 DEF Sound, Destined, Enters, Reserved
    <3>5. Copied(p)'
      BY <1>1, <3>1, <3>2, <3>3 DEF Sound, Copied, InStep
    <3>6. Finished(p)'
      BY <1>1, <3>1, <3>2, <3>3 DEF Sound, Finished, Enters, Reserved
    <3>7. Scored(p)'
      BY <2>3, <3>1 DEF Scored, Held
    <3> QED BY <3>4, <3>5, <3>6, <3>7 DEF Sound
  <2>7. ASSUME NEW x \in Requests, x # r PROVE Spared(x)
    <3>1. Contest \notin req[x].locks /\ \A p \in DOMAIN held' : Problem(p) \notin req[x].locks
      BY <1>2, <1>q, <2>3, <2>7 DEF PublicationsIInv, Exclusive, ContestKnows
    <3>2. \A p \in Problems : Live(p) => row[p].version \in Nat
      BY DEF PublicationsIInv, Sound, Copied
    <3> QED BY <1>1, <3>1, <3>2 DEF Spared, Live, Applied, Held, Reserved, Others
  <2>8. Knows(Idle)' /\ Free(r, Idle.locks)
    BY DEF Knows, Idle, Free
  <2> QED BY <1>1, <2>4, <2>5, <2>6, <2>7, <2>8, TransactionStep DEF Done, Move
<1> QED BY <1>3, <1>4

LEMMA SubmitStep ==
  ASSUME PublicationsIInv, NEW p \in Problems, Submit(p)
  PROVE  PublicationsIInv'
<1>1. /\ UNCHANGED <<now, row, held, contest, apps, req, since, slips, unjudged>> /\ Held(p) /\ Started /\ Contest \notin Taken
      /\ judgedBy' = [judgedBy EXCEPT ![p] = @ \cup {Definition(held[p].draft.scoring)}]
  BY DEF Submit, tables
<1>2. Typed' /\ UnderCap'
  BY <1>1 DEF PublicationsIInv, Typed, UnderCap, Others
<1>3. \A o \in Problems \ {p} : judgedBy'[o] = judgedBy[o]
  BY <1>1 DEF PublicationsIInv, Typed
<1>4. judgedBy'[p] = judgedBy[p] \cup {Definition(held[p].draft.scoring)}
  BY <1>1 DEF PublicationsIInv, Typed
<1>5. ASSUME NEW o \in Problems PROVE Sound(o)'
  <2>1. (Started' <=> Started) /\ (Reserved(o)' <=> Reserved(o)) /\ (Live(o)' <=> Live(o)) /\ (Held(o)' <=> Held(o)) /\ Sound(o)
    BY <1>1 DEF Started, Reserved, Live, Held, PublicationsIInv
  <2>2. CASE o # p
    BY <1>1, <1>3, <2>1, <2>2, UntouchedStaysSound DEF Applied
  <2>3. CASE o = p
    <3>1. Destined(p)' /\ Copied(p)' /\ Finished(p)'
      BY <1>1, <2>1, <2>3 DEF Sound, Destined, Copied, Finished, InStep, Public, Scheduled, Applied
    <3>2. Scored(p)'
      BY <1>1, <1>4, <2>1, <2>3 DEF Sound, Scored
    <3> QED BY <2>3, <3>1, <3>2 DEF Sound
  <2> QED BY <2>2, <2>3
<1>6. ASSUME NEW x \in Requests PROVE Spared(x)
  <2>1. Contest \notin req[x].locks
    BY <1>1 DEF Taken
  <2>2. \A o \in Problems : Live(o) => row[o].version \in Nat
    BY DEF PublicationsIInv, Sound, Copied
  <2> QED BY <1>1, <2>1, <2>2 DEF Spared, Live, Applied, Held, Reserved, Others
<1> QED BY <1>1, <1>2, <1>5, <1>6, OtherStep

LEMMA PublishedMoves ==
  ASSUME PublicationsIInv, NEW p \in Problems, Live(p), Live(p)', NEW draft, NEW version,
         row'[p] = Published(row[p], draft, version), draft = row[p].draft,
         version \in Nat, since[p] <= version, version <= row[p].version + 1,
         ~Applied(p)', ~Reserved(p)', p \in slips \cup unjudged' \/ Publishable(row[p].draft)
  PROVE  Moved(p)
<1>1. PICK c : c = [draft |-> draft, version |-> version]
  OBVIOUS
<1>2. row'[p] = Stored(row[p].draft, row[p].version + 1, c, row[p].sched, row[p].ever)
  BY <1>1 DEF Published
<1>3. /\ row'[p].draft = row[p].draft /\ row'[p].version = row[p].version + 1 /\ row'[p].pub = c
      /\ row'[p].sched = (IF c # None THEN None ELSE row[p].sched) /\ (row'[p].ever <=> row[p].ever \/ c # None)
  BY <1>2, StoredFacts
<1>4. Fits(p, c)
  BY <1>1 DEF Fits
<1>5. Scheduled(p) => Fits(p, row[p].sched)
  BY DEF PublicationsIInv, Sound, Copied, InStep, Fits, Scheduled
<1>6. row'[p].sched # None => Fits(p, row'[p].sched)
  BY <1>3, <1>5 DEF Scheduled
<1> QED BY <1>3, <1>4, <1>6 DEF Moved

LEMMA ReleaseContestStep ==
  ASSUME PublicationsIInv, ReleaseContest
  PROVE  PublicationsIInv'
<1> DEFINE S == DOMAIN held
           new == [p \in S |-> Published(row[p], held[p].draft, row[p].version + 1)]
<1>1. /\ contest # None /\ ~contest.released /\ Rows(S) \cap Taken = {}
      /\ contest' = [starts |-> contest.starts, ends |-> contest.ends, released |-> TRUE]
      /\ UNCHANGED <<now, held, req, since, judgedBy, slips, unjudged>>
  BY DEF ReleaseContest
<1>2. /\ DOMAIN row' = DOMAIN row /\ \A p \in DOMAIN row \ S : row'[p] = row[p]
      /\ \A p \in S : row'[p] = Published(row[p], held[p].draft, row[p].version + 1)
      /\ DOMAIN apps' \subseteq DOMAIN apps
  <2>1. Write(new)
    BY DEF ReleaseContest
  <2>2. DOMAIN new = S /\ \A p \in S : new[p] = Published(row[p], held[p].draft, row[p].version + 1)
    OBVIOUS
  <2>3. S \subseteq DOMAIN row
    BY DEF PublicationsIInv, Typed
  <2> HIDE DEF new
  <2>4. /\ DOMAIN row' = DOMAIN row
        /\ \A p \in DOMAIN row : row'[p] = IF p \in DOMAIN new THEN new[p] ELSE row[p]
        /\ DOMAIN apps' = DOMAIN apps \ {p \in DOMAIN new : new[p].pub # None}
    BY <2>1, WriteFacts
  <2> QED BY <2>2, <2>3, <2>4
<1>3. contest' \in Contests /\ contest' # None /\ contest'.starts = contest.starts /\ contest'.starts < contest'.ends
  <2>1. contest \in Contests /\ contest.starts < contest.ends
    BY <1>1 DEF PublicationsIInv, Typed
  <2>2. contest' \in Contests
    BY <1>1, <2>1 DEF Contests
  <2> QED BY <1>1, <2>1, <2>2, ContestAssumption
<1>4. ASSUME NEW p \in S PROVE p \in Problems /\ Moved(p)
  <2>1. p \in Problems /\ Live(p) /\ Live(p)' /\ Held(p) /\ Reserved(p) /\ ~Reserved(p)'
    BY <1>1, <1>2 DEF PublicationsIInv, Typed, Live, Held, Reserved
  <2>2. /\ Sound(p) /\ row[p].version \in Nat /\ since[p] \in Nat /\ since[p] <= row[p].version
        /\ held[p].draft = row[p].draft
    BY <2>1 DEF PublicationsIInv, Typed, Sound, Copied, InStep
  <2>3. ~Applied(p)' /\ (p \in slips \cup unjudged' \/ Publishable(row[p].draft))
    BY <1>1, <1>2, <2>1, <2>2 DEF Sound, Destined, Finished, Applied
  <2>4. row'[p] = Published(row[p], held[p].draft, row[p].version + 1)
    BY <1>2
  <2>5. /\ row[p].version + 1 \in Nat /\ since[p] <= row[p].version + 1 /\ row[p].version + 1 <= row[p].version + 1
    BY <2>2
  <2> QED BY <2>1, <2>2, <2>3, <2>4, <2>5, PublishedMoves
<1>5. MovesOnly(S)
  <2>1. \A p \in Problems : p \notin S => ~Held(p) /\ ~Held(p)'
    BY <1>1 DEF Held
  <2>2. (Started' <=> Started) /\ contest'.released /\ contest' # contest
    BY <1>1, <1>3 DEF Started
  <2> QED BY <1>1, <1>2, <1>3, <1>4, <2>1, <2>2 DEF MovesOnly, Reserved
<1>6. \A x \in Requests : Rows(S) \cap req[x].locks = {}
  BY <1>1 DEF Taken
<1>7. DOMAIN req' = Requests
  BY <1>1 DEF PublicationsIInv, Typed
<1> QED BY <1>1, <1>5, <1>6, <1>7, MovesFacts, OtherStep

LEMMA ReleaseScheduledStep ==
  ASSUME PublicationsIInv, ReleaseScheduled
  PROVE  PublicationsIInv'
<1> DEFINE S == DueRows
           new == [p \in S |-> Published(row[p], row[p].sched.draft, row[p].sched.version)]
<1>1. Rows(S) \cap Taken = {} /\ UNCHANGED <<now, held, contest, req, since, judgedBy, slips, unjudged>>
  BY DEF ReleaseScheduled
<1>2. S \subseteq Problems /\ \A p \in S : Live(p) /\ Scheduled(p)
  BY DEF DueRows, Scheduled
<1>3. /\ DOMAIN row' = DOMAIN row /\ \A p \in DOMAIN row \ S : row'[p] = row[p]
      /\ \A p \in S : row'[p] = Published(row[p], row[p].sched.draft, row[p].sched.version)
      /\ DOMAIN apps' \subseteq DOMAIN apps
  <2>1. Write(new)
    BY DEF ReleaseScheduled
  <2>2. DOMAIN new = S /\ \A p \in S : new[p] = Published(row[p], row[p].sched.draft, row[p].sched.version)
    OBVIOUS
  <2> HIDE DEF new, S
  <2>4. /\ DOMAIN row' = DOMAIN row
        /\ \A p \in DOMAIN row : row'[p] = IF p \in DOMAIN new THEN new[p] ELSE row[p]
        /\ DOMAIN apps' = DOMAIN apps \ {p \in DOMAIN new : new[p].pub # None}
    BY <2>1, WriteFacts
  <2> QED BY <1>2, <2>2, <2>4 DEF Live
<1>4. ASSUME NEW p \in S PROVE Moved(p)
  <2>1. p \in Problems /\ Live(p) /\ Live(p)' /\ Scheduled(p) /\ (Reserved(p)' <=> Reserved(p))
    BY <1>1, <1>2, <1>3 DEF Live, Held, Reserved
  <2>2. Sound(p) /\ row[p].version \in Nat /\ InStep(p, row[p].sched)
    BY <2>1 DEF PublicationsIInv, Sound, Copied
  <2>3. ~Applied(p)' /\ ~Reserved(p)' /\ (p \in slips \cup unjudged' \/ Publishable(row[p].draft))
    BY <1>1, <1>3, <2>1, <2>2 DEF Sound, Destined, Finished, Applied
  <2>4. row'[p] = Published(row[p], row[p].sched.draft, row[p].sched.version)
    BY <1>3
  <2> QED BY <2>1, <2>2, <2>3, <2>4, PublishedMoves DEF InStep
<1> HIDE DEF S
<1>5. MovesOnly(S)
  BY <1>1, <1>2, <1>3, <1>4 DEF MovesOnly, Reserved, Held, Started, PublicationsIInv, Typed
<1>6. \A x \in Requests : Rows(S) \cap req[x].locks = {}
  BY <1>1 DEF Taken
<1>7. DOMAIN req' = Requests
  BY <1>1 DEF PublicationsIInv, Typed
<1> QED BY <1>1, <1>5, <1>6, <1>7, MovesFacts, OtherStep

-----------------------------------------------------------------------------
\* The round's release looks at every entry again under its lock.
LEMMA SelectedIsEligible ==
  ASSUME NEW pool, NEW s, NEW t, NEW reserved, NEW pick \in Select(pool, s, t, reserved), pick.kind = "new"
  PROVE  pick.p \in DOMAIN pool /\ Eligible(pick.p) /\ InSlot(pick.p, s)
<1>1. Entries(pool, s, t) # {} /\ pick \in {[kind |-> "new", p |-> p] : p \in First(pool, Entries(pool, s, t), reserved, Preference(NewCount(s)))}
  BY DEF Select
<1>2. pick.p \in Entries(pool, s, t)
  BY <1>1 DEF First
<1> QED BY <1>2 DEF Entries

\* Either a round's release changes no row, or it publishes some of the entries it found eligible.
LEMMA FeaturedFacts ==
  ASSUME NEW r \in Requests, FeaturedCommit(r)
  PROVE  /\ req[r].kind = "featured" /\ Free(r, Rows(DOMAIN req[r].pool)) /\ Done(r)
         /\ UNCHANGED <<held, contest, since, judgedBy, slips, unjudged>>
         /\ \/ UNCHANGED <<row, apps>>
            \/ \E new \in SUBSET DOMAIN req[r].pool :
                 /\ \A p \in new : Eligible(p) /\ \E s \in Slots : InSlot(p, s)
                 /\ Store([p \in new |-> Published(row[p], row[p].draft, row[p].version + 1)]) /\ Leave(new)
<1> DEFINE due == DueRounds
           open == {t \in due : now < t + Window}
           Picks(s) == IF open = {} THEN {Missing}
                       ELSE LET t == Max(open) IN Select(req[r].pool, s, t, IF t = next THEN previews[s] ELSE None)
<1>1. \A s \in Slots : \A c \in Picks(s) :
        c.kind = "new" => c.p \in DOMAIN req[r].pool /\ Eligible(c.p) /\ InSlot(c.p, s)
  <2> SUFFICES ASSUME NEW s \in Slots, NEW c \in Picks(s), c.kind = "new"
               PROVE  c.p \in DOMAIN req[r].pool /\ Eligible(c.p) /\ InSlot(c.p, s)
    OBVIOUS
  <2>1. CASE open = {}
    BY <2>1 DEF Missing
  <2>2. CASE open # {}
    <3>1. c \in Select(req[r].pool, s, Max(open), IF Max(open) = next THEN previews[s] ELSE None)
      BY <2>2
    <3> QED BY <3>1, SelectedIsEligible
  <2> QED BY <2>1, <2>2
<1>2. PICK easy \in Picks("easy"), hard \in Picks("hard") :
        LET pick == [s \in Slots |-> IF s = "easy" THEN easy ELSE hard]
            new == {pick[s].p : s \in {o \in Slots : pick[o].kind = "new"}} IN
        \/ UNCHANGED <<row, apps>>
        \/ Store([p \in new |-> Published(row[p], row[p].draft, row[p].version + 1)]) /\ Leave(new)
  BY DEF FeaturedCommit
<1> DEFINE pick == [s \in Slots |-> IF s = "easy" THEN easy ELSE hard]
           new == {pick[s].p : s \in {o \in Slots : pick[o].kind = "new"}}
<1>3. \A s \in Slots : pick[s] \in Picks(s)
  BY <1>2 DEF Slots
<1>4. \A p \in new : p \in DOMAIN req[r].pool /\ Eligible(p) /\ \E s \in Slots : InSlot(p, s)
  <2> HIDE DEF Picks
  <2> QED BY <1>1, <1>3
<1>5. \/ UNCHANGED <<row, apps>>
      \/ Store([p \in new |-> Published(row[p], row[p].draft, row[p].version + 1)]) /\ Leave(new)
  BY <1>2
<1>6. /\ req[r].kind = "featured" /\ Free(r, Rows(DOMAIN req[r].pool)) /\ Done(r)
      /\ UNCHANGED <<held, contest, since, judgedBy, slips, unjudged>>
  BY DEF FeaturedCommit, At
<1> HIDE DEF new
<1> QED BY <1>4, <1>5, <1>6

LEMMA FeaturedCommitStep ==
  ASSUME PublicationsIInv, NEW r \in Requests, FeaturedCommit(r), UNCHANGED now
  PROVE  PublicationsIInv'
<1>1. /\ Free(r, Rows(DOMAIN req[r].pool)) /\ Done(r) /\ UNCHANGED <<held, contest, since, judgedBy, slips, unjudged>>
      /\ \/ UNCHANGED <<row, apps>>
         \/ \E new \in SUBSET DOMAIN req[r].pool :
              /\ \A p \in new : Eligible(p) /\ \E s \in Slots : InSlot(p, s)
              /\ Store([p \in new |-> Published(row[p], row[p].draft, row[p].version + 1)]) /\ Leave(new)
  BY FeaturedFacts
<1>2. CASE UNCHANGED <<row, apps>>
  BY <1>1, <1>2, DoneStep DEF Quiet
<1>3. CASE ~UNCHANGED <<row, apps>>
  <2>1. PICK S \in SUBSET DOMAIN req[r].pool :
              /\ \A p \in S : Eligible(p) /\ \E s \in Slots : InSlot(p, s)
              /\ Store([p \in S |-> Published(row[p], row[p].draft, row[p].version + 1)]) /\ Leave(S)
    BY <1>1, <1>3
  <2>2. /\ DOMAIN row' = DOMAIN row /\ \A p \in DOMAIN row \ S : row'[p] = row[p]
        /\ \A p \in S : row'[p] = Published(row[p], row[p].draft, row[p].version + 1)
        /\ DOMAIN apps' = DOMAIN apps \ S
    <3>1. S \subseteq DOMAIN row
      BY <2>1 DEF Eligible, Live
    <3> QED BY <2>1, <3>1 DEF Store, Leave
  <2>3. ASSUME NEW p \in S PROVE p \in Problems /\ Moved(p)
    <3>1. Live(p) /\ ~Held(p) /\ Publishable(row[p].draft) /\ p \in Problems
      BY <2>1 DEF Eligible, InSlot, Live, PublicationsIInv, Typed
    <3>2. Live(p)' /\ ~Applied(p)' /\ ~Reserved(p)'
      BY <1>1, <2>2, <3>1 DEF Live, Applied, Reserved, Held
    <3>3. row[p].version \in Nat /\ since[p] \in Nat /\ since[p] <= row[p].version
      BY <3>1 DEF PublicationsIInv, Typed, Sound, Copied
    <3>4. row[p].version + 1 \in Nat /\ since[p] <= row[p].version + 1 /\ row[p].version + 1 <= row[p].version + 1
      BY <3>3
    <3>5. row'[p] = Published(row[p], row[p].draft, row[p].version + 1)
      BY <2>2
    <3> QED BY <3>1, <3>2, <3>4, <3>5, PublishedMoves
  <2>4. MovesOnly(S)
    BY <1>1, <2>2, <2>3 DEF MovesOnly, Reserved, Held, Started, PublicationsIInv, Typed
  <2>5. DOMAIN req' = Requests
    BY <1>1 DEF Done, PublicationsIInv, Typed
  <2>6. ASSUME NEW x \in Requests, x # r PROVE Rows(S) \cap req[x].locks = {}
    BY <1>1, <2>1, <2>6 DEF Free, Rows
  <2>7. Knows(Idle)' /\ Free(r, Idle.locks)
    BY DEF Knows, Idle, Free
  <2> QED BY <1>1, <2>4, <2>5, <2>6, <2>7, MovesFacts, TransactionStep DEF Done, Move
<1> QED BY <1>2, <1>3

-----------------------------------------------------------------------------
\* Time passes, and the rest.
LEMMA TickStep ==
  ASSUME PublicationsIInv, Tick
  PROVE  PublicationsIInv'
<1>1. now' = now + 1 /\ UNCHANGED <<row, held, contest, apps, req, since, judgedBy, slips, unjudged>>
  BY DEF Tick, tables, history
<1>2. Typed' /\ UnderCap'
  <2>1. Typed'
    BY <1>1 DEF PublicationsIInv, Typed
  <2>2. UnderCap'
    BY <1>1 DEF PublicationsIInv, UnderCap, Others
  <2> QED BY <2>1, <2>2
<1>3. Started => Started'
  BY <1>1 DEF PublicationsIInv, Typed, Started, Contests
<1>4. ASSUME NEW p \in Problems PROVE Sound(p)'
  <2>1. Sound(p)
    BY DEF PublicationsIInv
  <2> QED BY <1>1, <1>3, <2>1 DEF Sound, Destined, Copied, Finished, Scored, InStep, Reserved, Held, Live, Public, Scheduled, Applied
<1>5. ASSUME NEW x \in Requests PROVE Spared(x)
  <2>1. \A p \in Problems : Live(p) => row[p].version \in Nat
    BY DEF PublicationsIInv, Sound, Copied
  <2> QED BY <1>1, <2>1 DEF Spared, Live, Applied, Held, Reserved, Others
<1> QED BY <1>1, <1>2, <1>4, <1>5, OtherStep

LEMMA StillStep ==
  ASSUME PublicationsIInv, Quiet, UNCHANGED req
  PROVE  PublicationsIInv'
<1>1. DOMAIN req' = Requests
  BY DEF PublicationsIInv, Typed
<1> QED BY <1>1, QuietFacts, OtherStep

-----------------------------------------------------------------------------
LEMMA PublicationsStart ==
  ASSUME Init
  PROVE  PublicationsIInv
<1>1. PICK d : /\ mix \in Mixes /\ now = mix.from /\ contest = None /\ apps \in mix.waiting /\ slips = {} /\ unjudged = {} /\ held = <<>>
               /\ row = [p \in mix.problems |-> [draft |-> d, version |-> 1, pub |-> None, sched |-> None, ever |-> FALSE]]
               /\ since = [p \in Problems |-> 1] /\ judgedBy = [p \in Problems |-> {}] /\ req = [r \in Requests |-> Idle]
  BY DEF Init
<1>2. DOMAIN held = {} /\ now \in Nat /\ mix.problems \subseteq Problems /\ DOMAIN apps \subseteq mix.problems
  BY <1>1, BoundAssumption, WaitingAssumption
<1>3. Typed
  BY <1>1, <1>2 DEF Typed
<1>4. Exclusive
  BY <1>1 DEF Exclusive, Idle
<1>5. ASSUME NEW p \in Problems PROVE Sound(p)
  <2>1. ~Held(p) /\ ~Reserved(p) /\ ~Public(p) /\ ~Scheduled(p) /\ judgedBy[p] = {}
    BY <1>1, <1>2 DEF Held, Reserved, Public, Scheduled, Live
  <2>2. Applied(p) => Live(p)
    BY <1>1, <1>2 DEF Applied, Live
  <2>3. Live(p) => row[p].version = 1 /\ ~row[p].ever /\ since[p] = 1
    BY <1>1 DEF Live
  <2> QED BY <2>1, <2>2, <2>3 DEF Sound, Destined, Copied, Finished, Scored
<1>6. UnderCap
  BY <1>1, WaitingAssumption DEF UnderCap, Others
<1>7. \A x \in Requests : Knows(req[x])
  BY <1>1 DEF Knows, Idle
<1> QED BY <1>3, <1>4, <1>5, <1>6, <1>7 DEF PublicationsIInv

LEMMA PublicationsNext ==
  ASSUME PublicationsIInv, [Next]_vars
  PROVE  PublicationsIInv'
<1>1. ASSUME NEW r \in Requests, Transaction(r) PROVE PublicationsIInv'
  <2>1. UNCHANGED now
    BY <1>1 DEF Transaction
  <2>2. CASE Arrive(r)
    BY <2>1, <2>2, SaveBeginStep, ContestBeginStep, PublishBeginStep, ScheduleBeginStep, ApplyBeginStep, FeaturedBeginStep DEF Arrive
  <2>3. CASE Commit(r)
    BY <2>1, <2>3, SaveCheckStep, SaveCommitStep, ContestCommitStep, PublishCommitStep, ScheduleCommitStep, ApplyCommitStep,
       FeaturedBeginStep, FeaturedCommitStep DEF Commit
  <2>4. CASE Abort(r)
    BY <2>1, <2>4, DoneStep DEF Abort, Quiet, tables, history
  <2> QED BY <1>1, <2>2, <2>3, <2>4 DEF Transaction
<1>2. ASSUME NEW p \in Problems, Submit(p) \/ Withdraw(p) \/ Delete(p) PROVE PublicationsIInv'
  BY <1>2, SubmitStep, LeaveStep
<1>3. CASE Preview
  BY <1>3, StillStep DEF Preview, Quiet
<1>4. CASE UNCHANGED vars
  BY <1>4, StillStep DEF vars, tables, history, Quiet
<1> QED BY <1>1, <1>2, <1>3, <1>4, ReleaseContestStep, ReleaseScheduledStep, TickStep DEF Next

\* What every transaction has checked under its locks is still so when it commits.
THEOREM PublicationsInvariance == Spec => []PublicationsIInv
<1>1. Init => PublicationsIInv
  BY PublicationsStart
<1>2. PublicationsIInv /\ [Next]_vars => PublicationsIInv'
  BY PublicationsNext
<1> QED BY <1>1, <1>2, PTL DEF Spec

\* A reservation, an application, a contest and publication keep each other out,
\* and the cap on an author's applications holds, however many requests overlap.
THEOREM AlwaysOneDestination == Spec => []OneDestination
<1>1. ASSUME PublicationsIInv PROVE OneDestination
  <2>1. SUFFICES ASSUME NEW p \in Problems
                 PROVE  /\ Reserved(p) => ~Public(p) /\ ~Scheduled(p) /\ ~Applied(p)
                        /\ Applied(p) => Live(p) /\ ~row[p].ever /\ ~Scheduled(p)
                        /\ Applied(p) => Cardinality(Others(p)) < Cap
    BY DEF OneDestination
  <2>2. Sound(p) /\ (Applied(p) => Live(p))
    BY <1>1 DEF PublicationsIInv, Typed, Applied, Live
  <2>3. Applied(p) => Cardinality(Others(p)) < Cap
    BY <1>1 DEF PublicationsIInv, UnderCap, Applied
  <2> QED BY <2>2, <2>3 DEF Sound, Destined
<1> QED BY <1>1, PublicationsInvariance, PTL

\* The public, the reserved and the contest's copy are the saved draft.
THEOREM CopiesAlwaysInStep == Spec => []CopiesInStep
<1>1. ASSUME PublicationsIInv PROVE CopiesInStep
  <2>1. ASSUME NEW p \in Problems PROVE Copied(p)
    BY <1>1 DEF PublicationsIInv, Sound
  <2> QED BY <2>1 DEF Copied, InStep, CopiesInStep
<1> QED BY <1>1, PublicationsInvariance, PTL

\* What is or will be public is finished, and a contest's runs are scored in one way.
THEOREM ContentAlwaysSettled == Spec => []ContentSettled
<1>1. ASSUME PublicationsIInv PROVE ContentSettled
  <2>1. ASSUME NEW p \in Problems PROVE Finished(p) /\ Scored(p)
    BY <1>1 DEF PublicationsIInv, Sound
  <2> QED BY <2>1 DEF Finished, Scored, ContentSettled, ReadyWhenPublic, ScoringSettled
<1> QED BY <1>1, PublicationsInvariance, PTL

\* The readiness an author is shown is what the operations then ask for.
THEOREM ReadinessIsAlwaysRight == Spec => []ReadinessIsRight
<1>1. ASSUME PublicationsIInv PROVE ReadinessIsRight
  <2>1. SUFFICES ASSUME NEW p \in Problems, Live(p)
                 PROVE  /\ (Assess(p).contest = {}) <=> (Enters(p) /\ ~Held(p))
                        /\ (Assess(p).featured = {}) <=> Appliable(p)
    BY DEF ReadinessIsRight
  <2>2. Applied(p) => Cardinality(Others(p)) < Cap
    BY <1>1 DEF PublicationsIInv, UnderCap, Applied
  <2>3. IsFiniteSet(Others(p))
    BY <1>1, FiniteAssumption, FS_Subset DEF PublicationsIInv, Typed, Others
  <2>4. (Cardinality(Others(p)) >= Cap) <=> ~(Cardinality(Others(p)) < Cap)
    BY <2>3, FS_CardinalityType, BoundAssumption
  <2>5. (Assess(p).contest = {}) <=> (Enters(p) /\ ~Held(p))
    BY <2>1 DEF Assess, Enters, Publishable
  <2>6. (Assess(p).featured = {}) <=> Appliable(p)
    BY <2>2, <2>4 DEF Assess, Appliable, Publishable
  <2> QED BY <2>5, <2>6
<1> QED BY <1>1, PublicationsInvariance, PTL

-----------------------------------------------------------------------------
\* What is in the tables, for TypeOK and RoundsStay.
RowFilled(w) ==
  /\ w.draft \in Drafts /\ w.version \in Nat \ {0} /\ w.ever \in BOOLEAN
  /\ w.pub # None => w.pub \in Copy
RowsFilled == (\A p \in DOMAIN row : RowFilled(row[p])) /\ \A p \in Problems : since[p] >= 1
HeldFilled == \A p \in DOMAIN held : held[p].points \in Nat \ {0}
AppsFilled == \A p \in DOMAIN apps : apps[p].pref \in {"soon", "later"} /\ apps[p].ahead \subseteq DOMAIN apps \ {p}
RestFilled == /\ mix \in Mixes /\ now \in 0..mix.days /\ slips \cup unjudged \subseteq Problems /\ late \subseteq Requests
              /\ previews \in [Slots -> Problems \cup {None}]

\* The rounds are past, no release failed, and what a round called new has been public.
Kinds == {"new", "revival", "missing"}
RoundPicks == [Slots -> [kind : Kinds, p : Problems \cup {None}]]
RoundsSound ==
  /\ failed = FALSE /\ next \in Nat /\ DOMAIN rounds \subseteq Nat
  /\ \A t \in DOMAIN rounds : t < next /\ t <= now /\ rounds[t] \in RoundPicks
  /\ \A p \in DOMAIN row : Recorded(p) => row[p].ever

RequestFilled(q) ==
  /\ q.kind \in {"save", "saving"} => q.d \in Drafts
  /\ q.kind = "contest" => \A p \in DOMAIN q.copies : q.copies[p].points \in Nat \ {0}
  /\ q.kind = "apply" => q.pref \in {"soon", "later"}

TablesIInv == /\ RowsFilled /\ HeldFilled /\ AppsFilled /\ RestFilled /\ RoundsSound
              /\ \A x \in Requests : RequestFilled(req[x])

\* Rows are not added, and ever_published stays.
RowsGoOn == /\ DOMAIN row' \subseteq DOMAIN row
            /\ \A p \in DOMAIN row' : RowFilled(row'[p]) /\ (row[p].ever => row'[p].ever)
            /\ \A p \in Problems : since'[p] >= 1

-----------------------------------------------------------------------------
\* A step beside the rounds.
LEMMA TablesGoOn ==
  ASSUME PublicationsIInv, TablesIInv, UNCHANGED <<rounds, next, failed>>, now' \in {now, now + 1},
         RowsGoOn, HeldFilled', AppsFilled', RestFilled', \A x \in Requests : RequestFilled(req'[x])
  PROVE  TablesIInv' /\ RoundsGoOn
<1>1. RoundsSound /\ now \in Nat
  BY DEF TablesIInv, PublicationsIInv, Typed
<1>2. RoundsSound'
  BY <1>1 DEF RoundsSound, RowsGoOn, Recorded
<1>3. RoundsGoOn
  BY <1>1 DEF RoundsSound, RoundsGoOn
<1>4. RowsFilled'
  BY DEF RowsGoOn, RowsFilled
<1> QED BY <1>2, <1>3, <1>4 DEF TablesIInv

\* A transaction's step beside the rounds.
LEMMA TransactionFills ==
  ASSUME PublicationsIInv, TablesIInv, NEW r \in Requests, NEW q, req' = [req EXCEPT ![r] = q], RequestFilled(q),
         UNCHANGED <<mix, now, rounds, next, failed, previews>>, late' \subseteq late, (slips \cup unjudged)' \subseteq Problems,
         RowsGoOn, HeldFilled', AppsFilled'
  PROVE  TablesIInv' /\ RoundsGoOn
<1>1. RestFilled'
  BY DEF TablesIInv, RestFilled
<1>2. \A x \in Requests : RequestFilled(req'[x])
  BY DEF TablesIInv, PublicationsIInv, Typed
<1> QED BY <1>1, <1>2, TablesGoOn

\* A step that writes nothing of the problems.
LEMMA UnwrittenFills ==
  ASSUME TablesIInv, UNCHANGED <<row, held, apps, since>>
  PROVE  RowsGoOn /\ HeldFilled' /\ AppsFilled'
BY DEF TablesIInv, RowsGoOn, RowsFilled, HeldFilled, AppsFilled

LEMMA QuietFills ==
  ASSUME PublicationsIInv, TablesIInv, NEW r \in Requests, NEW q, req' = [req EXCEPT ![r] = q], RequestFilled(q),
         UNCHANGED <<mix, now, tables, history>>, late' \subseteq late
  PROVE  TablesIInv' /\ RoundsGoOn
<1>1. UNCHANGED <<mix, now, row, held, apps, since, rounds, next, failed, previews, slips, unjudged>>
  BY DEF tables, history
<1>2. (slips \cup unjudged)' \subseteq Problems
  BY <1>1 DEF TablesIInv, RestFilled
<1> QED BY <1>1, <1>2, UnwrittenFills, TransactionFills

\* A row that the trigger has seen.
LEMMA StoredFills ==
  ASSUME NEW draft \in Drafts, NEW version \in Nat \ {0}, NEW pub, NEW sched, NEW ever \in BOOLEAN,
         pub # None => pub \in Copy
  PROVE  RowFilled(Stored(draft, version, pub, sched, ever)) /\ (ever => Stored(draft, version, pub, sched, ever).ever)
BY DEF Stored, RowFilled

\* Publication makes a copy, which is not NULL: the row has been public for good.
LEMMA PublishedFills ==
  ASSUME NEW w, RowFilled(w), NEW draft \in Drafts, NEW version \in Nat \ {0}
  PROVE  RowFilled(Published(w, draft, version)) /\ Published(w, draft, version).ever
<1> DEFINE c == [draft |-> draft, version |-> version]
<1>1. c \in Copy /\ c # None
  BY NullAssumption DEF Copy
<1>2. w.draft \in Drafts /\ w.version + 1 \in Nat \ {0} /\ w.ever \in BOOLEAN
  BY DEF RowFilled
<1>3. Published(w, draft, version) = Stored(w.draft, w.version + 1, c, w.sched, w.ever)
  BY DEF Published
<1> HIDE DEF c
<1>4. RowFilled(Published(w, draft, version))
  BY <1>1, <1>2, <1>3, StoredFills
<1>5. Published(w, draft, version).ever
  BY <1>1, <1>3, StoredFacts
<1> QED BY <1>4, <1>5

LEMMA LeaveFills ==
  ASSUME TablesIInv, NEW S, Leave(S)
  PROVE  AppsFilled'
BY DEF TablesIInv, AppsFilled, Leave

LEMMA WriteFills ==
  ASSUME TablesIInv, NEW new, Write(new), \A p \in DOMAIN new : RowFilled(new[p]) /\ (row[p].ever => new[p].ever),
         \A p \in Problems : since'[p] >= 1
  PROVE  RowsGoOn /\ AppsFilled'
<1>1. RowsGoOn
  BY WriteFacts DEF TablesIInv, RowsFilled, RowsGoOn
<1>2. AppsFilled'
  BY LeaveFills DEF Write
<1> QED BY <1>1, <1>2

-----------------------------------------------------------------------------
\* Requests that arrive know drafts, points and preferences.
LEMMA MixFacts ==
  ASSUME TablesIInv
  PROVE  mix \in Mixes /\ mix.saves \subseteq Drafts /\ mix.first \subseteq Drafts
BY DEF TablesIInv, RestFilled, Drafts

LEMMA ArriveFills ==
  ASSUME PublicationsIInv, TablesIInv, NEW r \in Requests, Arrive(r), UNCHANGED <<mix, now>>, late' \subseteq late
  PROVE  TablesIInv' /\ RoundsGoOn
<1>1. SUFFICES \E q : req' = [req EXCEPT ![r] = q] /\ RequestFilled(q) /\ UNCHANGED <<tables, history>>
  BY QuietFills
<1>2. CASE \E p \in Problems, d \in mix.saves, named \in 1..mix.versions - 1 : SaveBegin(r, p, d, named)
  <2>1. PICK p \in Problems, d \in mix.saves, named \in 1..mix.versions - 1 : SaveBegin(r, p, d, named)
    BY <1>2
  <2> DEFINE q == [kind |-> "save", p |-> p, d |-> d, seen |-> named, locks |-> IF Held(p) THEN {Contest} ELSE {}]
  <2>2. req' = [req EXCEPT ![r] = q] /\ UNCHANGED <<tables, history>>
    BY <2>1 DEF SaveBegin, Begin
  <2>3. RequestFilled(q)
    BY MixFacts DEF RequestFilled
  <2> QED BY <2>2, <2>3
<1>3. CASE \E S \in SUBSET Problems, s \in Schedules : ContestBegin(r, S, s)
  <2>1. PICK S \in SUBSET Problems, s \in Schedules : ContestBegin(r, S, s)
    BY <1>3
  <2> DEFINE copy(p) == [draft |-> row[p].draft, version |-> row[p].version,
                         points |-> IF row[p].draft.scoring = None THEN 100 ELSE FullScore(row[p].draft.scoring)]
             q == [kind |-> "contest", s |-> s, locks |-> {Contest} \cup Rows(S), copies |-> [p \in S |-> copy(p)]]
  <2>2. req' = [req EXCEPT ![r] = q] /\ UNCHANGED <<tables, history>> /\ \A p \in S : Enters(p)
    BY <2>1 DEF ContestBegin, Begin
  <2>3. ASSUME NEW p \in S PROVE copy(p).points \in Nat \ {0}
    <3>1. Live(p) /\ Publishable(row[p].draft) /\ row[p].draft \in Drafts
      BY <2>2 DEF Enters, TablesIInv, RowsFilled, RowFilled, Live
    <3>2. row[p].draft.scoring # None => FullScore(row[p].draft.scoring) \in Nat /\ FullScore(row[p].draft.scoring) >= 1
      BY <3>1, FullScoreCounts, ScoreIsNatural
    <3> QED BY <3>2
  <2>4. RequestFilled(q)
    BY <2>3 DEF RequestFilled
  <2> QED BY <2>2, <2>4
<1>4. CASE \E p \in Problems, on, author \in BOOLEAN, named \in 1..mix.versions - 1 : PublishBegin(r, p, on, author, named)
  <2>1. PICK p \in Problems, on \in BOOLEAN, author \in BOOLEAN, named \in 1..mix.versions - 1 :
                PublishBegin(r, p, on, author, named)
    BY <1>4
  <2> DEFINE q == [kind |-> "publish", p |-> p, on |-> on, author |-> author, seen |-> named, judged |-> row[p].version, locks |-> {}]
  <2>2. req' = [req EXCEPT ![r] = q] /\ UNCHANGED <<tables, history>> /\ RequestFilled(q)
    BY <2>1 DEF PublishBegin, Begin, RequestFilled
  <2> QED BY <2>2
<1>5. CASE \E p \in Problems, at \in (now + 1)..mix.days, named \in 1..mix.versions - 1 : ScheduleBegin(r, p, at, named)
  <2>1. PICK p \in Problems, at \in (now + 1)..mix.days, named \in 1..mix.versions - 1 : ScheduleBegin(r, p, at, named)
    BY <1>5
  <2> DEFINE q == [kind |-> "schedule", p |-> p, at |-> at, on |-> TRUE, seen |-> named, judged |-> row[p].version, locks |-> {}]
  <2>2. req' = [req EXCEPT ![r] = q] /\ UNCHANGED <<tables, history>> /\ RequestFilled(q)
    BY <2>1 DEF ScheduleBegin, Begin, RequestFilled
  <2> QED BY <2>2
<1>6. CASE \E p \in Problems, pref \in {"soon", "later"} : ApplyBegin(r, p, pref)
  <2>1. PICK p \in Problems, pref \in {"soon", "later"} : ApplyBegin(r, p, pref)
    BY <1>6
  <2> DEFINE q == [kind |-> "apply", p |-> p, pref |-> pref, locks |-> {Owner(p), Problem(p)}]
  <2>2. req' = [req EXCEPT ![r] = q] /\ UNCHANGED <<tables, history>> /\ RequestFilled(q)
    BY <2>1 DEF ApplyBegin, Begin, RequestFilled
  <2> QED BY <2>2
<1>7. CASE FeaturedDue(r)
  <2> DEFINE q == [kind |-> "due", locks |-> {}]
  <2>1. req' = [req EXCEPT ![r] = q] /\ UNCHANGED <<tables, history>> /\ RequestFilled(q)
    BY <1>7 DEF FeaturedDue, Begin, RequestFilled
  <2> QED BY <2>1
<1> QED BY <1>2, <1>3, <1>4, <1>5, <1>6, <1>7 DEF Arrive

\* So do those that go on.
LEMMA SaveCheckFills ==
  ASSUME PublicationsIInv, TablesIInv, NEW r \in Requests, SaveCheck(r), UNCHANGED <<mix, now>>, late' \subseteq late
  PROVE  TablesIInv' /\ RoundsGoOn
<1>1. req[r].kind = "save" /\ UNCHANGED <<tables, history>> /\ req[r].d \in Drafts
  BY DEF SaveCheck, At, TablesIInv, RequestFilled
<1>2. RequestFilled(Idle)
  BY DEF RequestFilled, Idle
<1>3. PICK q : q = req[r]
  OBVIOUS
<1> DEFINE next_ == [kind |-> "saving", p |-> q.p, d |-> q.d, seen |-> q.seen, started |-> Held(q.p) /\ Started,
                     unruled |-> Reserved(q.p) /\ now >= contest.ends, locks |-> q.locks \cup {Problem(q.p)}]
<1>4. req' = [req EXCEPT ![r] = Idle] \/ req' = [req EXCEPT ![r] = next_]
  BY <1>3 DEF SaveCheck, Done, Move
<1>5. RequestFilled(next_)
  BY <1>1, <1>3 DEF RequestFilled
<1> QED BY <1>1, <1>2, <1>4, <1>5, QuietFills

LEMMA QuietCommitFills ==
  ASSUME PublicationsIInv, TablesIInv, NEW r \in Requests, FeaturedLock(r) \/ Abort(r), UNCHANGED <<mix, now>>, late' \subseteq late
  PROVE  TablesIInv' /\ RoundsGoOn
<1>1. CASE FeaturedLock(r)
  <2> DEFINE q == [kind |-> "featured", pool |-> Queue, locks |-> {Schedule}]
  <2>1. req' = [req EXCEPT ![r] = q] /\ UNCHANGED <<tables, history>> /\ RequestFilled(q)
    BY <1>1 DEF FeaturedLock, Move, RequestFilled
  <2> QED BY <2>1, QuietFills
<1>2. CASE Abort(r)
  <2>1. req' = [req EXCEPT ![r] = Idle] /\ UNCHANGED <<tables, history>> /\ RequestFilled(Idle)
    BY <1>2 DEF Abort, Done, RequestFilled, Idle
  <2> QED BY <2>1, QuietFills
<1> QED BY <1>1, <1>2

-----------------------------------------------------------------------------
\* Commits beside the rounds.
LEMMA SaveCommitFills ==
  ASSUME PublicationsIInv, TablesIInv, NEW r \in Requests, SaveCommit(r), UNCHANGED <<mix, now>>, late' \subseteq late
  PROVE  TablesIInv' /\ RoundsGoOn
<1>1. PICK q : q = req[r]
  OBVIOUS
<1>2. q.kind = "saving" /\ q.p \in Problems /\ SavingKnows(q) /\ q.d \in Drafts
  BY <1>1 DEF SaveCommit, At, PublicationsIInv, Knows, TablesIInv, RequestFilled
<1>3. Live(q.p) /\ row[q.p].version = q.seen /\ RowFilled(row[q.p])
  BY <1>2 DEF SavingKnows, TablesIInv, RowsFilled, Live
<1> DEFINE v == q.seen + 1
           new == [p \in {q.p} |-> Saved(row[p], q.d)]
<1>4. /\ Write(new) /\ since' = [since EXCEPT ![q.p] = v] /\ Done(r)
      /\ held' = [p \in DOMAIN held |-> IF p = q.p THEN HeldCopy(held[p], q.d, v, q.started) ELSE held[p]]
      /\ slips' \subseteq slips \cup {q.p} /\ unjudged' \subseteq unjudged /\ UNCHANGED <<next, previews, rounds, failed>>
  BY <1>1 DEF SaveCommit
<1>5. v \in Nat \ {0}
  BY <1>3 DEF RowFilled
<1>6. RowFilled(Saved(row[q.p], q.d)) /\ (row[q.p].ever => Saved(row[q.p], q.d).ever)
  <2> DEFINE w == row[q.p]
             c == [draft |-> q.d, version |-> w.version + 1]
             pub == IF w.pub = None THEN None ELSE c
             sched == IF w.sched = None THEN None ELSE [draft |-> q.d, version |-> w.version + 1, at |-> w.sched.at]
  <2>1. c \in Copy
    BY <1>2, <1>3, <1>5 DEF Copy
  <2>2. Saved(w, q.d) = Stored(q.d, w.version + 1, pub, sched, w.ever)
    BY DEF Saved
  <2>3. pub # None => pub \in Copy
    BY <2>1
  <2>4. w.ever \in BOOLEAN /\ w.version + 1 \in Nat \ {0}
    BY <1>3 DEF RowFilled
  <2> HIDE DEF pub, sched, c
  <2> QED BY <1>2, <2>2, <2>3, <2>4, StoredFills
<1>7. \A p \in Problems : since'[p] >= 1
  BY <1>4, <1>5 DEF TablesIInv, RowsFilled, PublicationsIInv, Typed
<1>8. RowsGoOn /\ AppsFilled'
  <2>1. \A p \in DOMAIN new : RowFilled(new[p]) /\ (row[p].ever => new[p].ever)
    BY <1>6
  <2> HIDE DEF new
  <2> QED BY <1>4, <1>7, <2>1, WriteFills
<1>9. HeldFilled'
  <2>1. q.d.scoring # None => FullScore(q.d.scoring) \in Nat
    BY <1>2, ScoreIsNatural
  <2>2. \A h : h.points \in Nat \ {0} => HeldCopy(h, q.d, v, q.started).points \in Nat \ {0}
    BY <2>1 DEF HeldCopy
  <2> HIDE DEF v
  <2> QED BY <1>4, <2>2 DEF TablesIInv, HeldFilled
<1>10. (slips \cup unjudged)' \subseteq Problems
  BY <1>2, <1>4 DEF TablesIInv, RestFilled
<1>11. RequestFilled(Idle)
  BY DEF RequestFilled, Idle
<1> HIDE DEF new
<1> QED BY <1>4, <1>8, <1>9, <1>10, <1>11, TransactionFills DEF Done

LEMMA ContestCommitFills ==
  ASSUME PublicationsIInv, TablesIInv, NEW r \in Requests, ContestCommit(r), UNCHANGED <<mix, now>>, late' \subseteq late
  PROVE  TablesIInv' /\ RoundsGoOn
<1>1. PICK q : q = req[r]
  OBVIOUS
<1>2. \A p \in DOMAIN q.copies : q.copies[p].points \in Nat \ {0}
  BY <1>1 DEF ContestCommit, At, TablesIInv, RequestFilled
<1>3. /\ held' \in {held, q.copies} /\ Done(r)
      /\ UNCHANGED <<row, apps, next, previews, rounds, since, slips, unjudged, failed>>
  BY <1>1 DEF ContestCommit
<1>4. RowsGoOn /\ AppsFilled' /\ HeldFilled'
  BY <1>2, <1>3 DEF TablesIInv, RowsGoOn, RowsFilled, HeldFilled, AppsFilled
<1>5. RequestFilled(Idle) /\ (slips \cup unjudged)' \subseteq Problems
  BY <1>3 DEF RequestFilled, Idle, TablesIInv, RestFilled
<1> QED BY <1>3, <1>4, <1>5, TransactionFills DEF Done

\* Publishing, taking down and reserving write the one row or none.
LEMMA OneRowFills ==
  ASSUME PublicationsIInv, TablesIInv, NEW r \in Requests, NEW p \in Problems, NEW w, Done(r),
         (Write([o \in {p} |-> w]) /\ RowFilled(w) /\ (row[p].ever => w.ever)) \/ UNCHANGED <<row, apps>>,
         UNCHANGED <<mix, now, held, next, previews, rounds, since, slips, failed>>, late' \subseteq late,
         unjudged' \subseteq unjudged \cup {p}
  PROVE  TablesIInv' /\ RoundsGoOn
<1>1. RequestFilled(Idle) /\ (slips \cup unjudged)' \subseteq Problems /\ \A o \in Problems : since'[o] >= 1
  BY DEF RequestFilled, Idle, TablesIInv, RestFilled, RowsFilled
<1>2. RowsGoOn /\ AppsFilled'
  <2>1. CASE UNCHANGED <<row, apps>>
    BY <1>1, <2>1 DEF TablesIInv, RowsGoOn, RowsFilled, AppsFilled
  <2>2. CASE Write([o \in {p} |-> w]) /\ RowFilled(w) /\ (row[p].ever => w.ever)
    <3> DEFINE new == [o \in {p} |-> w]
    <3>1. Write(new) /\ \A o \in DOMAIN new : RowFilled(new[o]) /\ (row[o].ever => new[o].ever)
      BY <2>2
    <3> HIDE DEF new
    <3> QED BY <1>1, <3>1, WriteFills
  <2> QED BY <2>1, <2>2
<1>3. HeldFilled'
  BY DEF TablesIInv, HeldFilled
<1> QED BY <1>1, <1>2, <1>3, TransactionFills DEF Done

LEMMA PublishCommitFills ==
  ASSUME PublicationsIInv, TablesIInv, NEW r \in Requests, PublishCommit(r), UNCHANGED <<mix, now>>, late' \subseteq late
  PROVE  TablesIInv' /\ RoundsGoOn
<1>1. PICK q : q = req[r]
  OBVIOUS
<1>2. PICK moved : moved = IF q.on THEN Published(row[q.p], row[q.p].draft, row[q.p].version + 1)
                           ELSE Stored(row[q.p].draft, row[q.p].version + 1, None, None, row[q.p].ever)
  OBVIOUS
<1>3. /\ IF Publishes(q) THEN Write([p \in {q.p} |-> moved]) ELSE UNCHANGED <<row, apps, plan>>
      /\ Done(r) /\ UNCHANGED <<held, contest, next, previews, rounds, since, judgedBy, slips, failed>>
      /\ q.kind = "publish" /\ unjudged' \subseteq unjudged \cup {q.p}
  BY <1>1, <1>2 DEF PublishCommit, Vouched, At
<1>4. Publishes(q) => RowFilled(moved) /\ (row[q.p].ever => moved.ever)
  <2> SUFFICES ASSUME Publishes(q) PROVE RowFilled(moved) /\ (row[q.p].ever => moved.ever)
    OBVIOUS
  <2>1. RowFilled(row[q.p])
    BY DEF Publishes, Current, Live, TablesIInv, RowsFilled
  <2>2. row[q.p].draft \in Drafts /\ row[q.p].version + 1 \in Nat \ {0} /\ row[q.p].ever \in BOOLEAN
    BY <2>1 DEF RowFilled
  <2> QED BY <1>2, <2>1, <2>2, PublishedFills, StoredFills
<1>5. (Write([o \in {q.p} |-> moved]) /\ RowFilled(moved) /\ (row[q.p].ever => moved.ever)) \/ UNCHANGED <<row, apps>>
  BY <1>3, <1>4
<1>7. q.p \in Problems
  BY <1>1, <1>3 DEF PublicationsIInv, Knows
<1> QED BY <1>3, <1>5, <1>7, OneRowFills

LEMMA ScheduleCommitFills ==
  ASSUME PublicationsIInv, TablesIInv, NEW r \in Requests, ScheduleCommit(r), UNCHANGED <<mix, now>>, late' \subseteq late
  PROVE  TablesIInv' /\ RoundsGoOn
<1>1. PICK q : q = req[r]
  OBVIOUS
<1>2. PICK sched : sched = [draft |-> row[q.p].draft, version |-> row[q.p].version + 1, at |-> q.at]
  OBVIOUS
<1>3. PICK moved : moved = Stored(row[q.p].draft, row[q.p].version + 1, row[q.p].pub, sched, row[q.p].ever)
  OBVIOUS
<1>4. /\ IF Reserves(q) THEN Write([p \in {q.p} |-> moved]) ELSE UNCHANGED <<row, apps, plan>>
      /\ Done(r) /\ UNCHANGED <<held, contest, next, previews, rounds, since, judgedBy, slips, failed>>
      /\ q.kind = "schedule" /\ unjudged' \subseteq unjudged \cup {q.p}
  BY <1>1, <1>2, <1>3 DEF ScheduleCommit, Vouched, At
<1>5. Reserves(q) => RowFilled(moved) /\ (row[q.p].ever => moved.ever)
  <2> SUFFICES ASSUME Reserves(q) PROVE RowFilled(moved) /\ (row[q.p].ever => moved.ever)
    OBVIOUS
  <2>1. RowFilled(row[q.p])
    BY DEF Reserves, Current, Live, TablesIInv, RowsFilled
  <2>2. /\ row[q.p].draft \in Drafts /\ row[q.p].version + 1 \in Nat \ {0} /\ row[q.p].ever \in BOOLEAN
        /\ row[q.p].pub # None => row[q.p].pub \in Copy
    BY <2>1 DEF RowFilled
  <2> QED BY <1>3, <2>1, <2>2, StoredFills
<1>6. (Write([o \in {q.p} |-> moved]) /\ RowFilled(moved) /\ (row[q.p].ever => moved.ever)) \/ UNCHANGED <<row, apps>>
  BY <1>4, <1>5
<1>7. q.p \in Problems
  BY <1>1, <1>4 DEF PublicationsIInv, Knows
<1> QED BY <1>4, <1>6, <1>7, OneRowFills

LEMMA ApplyCommitFills ==
  ASSUME PublicationsIInv, TablesIInv, NEW r \in Requests, ApplyCommit(r), UNCHANGED <<mix, now>>, late' \subseteq late
  PROVE  TablesIInv' /\ RoundsGoOn
<1>1. PICK q : q = req[r]
  OBVIOUS
<1>2. q.pref \in {"soon", "later"}
  BY <1>1 DEF ApplyCommit, At, TablesIInv, RequestFilled
<1>3. /\ apps' = [p \in DOMAIN apps \cup {q.p} |->
                   IF p # q.p THEN apps[p]
                   ELSE [pref |-> q.pref, at |-> IF Applied(q.p) THEN apps[p].at ELSE now,
                         ahead |-> IF Applied(q.p) THEN apps[p].ahead ELSE DOMAIN apps]]
      /\ Done(r) /\ UNCHANGED <<row, held, next, previews, rounds, since, slips, unjudged, failed>>
  BY <1>1 DEF ApplyCommit
<1>4. AppsFilled'
  BY <1>2, <1>3 DEF TablesIInv, AppsFilled, Applied
<1>5. RequestFilled(Idle) /\ (slips \cup unjudged)' \subseteq Problems /\ RowsGoOn /\ HeldFilled'
  BY <1>3 DEF RequestFilled, Idle, TablesIInv, RestFilled, RowsGoOn, RowsFilled, HeldFilled
<1> QED BY <1>3, <1>4, <1>5, TransactionFills DEF Done

-----------------------------------------------------------------------------
\* Single statements.
LEMMA WithdrawFills ==
  ASSUME PublicationsIInv, TablesIInv, NEW p \in Problems, Withdraw(p)
  PROVE  TablesIInv' /\ RoundsGoOn
<1>1. Leave({p}) /\ UNCHANGED <<mix, now, row, held, next, previews, rounds, req, late, since, slips, unjudged, failed>>
  BY DEF Withdraw
<1>2. AppsFilled'
  BY <1>1, LeaveFills
<1>3. RowsGoOn /\ HeldFilled' /\ RestFilled' /\ \A x \in Requests : RequestFilled(req'[x])
  BY <1>1 DEF TablesIInv, RowsGoOn, RowsFilled, HeldFilled, RestFilled
<1> QED BY <1>1, <1>2, <1>3, TablesGoOn

LEMMA StillFills ==
  ASSUME PublicationsIInv, TablesIInv, UNCHANGED <<mix, row, held, apps, next, rounds, req, since, slips, unjudged, failed>>,
         now' \in {now, now + 1}, RestFilled'
  PROVE  TablesIInv' /\ RoundsGoOn
<1>1. \A x \in Requests : RequestFilled(req'[x])
  BY DEF TablesIInv
<1> QED BY <1>1, UnwrittenFills, TablesGoOn

LEMMA SubmitFills ==
  ASSUME PublicationsIInv, TablesIInv, NEW p \in Problems, Submit(p)
  PROVE  TablesIInv' /\ RoundsGoOn
<1>1. UNCHANGED <<mix, now, row, held, apps, next, previews, rounds, req, late, since, slips, unjudged, failed>>
  BY DEF Submit, tables
<1>2. RestFilled'
  BY <1>1 DEF TablesIInv, RestFilled
<1> QED BY <1>1, <1>2, StillFills

LEMMA TickFills ==
  ASSUME PublicationsIInv, TablesIInv, Tick
  PROVE  TablesIInv' /\ RoundsGoOn
<1>1. /\ now < mix.days /\ now' = now + 1 /\ late' \subseteq Requests
      /\ UNCHANGED <<mix, row, held, apps, next, previews, rounds, req, since, slips, unjudged, failed>>
  BY DEF Tick, tables, history
<1>2. RestFilled'
  <2>1. mix.days \in Nat
    BY BoundAssumption DEF TablesIInv, RestFilled
  <2> QED BY <1>1, <2>1 DEF TablesIInv, RestFilled
<1> QED BY <1>1, <1>2, StillFills

\* What is selected is a problem or none.
LEMMA SelectedIsPick ==
  ASSUME Typed, NEW pool, NEW s, NEW t, NEW reserved, NEW pick \in Select(pool, s, t, reserved)
  PROVE  pick \in [kind : Kinds, p : Problems \cup {None}]
<1>1. Entries(pool, s, t) \subseteq Problems
  BY DEF Typed, Entries, Eligible, Live
<1>2. Revivals(s, Max({t, now}), reserved) \subseteq Problems
  BY DEF Revivals
<1>3. CASE Entries(pool, s, t) # {}
  <2>1. PICK p \in First(pool, Entries(pool, s, t), reserved, Preference(NewCount(s))) : pick = [kind |-> "new", p |-> p]
    BY <1>3 DEF Select
  <2>2. p \in Problems
    BY <1>1, <2>1 DEF First
  <2> QED BY <2>1, <2>2 DEF Kinds
<1>4. CASE Entries(pool, s, t) = {} /\ Revivals(s, Max({t, now}), reserved) # {}
  <2>1. PICK p \in Revivals(s, Max({t, now}), reserved) : pick = [kind |-> "revival", p |-> p]
    BY <1>4 DEF Select
  <2> QED BY <1>2, <2>1 DEF Kinds
<1>5. CASE Entries(pool, s, t) = {} /\ Revivals(s, Max({t, now}), reserved) = {}
  <2>1. pick = [kind |-> "missing", p |-> None]
    BY <1>5 DEF Select
  <2> QED BY <2>1 DEF Kinds
<1> QED BY <1>3, <1>4, <1>5

LEMMA PreviewFills ==
  ASSUME PublicationsIInv, TablesIInv, Preview
  PROVE  TablesIInv' /\ RoundsGoOn
<1>1. UNCHANGED <<mix, now, row, held, apps, next, rounds, req, late, since, slips, unjudged, failed>>
  BY DEF Preview
<1>2. PICK easy \in Select(Queue, "easy", next, previews["easy"]), hard \in Select(Queue, "hard", next, previews["hard"]) :
        previews' = [s \in Slots |-> [o \in Slots |-> IF o = "easy" THEN easy ELSE hard][s].p]
  BY DEF Preview
<1>3. easy.p \in Problems \cup {None} /\ hard.p \in Problems \cup {None}
  BY SelectedIsPick DEF PublicationsIInv
<1>4. previews' \in [Slots -> Problems \cup {None}]
  BY <1>2, <1>3 DEF Slots
<1>5. RestFilled'
  BY <1>1, <1>4 DEF TablesIInv, RestFilled
<1> QED BY <1>1, <1>5, StillFills

LEMMA ReleaseContestFills ==
  ASSUME PublicationsIInv, TablesIInv, ReleaseContest
  PROVE  TablesIInv' /\ RoundsGoOn
<1> DEFINE new == [p \in DOMAIN held |-> Published(row[p], held[p].draft, row[p].version + 1)]
<1>1. Write(new) /\ UNCHANGED <<mix, now, held, next, previews, rounds, req, late, since, slips, unjudged, failed>>
  BY DEF ReleaseContest
<1>2. ASSUME NEW p \in DOMAIN new PROVE RowFilled(new[p]) /\ (row[p].ever => new[p].ever)
  <2>1. p \in Problems /\ Live(p) /\ Held(p) /\ RowFilled(row[p])
    BY DEF PublicationsIInv, Typed, Live, Held, TablesIInv, RowsFilled
  <2>2. held[p].draft = row[p].draft
    BY <2>1 DEF PublicationsIInv, Sound, Copied, InStep
  <2>3. held[p].draft \in Drafts /\ row[p].version + 1 \in Nat \ {0}
    BY <2>1, <2>2 DEF RowFilled
  <2>4. new[p] = Published(row[p], held[p].draft, row[p].version + 1)
    OBVIOUS
  <2> QED BY <2>1, <2>3, <2>4, PublishedFills
<1> HIDE DEF new
<1>3. HeldFilled' /\ RestFilled' /\ (\A x \in Requests : RequestFilled(req'[x])) /\ \A p \in Problems : since'[p] >= 1
  BY <1>1 DEF TablesIInv, HeldFilled, RestFilled, RowsFilled
<1>4. RowsGoOn /\ AppsFilled'
  BY <1>1, <1>2, <1>3, WriteFills
<1> QED BY <1>1, <1>3, <1>4, TablesGoOn

LEMMA ReleaseScheduledFills ==
  ASSUME PublicationsIInv, TablesIInv, ReleaseScheduled
  PROVE  TablesIInv' /\ RoundsGoOn
<1> DEFINE new == [p \in DueRows |-> Published(row[p], row[p].sched.draft, row[p].sched.version)]
<1>1. Write(new) /\ UNCHANGED <<mix, now, held, next, previews, rounds, req, late, since, slips, unjudged, failed>>
  BY DEF ReleaseScheduled
<1>2. ASSUME NEW p \in DOMAIN new PROVE RowFilled(new[p]) /\ (row[p].ever => new[p].ever)
  <2>1. p \in Problems /\ Live(p) /\ Scheduled(p) /\ RowFilled(row[p]) /\ since[p] >= 1 /\ since[p] \in Nat
    BY DEF DueRows, Scheduled, PublicationsIInv, Typed, Live, TablesIInv, RowsFilled
  <2>2. InStep(p, row[p].sched)
    BY <2>1 DEF PublicationsIInv, Sound, Copied
  <2>3. row[p].sched.draft \in Drafts /\ row[p].sched.version \in Nat \ {0}
    BY <2>1, <2>2 DEF RowFilled, InStep
  <2>4. new[p] = Published(row[p], row[p].sched.draft, row[p].sched.version)
    OBVIOUS
  <2> QED BY <2>1, <2>3, <2>4, PublishedFills
<1> HIDE DEF new
<1>3. HeldFilled' /\ RestFilled' /\ (\A x \in Requests : RequestFilled(req'[x])) /\ \A p \in Problems : since'[p] >= 1
  BY <1>1 DEF TablesIInv, HeldFilled, RestFilled, RowsFilled
<1>4. RowsGoOn /\ AppsFilled'
  BY <1>1, <1>2, <1>3, WriteFills
<1> QED BY <1>1, <1>3, <1>4, TablesGoOn

\* A deleted problem leaves its rounds without one; what they called new stays new.
LEMMA DeleteFills ==
  ASSUME PublicationsIInv, TablesIInv, NEW p \in Problems, Delete(p)
  PROVE  TablesIInv' /\ RoundsGoOn
<1>1. /\ row' = [o \in DOMAIN row \ {p} |-> row[o]] /\ Leave({p})
      /\ previews' = [s \in Slots |-> IF previews[s] = p THEN None ELSE previews[s]]
      /\ UNCHANGED <<mix, now, held, next, req, late, since, slips, unjudged, failed>>
  BY DEF Delete
<1>2. /\ DOMAIN rounds' = DOMAIN rounds
      /\ \A t \in DOMAIN rounds : rounds'[t] \in RoundPicks /\ \A s \in Slots :
           /\ rounds'[t][s].kind = rounds[t][s].kind /\ rounds'[t][s].p \in {rounds[t][s].p, None}
           /\ rounds'[t][s].p = p => None = p
  <2>1. rounds' = [t \in DOMAIN rounds |-> [s \in Slots |-> IF rounds[t][s].p = p THEN [rounds[t][s] EXCEPT !.p = None] ELSE rounds[t][s]]]
    BY DEF Delete
  <2>2. ASSUME NEW t \in DOMAIN rounds, NEW s \in Slots
        PROVE  /\ rounds'[t][s] \in [kind : Kinds, p : Problems \cup {None}]
               /\ rounds'[t][s].kind = rounds[t][s].kind /\ rounds'[t][s].p \in {rounds[t][s].p, None}
               /\ rounds'[t][s].p = p => None = p
    <3>1. rounds[t][s] \in [kind : Kinds, p : Problems \cup {None}]
      BY DEF TablesIInv, RoundsSound, RoundPicks
    <3>2. rounds'[t][s] = IF rounds[t][s].p = p THEN [rounds[t][s] EXCEPT !.p = None] ELSE rounds[t][s]
      BY <2>1
    <3>3. /\ [rounds[t][s] EXCEPT !.p = None] \in [kind : Kinds, p : Problems \cup {None}]
          /\ [rounds[t][s] EXCEPT !.p = None].kind = rounds[t][s].kind /\ [rounds[t][s] EXCEPT !.p = None].p = None
      BY <3>1
    <3> QED BY <3>1, <3>2, <3>3
  <2>3. DOMAIN rounds' = DOMAIN rounds /\ \A t \in DOMAIN rounds : rounds'[t] = [s \in Slots |-> rounds'[t][s]]
    BY <2>1
  <2> QED BY <2>2, <2>3 DEF RoundPicks
<1>3. RowsFilled' /\ HeldFilled' /\ RestFilled' /\ \A x \in Requests : RequestFilled(req'[x])
  BY <1>1 DEF TablesIInv, RowsFilled, HeldFilled, RestFilled
<1>4. AppsFilled'
  BY <1>1, LeaveFills
<1>5. RoundsSound'
  <2>1. ASSUME NEW o \in DOMAIN row', Recorded(o)' PROVE row'[o].ever
    <3>1. PICK t \in DOMAIN rounds', s \in Slots : rounds'[t][s] = [kind |-> "new", p |-> o]
      BY <2>1 DEF Recorded
    <3>2. o # None /\ o \in DOMAIN row /\ row'[o] = row[o]
      BY <1>1, NullAssumption DEF PublicationsIInv, Typed
    <3>3. rounds[t][s].kind = "new" /\ rounds[t][s].p = o /\ t \in DOMAIN rounds
      BY <1>2, <3>1, <3>2
    <3>4. rounds[t][s] \in [kind : Kinds, p : Problems \cup {None}]
      BY <3>3 DEF TablesIInv, RoundsSound, RoundPicks
    <3>5. rounds[t][s] = [kind |-> "new", p |-> o]
      BY <3>3, <3>4
    <3> QED BY <3>2, <3>3, <3>5 DEF TablesIInv, RoundsSound, Recorded
  <2> QED BY <1>1, <1>2, <2>1 DEF TablesIInv, RoundsSound
<1>6. RoundsGoOn
  BY <1>1, <1>2 DEF TablesIInv, RoundsSound, RoundsGoOn
<1> QED BY <1>3, <1>4, <1>5, <1>6 DEF TablesIInv

-----------------------------------------------------------------------------
\* A round comes within a week.
LEMMA RoundComes ==
  ASSUME NEW t \in Nat
  PROVE  NextFeatured(t) \in Nat /\ NextFeatured(t) > t
<1> DEFINE S == {u \in (t + 1)..(t + 7) : u % 7 \in {0, 3}}
<1>1. t \div 7 \in Nat /\ t = 7 * (t \div 7) + (t % 7) /\ t % 7 \in 0..6
  OBVIOUS
<1>2. 7 * (t \div 7) + 7 \in (t + 1)..(t + 7) /\ (7 * (t \div 7) + 7) % 7 = 0
  BY <1>1
<1>3. S # {} /\ S \subseteq Nat /\ \A u \in S : u > t
  <2>1. PICK u : u = 7 * (t \div 7) + 7
    OBVIOUS
  <2>2. u \in (t + 1)..(t + 7) /\ u % 7 \in {0, 3}
    BY <1>2, <2>1
  <2>3. \A v \in (t + 1)..(t + 7) : v \in Nat /\ v > t
    OBVIOUS
  <2> QED BY <2>2, <2>3
<1>4. NextFeatured(t) = Min(S)
  BY DEF NextFeatured
<1> HIDE DEF S
<1>5. Min(S) \in S
  BY <1>3, MinFacts
<1> QED BY <1>3, <1>4, <1>5

\* The rounds that are due are those up to the last of them.
LEMMA DueFacts ==
  ASSUME TablesIInv, now \in Nat
  PROVE  /\ DueRounds \subseteq Nat /\ \A t \in DueRounds : next <= t /\ t <= now
         /\ DueRounds # {} => Max(DueRounds) \in DueRounds /\ \A t \in DueRounds : t <= Max(DueRounds)
<1>1. DueRounds \subseteq Nat /\ \A t \in DueRounds : next <= t /\ t <= now
  BY DEF TablesIInv, RoundsSound, DueRounds
<1> QED BY <1>1, MaxFacts

\* What a round's release writes: picks of the queue that were never public, on days that were due.
RoundWrites(pick, new) ==
  /\ DueRounds # {} /\ UNCHANGED failed
  /\ \A s \in Slots : pick[s].kind = "new" => pick[s].p \in new
  /\ \A p \in new : ~row[p].ever
  /\ Store([p \in new |-> Published(row[p], row[p].draft, row[p].version + 1)]) /\ Leave(new)
  /\ DOMAIN rounds' = DueRounds \cup DOMAIN rounds
  /\ \A t \in DOMAIN rounds \ DueRounds : rounds'[t] = rounds[t]
  /\ \A t \in DueRounds : rounds'[t] \in {pick, [s \in Slots |-> Missing]}
  /\ next' = NextFeatured(Max(DueRounds)) /\ previews' = [s \in Slots |-> None]

LEMMA RoundFacts ==
  ASSUME PublicationsIInv, TablesIInv, NEW r \in Requests, FeaturedCommit(r)
  PROVE  /\ Done(r) /\ UNCHANGED <<held, since, slips, unjudged>>
         /\ \/ UNCHANGED <<row, apps, next, previews, rounds, failed>>
            \/ \E pick \in RoundPicks, new \in SUBSET DOMAIN row : RoundWrites(pick, new)
<1> DEFINE due == DueRounds
           open == {t \in due : now < t + Window}
           Picks(s) == IF open = {} THEN {Missing}
                       ELSE LET t == Max(open) IN Select(req[r].pool, s, t, IF t = next THEN previews[s] ELSE None)
<1>1. \A s \in Slots : \A c \in Picks(s) :
        c \in [kind : Kinds, p : Problems \cup {None}] /\ (c.kind = "new" => Eligible(c.p))
  <2> SUFFICES ASSUME NEW s \in Slots, NEW c \in Picks(s)
               PROVE  c \in [kind : Kinds, p : Problems \cup {None}] /\ (c.kind = "new" => Eligible(c.p))
    OBVIOUS
  <2>1. CASE open = {}
    BY <2>1 DEF Missing, Kinds
  <2>2. CASE open # {}
    <3>1. c \in Select(req[r].pool, s, Max(open), IF Max(open) = next THEN previews[s] ELSE None)
      BY <2>2
    <3> QED BY <3>1, SelectedIsEligible, SelectedIsPick DEF PublicationsIInv
  <2> QED BY <2>1, <2>2
<1>2. PICK easy \in Picks("easy"), hard \in Picks("hard") :
        LET pick == [s \in Slots |-> IF s = "easy" THEN easy ELSE hard]
            new == {pick[s].p : s \in {o \in Slots : pick[o].kind = "new"}} IN
        IF due = {} THEN UNCHANGED <<row, apps, plan, next, previews, rounds, failed>>
        ELSE IF \E p \in new : Recorded(p) THEN failed' = TRUE /\ UNCHANGED <<row, apps, plan, next, previews, rounds>>
        ELSE /\ Store([p \in new |-> Published(row[p], row[p].draft, row[p].version + 1)]) /\ Leave(new)
             /\ rounds' = [t \in due \cup DOMAIN rounds |->
                             IF t \in open THEN pick ELSE IF t \in due THEN [s \in Slots |-> Missing] ELSE rounds[t]]
             /\ next' = NextFeatured(Max(due)) /\ previews' = [s \in Slots |-> None]
             /\ UNCHANGED failed
  BY DEF FeaturedCommit
<1> DEFINE pick == [s \in Slots |-> IF s = "easy" THEN easy ELSE hard]
           new == {pick[s].p : s \in {o \in Slots : pick[o].kind = "new"}}
<1>3. \A s \in Slots : pick[s] \in Picks(s)
  BY <1>2 DEF Slots
<1>4. pick \in RoundPicks /\ \A p \in new : Eligible(p)
  <2> HIDE DEF Picks
  <2> QED BY <1>1, <1>3 DEF RoundPicks
<1>5. \A s \in Slots : pick[s].kind = "new" => pick[s].p \in new
  <2> HIDE DEF pick
  <2> QED OBVIOUS
<1> HIDE DEF Picks
<1>6. Done(r) /\ UNCHANGED <<held, since, slips, unjudged>>
  BY DEF FeaturedCommit
<1>7. \A p \in new : p \in DOMAIN row /\ ~row[p].ever /\ ~Recorded(p)
  BY <1>4 DEF Eligible, Live, TablesIInv, RoundsSound
<1>8. \/ UNCHANGED <<row, apps, next, previews, rounds, failed>>
      \/ /\ due # {} /\ UNCHANGED failed
         /\ Store([p \in new |-> Published(row[p], row[p].draft, row[p].version + 1)]) /\ Leave(new)
         /\ rounds' = [t \in due \cup DOMAIN rounds |->
                         IF t \in open THEN pick ELSE IF t \in due THEN [s \in Slots |-> Missing] ELSE rounds[t]]
         /\ next' = NextFeatured(Max(due)) /\ previews' = [s \in Slots |-> None]
  BY <1>2, <1>7
<1> HIDE DEF pick, new, open
<1>9. new \in SUBSET DOMAIN row
  BY <1>7
<1>10. CASE UNCHANGED <<row, apps, next, previews, rounds, failed>>
  BY <1>6, <1>10
<1>11. CASE ~UNCHANGED <<row, apps, next, previews, rounds, failed>>
  <2>1. /\ due # {} /\ UNCHANGED failed
        /\ Store([p \in new |-> Published(row[p], row[p].draft, row[p].version + 1)]) /\ Leave(new)
        /\ rounds' = [t \in due \cup DOMAIN rounds |->
                        IF t \in open THEN pick ELSE IF t \in due THEN [s \in Slots |-> Missing] ELSE rounds[t]]
        /\ next' = NextFeatured(Max(due)) /\ previews' = [s \in Slots |-> None]
    BY <1>8, <1>11
  <2>2. open \subseteq due
    BY DEF open
  <2>3. /\ DOMAIN rounds' = due \cup DOMAIN rounds
        /\ \A t \in DOMAIN rounds \ due : rounds'[t] = rounds[t]
        /\ \A t \in due : rounds'[t] \in {pick, [s \in Slots |-> Missing]}
    BY <2>1, <2>2
  <2>4. RoundWrites(pick, new)
    BY <1>5, <1>7, <2>1, <2>3 DEF RoundWrites
  <2> QED BY <1>4, <1>6, <1>9, <2>4
<1> QED BY <1>10, <1>11

LEMMA FeaturedCommitFills ==
  ASSUME PublicationsIInv, TablesIInv, NEW r \in Requests, FeaturedCommit(r), UNCHANGED <<mix, now>>, late' \subseteq late
  PROVE  TablesIInv' /\ RoundsGoOn
<1>1. Done(r) /\ UNCHANGED <<held, since, slips, unjudged>>
  BY RoundFacts
<1>2. RequestFilled(Idle) /\ (slips \cup unjudged)' \subseteq Problems
  BY <1>1 DEF RequestFilled, Idle, TablesIInv, RestFilled
<1>3. CASE UNCHANGED <<row, apps, next, previews, rounds, failed>>
  BY <1>1, <1>2, <1>3, UnwrittenFills, TransactionFills DEF Done
<1>4. ASSUME NEW pick \in RoundPicks, NEW new \in SUBSET DOMAIN row, RoundWrites(pick, new)
      PROVE  TablesIInv' /\ RoundsGoOn
  <2>0. /\ DueRounds # {} /\ UNCHANGED failed
        /\ \A s \in Slots : pick[s].kind = "new" => pick[s].p \in new
        /\ \A p \in new : ~row[p].ever
        /\ Store([p \in new |-> Published(row[p], row[p].draft, row[p].version + 1)]) /\ Leave(new)
        /\ DOMAIN rounds' = DueRounds \cup DOMAIN rounds
        /\ \A t \in DOMAIN rounds \ DueRounds : rounds'[t] = rounds[t]
        /\ \A t \in DueRounds : rounds'[t] \in {pick, [s \in Slots |-> Missing]}
        /\ next' = NextFeatured(Max(DueRounds)) /\ previews' = [s \in Slots |-> None]
    BY <1>4 DEF RoundWrites
  <2>1. now \in Nat /\ next \in Nat /\ RoundsSound
    BY DEF PublicationsIInv, Typed, TablesIInv, RoundsSound
  <2>2. /\ DueRounds \subseteq Nat /\ (\A t \in DueRounds : next <= t /\ t <= now)
        /\ Max(DueRounds) \in DueRounds /\ \A t \in DueRounds : t <= Max(DueRounds)
    BY <2>0, <2>1, DueFacts
  <2>3. next' \in Nat /\ next' > Max(DueRounds)
    BY <2>0, <2>2, RoundComes
  <2>4. next' >= next /\ \A t \in DOMAIN rounds' : t \in Nat /\ t < next' /\ t <= now
    BY <2>0, <2>1, <2>2, <2>3 DEF RoundsSound
  <2>5. DOMAIN rounds \cap DueRounds = {}
    BY <2>1, <2>2 DEF RoundsSound
  <2>6. /\ DOMAIN row' = DOMAIN row /\ \A p \in DOMAIN row : p \notin new => row'[p] = row[p]
        /\ \A p \in new : RowFilled(row'[p]) /\ row'[p].ever
    <3>1. \A p \in new : RowFilled(row[p]) /\ row[p].draft \in Drafts /\ row[p].version + 1 \in Nat \ {0}
      BY DEF TablesIInv, RowsFilled, RowFilled
    <3>2. \A p \in new : row'[p] = Published(row[p], row[p].draft, row[p].version + 1)
      BY <2>0 DEF Store
    <3> QED BY <2>0, <3>1, <3>2, PublishedFills DEF Store
  <2>7. RowsFilled' /\ RowsGoOn
    BY <1>1, <2>6 DEF RowsFilled, RowsGoOn, TablesIInv
  <2>8. AppsFilled' /\ HeldFilled'
    BY <1>1, <2>0, LeaveFills DEF TablesIInv, HeldFilled
  <2>9. RestFilled'
    BY <1>2, <2>0 DEF TablesIInv, RestFilled
  <2>10. \A x \in Requests : RequestFilled(req'[x])
    BY <1>1, <1>2 DEF Done, TablesIInv, PublicationsIInv, Typed
  <2>11. [s \in Slots |-> Missing] \in RoundPicks /\ Missing.kind # "new"
    BY DEF RoundPicks, Missing, Kinds
  <2>12. \A t \in DOMAIN rounds' : rounds'[t] \in RoundPicks
    BY <2>0, <2>1, <2>11 DEF RoundsSound
  <2>13. ASSUME NEW t \in DueRounds, NEW s \in Slots, rounds'[t][s].kind = "new"
         PROVE  rounds'[t][s].p \in new
    BY <2>0, <2>11, <2>13
  <2>14. ASSUME NEW p \in DOMAIN row', Recorded(p)' PROVE row'[p].ever
    <3>1. PICK t \in DOMAIN rounds', s \in Slots : rounds'[t][s] = [kind |-> "new", p |-> p]
      BY <2>14 DEF Recorded
    <3>2. CASE t \in DueRounds
      BY <2>6, <2>13, <3>1, <3>2
    <3>3. CASE t \notin DueRounds
      BY <2>0, <2>1, <2>7, <2>14, <3>1, <3>3 DEF RoundsSound, Recorded, RowsGoOn
    <3> QED BY <3>2, <3>3
  <2>15. RoundsSound'
    BY <2>0, <2>1, <2>3, <2>4, <2>12, <2>14 DEF RoundsSound
  <2>16. RoundsGoOn
    <3>1. \A t \in DOMAIN rounds' \ DOMAIN rounds, s \in Slots : rounds'[t][s].kind = "new" => ~row[rounds'[t][s].p].ever
      BY <2>0, <2>13
    <3>2. \A t \in DOMAIN rounds : t \in DOMAIN rounds' /\ rounds'[t] = rounds[t]
      BY <2>0, <2>5
    <3>3. ~failed'
      BY <2>0, <2>1 DEF RoundsSound
    <3> QED BY <2>4, <3>1, <3>2, <3>3 DEF RoundsGoOn
  <2> QED BY <2>7, <2>8, <2>9, <2>10, <2>15, <2>16 DEF TablesIInv
<1> QED BY <1>3, <1>4, RoundFacts

-----------------------------------------------------------------------------
LEMMA TablesStart ==
  ASSUME Init
  PROVE  TablesIInv
<1>1. PICK d \in mix.first :
        /\ mix \in Mixes /\ now = mix.from /\ apps \in mix.waiting /\ failed = FALSE /\ slips = {} /\ unjudged = {} /\ held = <<>> /\ rounds = <<>>
        /\ row = [p \in mix.problems |-> [draft |-> d, version |-> 1, pub |-> None, sched |-> None, ever |-> FALSE]]
        /\ since = [p \in Problems |-> 1] /\ next = NextFeatured(now) /\ previews = [s \in Slots |-> None]
        /\ req = [r \in Requests |-> Idle] /\ late = {}
  BY DEF Init
<1>2. now \in 0..mix.days /\ now \in Nat /\ next \in Nat
  <2>1. now \in 0..mix.days /\ mix.days \in Nat
    BY <1>1, BoundAssumption
  <2>2. now \in Nat
    BY <2>1
  <2> QED BY <1>1, <2>1, <2>2, RoundComes
<1>3. d \in Drafts
  BY <1>1 DEF Drafts
<1>4. RowsFilled
  <2>1. ASSUME NEW p \in DOMAIN row PROVE RowFilled(row[p])
    <3>1. row[p] = [draft |-> d, version |-> 1, pub |-> None, sched |-> None, ever |-> FALSE]
      BY <1>1
    <3> QED BY <1>3, <3>1 DEF RowFilled
  <2>2. \A p \in Problems : since[p] >= 1
    BY <1>1
  <2> QED BY <2>1, <2>2 DEF RowsFilled
<1>5. HeldFilled /\ DOMAIN rounds = {}
  BY <1>1 DEF HeldFilled
<1>6. AppsFilled
  BY <1>1, WaitingAssumption DEF AppsFilled
<1>7. RestFilled
  BY <1>1, <1>2 DEF RestFilled
<1>8. RoundsSound
  BY <1>1, <1>2, <1>5 DEF RoundsSound, Recorded
<1>9. \A x \in Requests : RequestFilled(req[x])
  BY <1>1 DEF RequestFilled, Idle
<1> QED BY <1>4, <1>5, <1>6, <1>7, <1>8, <1>9 DEF TablesIInv

LEMMA TablesNext ==
  ASSUME PublicationsIInv, TablesIInv, [Next]_vars
  PROVE  TablesIInv' /\ (RoundsGoOn \/ UNCHANGED vars)
<1>1. ASSUME NEW r \in Requests, Transaction(r) PROVE TablesIInv' /\ RoundsGoOn
  <2>1. UNCHANGED <<mix, now>> /\ late' \subseteq late
    BY <1>1 DEF Transaction
  <2>2. CASE Arrive(r)
    BY <2>1, <2>2, ArriveFills
  <2>3. CASE Commit(r)
    <3>1. CASE SaveCheck(r) \/ SaveCommit(r) \/ ContestCommit(r)
      BY <2>1, <3>1, SaveCheckFills, SaveCommitFills, ContestCommitFills
    <3>2. CASE PublishCommit(r) \/ ScheduleCommit(r) \/ ApplyCommit(r)
      BY <2>1, <3>2, PublishCommitFills, ScheduleCommitFills, ApplyCommitFills
    <3>3. CASE FeaturedLock(r) \/ FeaturedCommit(r)
      BY <2>1, <3>3, QuietCommitFills, FeaturedCommitFills
    <3> QED BY <2>3, <3>1, <3>2, <3>3 DEF Commit
  <2>4. CASE Abort(r)
    BY <2>1, <2>4, QuietCommitFills
  <2> QED BY <1>1, <2>2, <2>3, <2>4 DEF Transaction
<1>2. ASSUME NEW p \in Problems, Submit(p) \/ Withdraw(p) \/ Delete(p) PROVE TablesIInv' /\ RoundsGoOn
  BY <1>2, SubmitFills, WithdrawFills, DeleteFills
<1>3. CASE ReleaseContest \/ ReleaseScheduled \/ Preview \/ Tick
  BY <1>3, ReleaseContestFills, ReleaseScheduledFills, PreviewFills, TickFills
<1>4. CASE UNCHANGED vars
  <2>1. UNCHANGED <<mix, now, row, held, apps, next, previews, rounds, req, late, since, slips, unjudged, failed>>
    BY <1>4 DEF vars, tables, history
  <2>2. RestFilled'
    BY <2>1 DEF TablesIInv, RestFilled
  <2> QED BY <1>4, <2>1, <2>2, StillFills
<1> QED BY <1>1, <1>2, <1>3, <1>4 DEF Next

\* The tables hold what their columns allow, the rounds recorded are past, and whatever a round
\* called new has been public.
THEOREM TablesInvariance == Spec => [](PublicationsIInv /\ TablesIInv)
<1>1. Init => PublicationsIInv /\ TablesIInv
  BY PublicationsStart, TablesStart
<1>2. PublicationsIInv /\ TablesIInv /\ [Next]_vars => (PublicationsIInv /\ TablesIInv)'
  BY PublicationsNext, TablesNext
<1> QED BY <1>1, <1>2, PTL DEF Spec

\* Every variable keeps its type: drafts and copies are of what was saved, points are positive
\* numbers, and what a round, a preview or an application names is a problem.
THEOREM PublicationsAreTyped == Spec => []TypeOK
<1>1. ASSUME PublicationsIInv, TablesIInv PROVE TypeOK
  <2>1. mix \in Mixes /\ now \in 0..mix.days /\ next \in Nat /\ failed \in BOOLEAN /\ slips \cup unjudged \subseteq Problems
    BY <1>1 DEF TablesIInv, RestFilled, RoundsSound
  <2>2. ASSUME NEW p \in Problems
        PROVE  /\ Live(p) => row[p].draft \in Drafts /\ row[p].version \in Nat \ {0} /\ row[p].ever \in BOOLEAN
               /\ Public(p) => row[p].pub \in Copy
               /\ Held(p) => held[p].points \in Nat \ {0}
    BY <1>1 DEF TablesIInv, RowsFilled, RowFilled, HeldFilled, Live, Public, Held
  <2>3. contest \in {None} \cup Contests /\ DOMAIN apps \subseteq Problems
    BY <1>1 DEF PublicationsIInv, Typed
  <2>4. late \subseteq Requests /\ previews \in [Slots -> Problems \cup {None}]
    BY <1>1 DEF TablesIInv, RestFilled
  <2>5. \A p \in DOMAIN apps : apps[p].pref \in {"soon", "later"} /\ apps[p].ahead \subseteq DOMAIN apps \ {p}
    BY <1>1 DEF TablesIInv, AppsFilled
  <2>6. \A t \in DOMAIN rounds : rounds[t] \in [Slots -> [kind : {"new", "revival", "missing"}, p : Problems \cup {None}]]
    BY <1>1 DEF TablesIInv, RoundsSound, RoundPicks, Kinds
  <2> QED BY <2>1, <2>2, <2>3, <2>4, <2>5, <2>6 DEF TypeOK
<1> QED BY <1>1, TablesInvariance, PTL

\* A round is recorded once, when it is due, stays but for a deleted problem, calls nothing new that
\* was public, and no release breaks a constraint of its tables, whatever overlapped it.
THEOREM RoundsAlwaysStay == Spec => RoundsStay
<1>1. PublicationsIInv /\ TablesIInv /\ [Next]_vars => [RoundsGoOn]_vars
  BY TablesNext
<1> QED BY <1>1, TablesInvariance, PTL DEF Spec, RoundsStay

-----------------------------------------------------------------------------
\* What AnnouncedIsDelivered rests on.  The order of entry is one, no application is from the
\* future, and an open release holds the schedule and read the queue the plan was made of.
EntriesSound ==
  /\ \A p \in DOMAIN apps : apps[p].at \in 0..now
  /\ \A p, o \in DOMAIN apps : p \in apps[o].ahead => o \notin apps[p].ahead

ReleaseKnows(q) ==
  q.kind = "featured" => /\ Schedule \in q.locks /\ (\A p \in DOMAIN q.pool : q.pool[p].at \in 0..now)
                         /\ (plan # <<>> => q.pool = Queue)

\* Each problem of the plan shown is the one the selection picks when those planned before it are
\* gone and counted.
Waits(s)       == {p \in DOMAIN Queue : InSlot(p, s)}
Gone(s, i)     == {plan[j][s] : j \in 1..(i - 1)}
Given(s, i)    == {j \in 1..(i - 1) : plan[j][s] # None}
Expected(s, i) ==
  IF i = 1 /\ previews[s] \in Waits(s) THEN previews[s]
  ELSE Soonest(Waits(s) \ Gone(s, i), Preference(NewCount(s) + Cardinality(Given(s, i))))
PlanSound == /\ plan \in Seq(ToSet(plan))
             /\ \A i \in 1..Len(plan), s \in Slots : plan[i][s] = Expected(s, i)

AnnouncedIInv == EntriesSound /\ (\A x \in Requests : ReleaseKnows(req[x])) /\ PlanSound

-----------------------------------------------------------------------------
\* The selection and the plan agree on who is first.
LEMMA QueueFacts ==
  ASSUME PublicationsIInv
  PROVE  /\ DOMAIN Queue \subseteq DOMAIN apps /\ DOMAIN Queue \subseteq Problems /\ None \notin DOMAIN Queue
         /\ \A p \in DOMAIN Queue : Queue[p] = apps[p] /\ Eligible(p)
<1>1. DOMAIN apps \subseteq DOMAIN row /\ DOMAIN row \subseteq Problems
  BY DEF PublicationsIInv, Typed
<1>2. DOMAIN Queue = {o \in DOMAIN apps : ~row[o].ever /\ ~Held(o)} /\ \A p \in DOMAIN Queue : Queue[p] = apps[p]
  BY DEF Queue
<1> QED BY <1>1, <1>2, NullAssumption DEF Eligible, Live, Applied

\* At the hour of a round everyone in the queue has entered it.
LEMMA EntriesWait ==
  ASSUME PublicationsIInv, EntriesSound, NEW s, NEW t \in Nat, now <= t
  PROVE  Entries(Queue, s, t) = Waits(s)
<1>1. now \in Nat
  BY DEF PublicationsIInv, Typed
<1>2. \A p \in DOMAIN Queue : Eligible(p) /\ Queue[p].at <= t
  BY <1>1, QueueFacts DEF EntriesSound
<1> QED BY <1>2 DEF Entries, Waits

LEMMA FirstKept ==
  ASSUME NEW pool, NEW S, NEW reserved \in S, NEW pref
  PROVE  First(pool, S, reserved, pref) \subseteq {reserved}
BY DEF First, Before

LEMMA FirstUnreserved ==
  ASSUME NEW pool, NEW S, NEW reserved, reserved \notin S, None \notin S, NEW pref
  PROVE  First(pool, S, reserved, pref) = First(pool, S, None, pref)
BY DEF First, Before

LEMMA FirstIsOne ==
  ASSUME PublicationsIInv, EntriesSound, NEW S, S \subseteq DOMAIN Queue, NEW pref,
         NEW p \in First(Queue, S, None, pref)
  PROVE  Soonest(S, pref) = p
<1>1. p \in S /\ None \notin S
  BY QueueFacts DEF First
<1>2. ASSUME NEW o \in First(Queue, S, None, pref), o # p PROVE FALSE
  <2>1. o \in S /\ p # None /\ o # None
    BY <1>1, <1>2 DEF First
  <2>2. Before(Queue, p, o, None, pref) /\ Before(Queue, o, p, None, pref)
    BY <1>1, <1>2, <2>1 DEF First
  <2>3. p \in Queue[o].ahead /\ o \in Queue[p].ahead
    BY <2>1, <2>2 DEF Before
  <2>4. p \in apps[o].ahead /\ o \in apps[p].ahead /\ p \in DOMAIN apps /\ o \in DOMAIN apps
    BY <1>1, <2>1, <2>3, QueueFacts
  <2> QED BY <2>4 DEF EntriesSound
<1>3. (CHOOSE o \in First(Queue, S, None, pref) : TRUE) = p
  BY <1>2
<1> QED BY <1>1, <1>3 DEF Soonest

\* What the selection takes with the announced problem kept is what the plan expects.
LEMMA SelectedIsExpected ==
  ASSUME PublicationsIInv, EntriesSound, NEW s \in Slots, NEW t \in Nat, now <= t,
         NEW new \in Select(Queue, s, t, previews[s])
  PROVE  /\ (new.kind = "new") <=> (Waits(s) # {})
         /\ Waits(s) # {} => new.p \in Waits(s)
         /\ (IF new.kind = "new" THEN new.p ELSE None) =
              IF previews[s] \in Waits(s) THEN previews[s] ELSE Soonest(Waits(s), Preference(NewCount(s)))
<1>1. Entries(Queue, s, t) = Waits(s)
  BY EntriesWait
<1>2. CASE Waits(s) = {}
  <2>1. new.kind # "new"
    BY <1>1, <1>2 DEF Select
  <2>2. Soonest(Waits(s), Preference(NewCount(s))) = None
    BY <1>2 DEF Soonest
  <2> QED BY <1>2, <2>1, <2>2
<1>3. CASE Waits(s) # {}
  <2>1. PICK p \in First(Queue, Waits(s), previews[s], Preference(NewCount(s))) : new = [kind |-> "new", p |-> p]
    BY <1>1, <1>3 DEF Select
  <2>2. p \in Waits(s) /\ Waits(s) \subseteq DOMAIN Queue /\ None \notin Waits(s)
    BY <2>1, QueueFacts DEF First, Waits
  <2>3. CASE previews[s] \in Waits(s)
    BY <1>3, <2>1, <2>2, <2>3, FirstKept
  <2>4. CASE previews[s] \notin Waits(s)
    <3>1. p \in First(Queue, Waits(s), None, Preference(NewCount(s)))
      BY <2>1, <2>2, <2>4, FirstUnreserved
    <3>2. Soonest(Waits(s), Preference(NewCount(s))) = p
      BY <2>2, <3>1, FirstIsOne
    <3> QED BY <1>3, <2>1, <2>2, <2>4, <3>2
  <2> QED BY <2>3, <2>4
<1> QED BY <1>2, <1>3

\* Nothing goes before the plan's first round.
LEMMA ExpectedFirst ==
  ASSUME NEW s
  PROVE  Expected(s, 1) = IF previews[s] \in Waits(s) THEN previews[s] ELSE Soonest(Waits(s), Preference(NewCount(s) + 0))
<1>1. 1..(1 - 1) = {}
  OBVIOUS
<1>2. Gone(s, 1) = {} /\ Given(s, 1) = {}
  BY <1>1 DEF Gone, Given
<1>3. Waits(s) \ Gone(s, 1) = Waits(s) /\ Cardinality(Given(s, 1)) = 0
  BY <1>2, FS_EmptySet
<1> QED BY <1>3 DEF Expected

LEMMA CountIsNatural ==
  ASSUME TablesIInv, NEW s
  PROVE  NewCount(s) \in Nat /\ IsFiniteSet(DOMAIN rounds) /\ next \notin DOMAIN rounds
<1>1. next \in Nat /\ DOMAIN rounds \subseteq Nat /\ \A t \in DOMAIN rounds : t < next
  BY DEF TablesIInv, RoundsSound
<1>2. DOMAIN rounds \in SUBSET (0..next) /\ next \notin DOMAIN rounds
  BY <1>1
<1>3. IsFiniteSet(0..next)
  BY <1>1, FS_Interval
<1>4. IsFiniteSet(DOMAIN rounds)
  BY <1>2, <1>3, FS_Subset
<1>5. {t \in DOMAIN rounds : rounds[t][s].kind = "new"} \in SUBSET DOMAIN rounds
  OBVIOUS
<1>6. IsFiniteSet({t \in DOMAIN rounds : rounds[t][s].kind = "new"})
  BY <1>4, <1>5, FS_Subset
<1> QED BY <1>2, <1>4, <1>6, FS_CardinalityType DEF NewCount

-----------------------------------------------------------------------------
\* The plan's recursion: its state before each round, and the problem it names.
Names(b, i, picks, s) ==
  IF i = 1 /\ picks[s].kind = "new" THEN picks[s].p ELSE NextEntry(b.queue, b.t, Preference(b.count))
Beyond(b, e) ==
  [queue |-> b.queue \ {e}, t |-> NextFeatured(b.t), count |-> b.count + IF e = None THEN 0 ELSE 1, out |-> Append(b.out, e)]
Steps(f, n, picks, s) ==
  f = [i \in 0..n |-> IF i = 0 THEN [queue |-> Waits(s), t |-> next, count |-> NewCount(s), out |-> <<>>]
                      ELSE Beyond(f[i - 1], Names(f[i - 1], i, picks, s))]

LEMMA StepsExist ==
  ASSUME NEW picks, NEW s, NEW n \in Nat
  PROVE  \E f : Steps(f, n, picks, s)
<1> DEFINE Lacking == {m \in Nat : ~\E f : Steps(f, m, picks, s)}
           Base == [queue |-> Waits(s), t |-> next, count |-> NewCount(s), out |-> <<>>]
           After(f, i) == Beyond(f[i - 1], Names(f[i - 1], i, picks, s))
<1> HIDE DEF Base
<1>0. \A f, m : Steps(f, m, picks, s) <=> f = [i \in 0..m |-> IF i = 0 THEN Base ELSE After(f, i)]
  BY DEF Steps, Base
<1> HIDE DEF After
<1> SUFFICES ASSUME Lacking # {} PROVE FALSE
  OBVIOUS
<1>1. PICK m \in Lacking : \A k \in Lacking : m <= k
  BY Least
<1>2. CASE m = 0
  <2> DEFINE g == [i \in 0..0 |-> Base]
  <2>1. g = [i \in 0..0 |-> IF i = 0 THEN Base ELSE After(g, i)]
    BY DEF g
  <2> HIDE DEF g
  <2>2. Steps(g, 0, picks, s)
    BY <1>0, <2>1
  <2> QED BY <1>1, <1>2, <2>2
<1>3. CASE m # 0
  <2>1. m \in Nat /\ m - 1 \in Nat /\ m - 1 \notin Lacking
    BY <1>1, <1>3
  <2>2. PICK f : Steps(f, m - 1, picks, s)
    BY <2>1
  <2>3. f = [i \in 0..(m - 1) |-> IF i = 0 THEN Base ELSE After(f, i)]
    BY <1>0, <2>2
  <2> DEFINE g == [i \in 0..m |-> IF i = m THEN After(f, m) ELSE f[i]]
  <2>4. ASSUME NEW i \in 0..m PROVE g[i] = IF i = 0 THEN Base ELSE After(g, i)
    <3>1. i = 0 => g[0] = f[0] /\ f[0] = Base
      BY <1>3, <2>1, <2>3
    <3>2. i # 0 => i - 1 \in 0..(m - 1) /\ g[i - 1] = f[i - 1]
      BY <2>1
    <3>3. i # 0 => After(g, i) = After(f, i)
      BY <3>2 DEF After
    <3>4. i # 0 /\ i # m => i \in 0..(m - 1) /\ g[i] = f[i] /\ f[i] = After(f, i)
      BY <2>1, <2>3
    <3>5. i = m => g[i] = After(f, i)
      OBVIOUS
    <3> HIDE DEF g
    <3> QED BY <3>1, <3>3, <3>4, <3>5
  <2>5. g = [i \in 0..m |-> g[i]]
    OBVIOUS
  <2> HIDE DEF g
  <2>6. g = [i \in 0..m |-> IF i = 0 THEN Base ELSE After(g, i)]
    BY <2>4, <2>5
  <2>7. Steps(g, m, picks, s)
    BY <1>0, <2>6
  <2> QED BY <1>1, <2>7
<1> QED BY <1>2, <1>3

\* The first i problems of a plan, and those of its first i rounds that have one.
NamedBy(o, i) == {o[j] : j \in 1..i}
GivenBy(o, i) == {j \in 1..i : o[j] # None}

\* The state before round i + 1 is the queue without the first i problems, and their count.
PlanState(b, i, s, T) ==
  /\ b.out \in Seq(T) /\ Len(b.out) = i /\ b.t \in Nat /\ next <= b.t
  /\ b.queue = Waits(s) \ NamedBy(b.out, i)
  /\ b.count = NewCount(s) + Cardinality(GivenBy(b.out, i))

LEMMA CountedOn ==
  ASSUME NEW i \in Nat, NEW o, NEW e, NEW q, \A j \in 1..i : q[j] = o[j], q[i + 1] = e
  PROVE  /\ NamedBy(q, i + 1) = NamedBy(o, i) \cup {e}
         /\ Cardinality(GivenBy(q, i + 1)) = Cardinality(GivenBy(o, i)) + IF e = None THEN 0 ELSE 1
         /\ Cardinality(GivenBy(o, i)) \in Nat
<1> DEFINE A == GivenBy(o, i)
           B == GivenBy(q, i + 1)
<1>1. 1..(i + 1) = (1..i) \cup {i + 1} /\ i + 1 \notin 1..i
  OBVIOUS
<1>2. NamedBy(q, i + 1) = NamedBy(o, i) \cup {e}
  BY <1>1 DEF NamedBy
<1>3. IsFiniteSet(A) /\ i + 1 \notin A
  <2>1. IsFiniteSet(1..i)
    <3>1. 1 \in Int /\ i \in Int
      OBVIOUS
    <3> HIDE DEF A, B
    <3> QED BY ONLY <3>1, FS_Interval
  <2>2. A \in SUBSET (1..i)
    BY Zenon DEF GivenBy
  <2> QED BY <1>1, <2>1, <2>2, FS_Subset
<1>4. B = IF e = None THEN A ELSE A \cup {i + 1}
  BY <1>1 DEF GivenBy
<1> HIDE DEF A, B
<1>5. Cardinality(A) \in Nat /\ Cardinality(A \cup {i + 1}) = Cardinality(A) + 1
  BY <1>3, FS_CardinalityType, FS_AddElement
<1>6. Cardinality(B) = Cardinality(A) + IF e = None THEN 0 ELSE 1
  BY <1>4, <1>5
<1> QED BY <1>2, <1>5, <1>6 DEF A, B

\* One round of the plan.
LEMMA PlanGoesOn ==
  ASSUME TablesIInv, NEW s, NEW i \in Nat, NEW b, NEW T, PlanState(b, i, s, T), NEW e \in T
  PROVE  PlanState(Beyond(b, e), i + 1, s, T) /\ (\A j \in 1..i : Beyond(b, e).out[j] = b.out[j]) /\ Beyond(b, e).out[i + 1] = e
<1> DEFINE c == Beyond(b, e)
<1>1. /\ b.out \in Seq(T) /\ Len(b.out) = i /\ b.t \in Nat /\ next <= b.t
      /\ b.queue = Waits(s) \ NamedBy(b.out, i)
      /\ b.count = NewCount(s) + Cardinality(GivenBy(b.out, i))
  BY DEF PlanState
<1>2. /\ c.queue = b.queue \ {e} /\ c.t = NextFeatured(b.t) /\ c.out = Append(b.out, e)
      /\ c.count = b.count + IF e = None THEN 0 ELSE 1
  BY DEF Beyond
<1> HIDE DEF c
<1>3. c.out \in Seq(T) /\ Len(c.out) = i + 1 /\ (\A j \in 1..i : c.out[j] = b.out[j]) /\ c.out[i + 1] = e
  BY <1>1, <1>2
<1>4. next \in Nat /\ c.t \in Nat /\ next <= c.t
  <2>1. next \in Nat
    BY DEF TablesIInv, RoundsSound
  <2>2. NextFeatured(b.t) \in Nat /\ NextFeatured(b.t) > b.t
    BY <1>1, RoundComes
  <2> QED BY <1>1, <1>2, <2>1, <2>2
<1>5. /\ NamedBy(c.out, i + 1) = NamedBy(b.out, i) \cup {e}
      /\ Cardinality(GivenBy(c.out, i + 1)) = Cardinality(GivenBy(b.out, i)) + IF e = None THEN 0 ELSE 1
      /\ Cardinality(GivenBy(b.out, i)) \in Nat
  <2>1. PICK o, q : o = b.out /\ q = c.out
    OBVIOUS
  <2>2. \A j \in 1..i : q[j] = o[j]
    BY <1>3, <2>1
  <2>3. q[i + 1] = e
    BY <1>3, <2>1
  <2>4. /\ NamedBy(q, i + 1) = NamedBy(o, i) \cup {e}
        /\ Cardinality(GivenBy(q, i + 1)) = Cardinality(GivenBy(o, i)) + IF e = None THEN 0 ELSE 1
        /\ Cardinality(GivenBy(o, i)) \in Nat
    BY <2>2, <2>3, CountedOn
  <2> QED BY <2>1, <2>4
<1>6. c.queue = Waits(s) \ NamedBy(c.out, i + 1)
  BY <1>1, <1>2, <1>5
<1>7. NewCount(s) \in Nat
  BY CountIsNatural
<1>8. c.count = NewCount(s) + Cardinality(GivenBy(c.out, i + 1))
  <2>1. PICK n, k, m : n = NewCount(s) /\ k = Cardinality(GivenBy(b.out, i))
                      /\ m = Cardinality(GivenBy(c.out, i + 1))
    OBVIOUS
  <2>2. n \in Nat /\ k \in Nat /\ m = k + (IF e = None THEN 0 ELSE 1) /\ b.count = n + k
    BY <1>1, <1>5, <1>7, <2>1
  <2>3. c.count = n + m
    BY <1>2, <2>2
  <2> QED BY <2>1, <2>3
<1>9. PlanState(c, i + 1, s, T)
  BY <1>3, <1>4, <1>6, <1>8 DEF PlanState
<1> QED BY <1>3, <1>9 DEF c

\* The plan of a slot: the round's own pick, then the queue's.
Planned(o, i, picks, s) ==
  IF i = 1 /\ picks[s].kind = "new" THEN picks[s].p
  ELSE Soonest(Waits(s) \ NamedBy(o, i - 1),
               Preference(NewCount(s) + Cardinality(GivenBy(o, i - 1))))
Nameable == {Soonest(S, pref) : S \in SUBSET Problems, pref \in {"soon", "later"}}
Named(picks, s) == Nameable \cup {picks[s].p}
PlanMade(b, i, picks, s) == PlanState(b, i, s, Named(picks, s)) /\ \A j \in 1..i : b.out[j] = Planned(b.out, j, picks, s)

LEMMA PlannedStays ==
  ASSUME NEW o, NEW q, NEW picks, NEW s, NEW k, \A j \in 1..(k - 1) : q[j] = o[j]
  PROVE  Planned(q, k, picks, s) = Planned(o, k, picks, s)
<1>1. NamedBy(q, k - 1) = NamedBy(o, k - 1)
  BY DEF NamedBy
<1>2. GivenBy(q, k - 1) = GivenBy(o, k - 1)
  BY DEF GivenBy
<1> QED BY <1>1, <1>2 DEF Planned

LEMMA NamesArePlanned ==
  ASSUME PublicationsIInv, TablesIInv, EntriesSound, now <= next, NEW picks, NEW s, NEW T,
         NEW i \in Nat, NEW b, PlanState(b, i, s, T)
  PROVE  Names(b, i + 1, picks, s) = Planned(b.out, i + 1, picks, s)
<1>1. /\ b.t \in Nat /\ next <= b.t
      /\ b.queue = Waits(s) \ NamedBy(b.out, i)
      /\ b.count = NewCount(s) + Cardinality(GivenBy(b.out, i))
      /\ (i + 1) - 1 = i
  BY DEF PlanState
<1>2. now \in Nat /\ next \in Nat
  BY DEF PublicationsIInv, Typed, TablesIInv, RoundsSound
<1>3. ASSUME NEW p \in b.queue PROVE Queue[p].at <= b.t
  <2>1. p \in DOMAIN Queue
    BY <1>1 DEF Waits
  <2>2. Queue[p] = apps[p] /\ apps[p].at \in 0..now
    BY <2>1, QueueFacts DEF EntriesSound
  <2> QED BY <1>1, <1>2, <2>2
<1>4. {p \in b.queue : Queue[p].at <= b.t} = b.queue
  BY <1>3
<1>5. NextEntry(b.queue, b.t, Preference(b.count)) = Soonest(b.queue, Preference(b.count))
  BY <1>4 DEF NextEntry
<1> QED BY <1>1, <1>5 DEF Names, Planned

LEMMA PlannedIsNamed ==
  ASSUME PublicationsIInv, NEW o, NEW i, NEW picks, NEW s
  PROVE  Planned(o, i, picks, s) \in Named(picks, s)
<1>1. Waits(s) \ NamedBy(o, i - 1) \in SUBSET Problems
  BY QueueFacts DEF Waits
<1>2. \A n : Preference(n) \in {"soon", "later"}
  BY DEF Preference
<1> QED BY <1>1, <1>2 DEF Planned, Named, Nameable

LEMMA PlanAfter ==
  ASSUME PublicationsIInv, TablesIInv, EntriesSound, now <= next, NEW picks, NEW s,
         NEW k \in Nat, NEW b, PlanMade(b, k, picks, s)
  PROVE  PlanMade(Beyond(b, Names(b, k + 1, picks, s)), k + 1, picks, s)
<1> DEFINE e == Names(b, k + 1, picks, s)
           c == Beyond(b, e)
<1>1. PlanState(b, k, s, Named(picks, s)) /\ \A j \in 1..k : b.out[j] = Planned(b.out, j, picks, s)
  BY DEF PlanMade
<1>2. e = Planned(b.out, k + 1, picks, s)
  BY <1>1, NamesArePlanned
<1>3. e \in Named(picks, s)
  BY <1>2, PlannedIsNamed
<1> HIDE DEF e
<1>4. PlanState(c, k + 1, s, Named(picks, s)) /\ (\A j \in 1..k : c.out[j] = b.out[j]) /\ c.out[k + 1] = e
  BY <1>1, <1>3, PlanGoesOn
<1> HIDE DEF c
<1>5. ASSUME NEW j \in 1..(k + 1) PROVE c.out[j] = Planned(c.out, j, picks, s)
  <2>1. PICK o, q : o = b.out /\ q = c.out
    OBVIOUS
  <2>2. \A m \in 1..k : q[m] = o[m]
    BY <1>4, <2>1
  <2>3. Planned(q, j, picks, s) = Planned(o, j, picks, s)
    <3>1. \A m \in 1..(j - 1) : q[m] = o[m]
      BY <2>2
    <3> QED BY <3>1, PlannedStays
  <2>4. q[j] = Planned(o, j, picks, s)
    <3>1. CASE j = k + 1
      BY <1>2, <1>4, <2>1, <3>1
    <3>2. CASE j # k + 1
      <4>1. j \in 1..k
        BY <3>2
      <4> QED BY <1>1, <2>1, <2>2, <4>1
    <3> QED BY <3>1, <3>2
  <2> QED BY <2>1, <2>3, <2>4
<1>6. PlanMade(c, k + 1, picks, s)
  BY <1>4, <1>5 DEF PlanMade
<1> QED BY <1>6 DEF c, e

LEMMA PlanOfIsPlanned ==
  ASSUME PublicationsIInv, TablesIInv, EntriesSound, now <= next, NEW picks, NEW s
  PROVE  /\ PlanOf(picks, s) \in Seq(Named(picks, s)) /\ Len(PlanOf(picks, s)) = PlanRounds
         /\ \A j \in 1..PlanRounds : PlanOf(picks, s)[j] = Planned(PlanOf(picks, s), j, picks, s)
<1> DEFINE f == CHOOSE g : Steps(g, PlanRounds, picks, s)
<1>0. PlanRounds \in Nat
  BY BoundAssumption
<1>1. Steps(f, PlanRounds, picks, s)
  BY <1>0, StepsExist
<1>2. PlanOf(picks, s) = f[PlanRounds].out
  BY DEF PlanOf, Steps, Beyond, Names, Waits
<1> HIDE DEF f
<1>3. \A i \in 0..PlanRounds : f[i] = IF i = 0 THEN [queue |-> Waits(s), t |-> next, count |-> NewCount(s), out |-> <<>>]
                                      ELSE Beyond(f[i - 1], Names(f[i - 1], i, picks, s))
  BY <1>1 DEF Steps
<1> DEFINE Odd == {i \in 0..PlanRounds : ~PlanMade(f[i], i, picks, s)}
<1>4. Odd = {}
  <2> SUFFICES ASSUME Odd # {} PROVE FALSE
    OBVIOUS
  <2>1. PICK m \in Odd : \A k \in Odd : m <= k
    <3>1. Odd \subseteq Nat
      BY <1>0
    <3> HIDE DEF Odd
    <3> QED BY <3>1, Least
  <2>2. CASE m = 0
    <3>1. PICK b : b = f[0]
      OBVIOUS
    <3>2. b = [queue |-> Waits(s), t |-> next, count |-> NewCount(s), out |-> <<>>]
      BY <1>0, <1>3, <3>1
    <3>3. 1..0 = {} /\ NamedBy(b.out, 0) = {} /\ GivenBy(b.out, 0) = {}
      BY DEF NamedBy, GivenBy
    <3>4. NewCount(s) \in Nat /\ next \in Nat /\ Cardinality({}) = 0
      <4>1. NewCount(s) \in Nat
        BY CountIsNatural
      <4> QED BY <4>1, FS_EmptySet DEF TablesIInv, RoundsSound
    <3>5. b.count = NewCount(s) + Cardinality(GivenBy(b.out, 0)) /\ b.queue = Waits(s) \ NamedBy(b.out, 0)
      <4>1. b.queue = Waits(s) /\ b.count = NewCount(s)
        BY <3>2
      <4> QED BY <3>3, <3>4, <4>1
    <3>6. b.out \in Seq(Named(picks, s)) /\ Len(b.out) = 0 /\ b.t \in Nat /\ next <= b.t
      BY <3>2, <3>4
    <3>7. PlanMade(b, 0, picks, s)
      BY <3>3, <3>5, <3>6 DEF PlanMade, PlanState
    <3> QED BY <2>1, <2>2, <3>1, <3>7
  <2>3. CASE m # 0
    <3>1. PICK k : k = m - 1
      OBVIOUS
    <3>2. k \in 0..PlanRounds /\ k \in Nat /\ m = k + 1 /\ ~(m <= k) /\ m \in 0..PlanRounds
      BY <1>0, <2>1, <2>3, <3>1
    <3>3. PlanMade(f[k], k, picks, s)
      BY <2>1, <3>2
    <3>4. PlanMade(Beyond(f[k], Names(f[k], k + 1, picks, s)), k + 1, picks, s)
      BY <3>2, <3>3, PlanAfter
    <3>5. f[m] = Beyond(f[k], Names(f[k], m, picks, s))
      BY <1>3, <2>3, <3>1, <3>2
    <3> QED BY <2>1, <3>2, <3>4, <3>5
  <2> QED BY <2>2, <2>3
<1>5. PlanMade(f[PlanRounds], PlanRounds, picks, s)
  BY <1>0, <1>4
<1> QED BY <1>2, <1>5 DEF PlanMade, PlanState

-----------------------------------------------------------------------------
\* Steps beside the queue, and steps that change it.
LEMMA QueueStays ==
  ASSUME UNCHANGED <<row, held, apps>>
  PROVE  /\ Queue' = Queue /\ \A s : Waits(s)' = Waits(s)
         /\ \A S, pref : Soonest(S, pref)' = Soonest(S, pref)
<1>1. Queue' = Queue
  BY DEF Queue, Held
<1>2. \A s : Waits(s)' = Waits(s)
  BY <1>1 DEF Waits, InSlot
<1>3. \A S, pref : Soonest(S, pref)' = Soonest(S, pref)
  BY <1>1 DEF Soonest
<1> QED BY <1>1, <1>2, <1>3

LEMMA PlanStays ==
  ASSUME PlanSound, UNCHANGED <<row, held, apps, previews, rounds, plan>>
  PROVE  PlanSound'
<1>1. ASSUME NEW s, NEW i PROVE Expected(s, i)' = Expected(s, i)
  <2>1. Waits(s)' = Waits(s) /\ \A S, pref : Soonest(S, pref)' = Soonest(S, pref)
    BY QueueStays
  <2>2. Gone(s, i)' = Gone(s, i) /\ Given(s, i)' = Given(s, i) /\ NewCount(s)' = NewCount(s)
    BY DEF Gone, Given, NewCount
  <2>3. PICK S, pref : S = Waits(s) \ Gone(s, i) /\ pref = Preference(NewCount(s) + Cardinality(Given(s, i)))
    OBVIOUS
  <2>4. Expected(s, i) = IF i = 1 /\ previews[s] \in Waits(s) THEN previews[s] ELSE Soonest(S, pref)
    BY <2>3 DEF Expected
  <2>5. Preference(NewCount(s) + Cardinality(Given(s, i)))' = pref
    BY <2>2, <2>3 DEF Preference
  <2>6. Expected(s, i)' = IF i = 1 /\ previews[s] \in Waits(s) THEN previews[s] ELSE Soonest(S, pref)'
    BY <2>1, <2>2, <2>3, <2>5 DEF Expected
  <2> QED BY <2>1, <2>4, <2>6
<1> QED BY <1>1 DEF PlanSound

LEMMA AnnouncedQuiet ==
  ASSUME PublicationsIInv, AnnouncedIInv, UNCHANGED <<row, held, apps, previews, rounds, plan>>, now' \in {now, now + 1},
         \A x \in Requests : req'[x] = req[x] \/ ReleaseKnows(req'[x])
  PROVE  AnnouncedIInv'
<1>1. now \in Nat
  BY DEF PublicationsIInv, Typed
<1>2. EntriesSound'
  BY <1>1 DEF AnnouncedIInv, EntriesSound
<1>3. ASSUME NEW x \in Requests PROVE ReleaseKnows(req[x])'
  <2>1. PICK q : q = req'[x]
    OBVIOUS
  <2>2. ReleaseKnows(q)
    BY <2>1 DEF AnnouncedIInv
  <2>3. ReleaseKnows(q)'
    BY <1>1, <2>2, QueueStays DEF ReleaseKnows, Schedule
  <2>4. req[x]' = q
    BY <2>1
  <2> QED BY <2>3, <2>4 DEF ReleaseKnows
<1> QED BY <1>2, <1>3, PlanStays DEF AnnouncedIInv

\* The queue changes: the plan is forgotten.
LEMMA AnnouncedReset ==
  ASSUME PublicationsIInv, AnnouncedIInv, EntriesSound', plan' = <<>>, UNCHANGED now,
         \A x \in Requests : req'[x] = req[x] \/ req'[x].kind # "featured"
  PROVE  AnnouncedIInv'
<1>1. ASSUME NEW x \in Requests PROVE ReleaseKnows(req[x])'
  <2>1. PICK q : q = req'[x]
    OBVIOUS
  <2>2. ReleaseKnows(q)'
    BY <2>1 DEF AnnouncedIInv, ReleaseKnows, Schedule
  <2>3. req[x]' = q
    BY <2>1
  <2> QED BY <2>2, <2>3 DEF ReleaseKnows
<1>2. PlanSound'
  BY DEF PlanSound, ToSet
<1> QED BY <1>1, <1>2 DEF AnnouncedIInv

\* Applications go, one comes, or its preference changes.
LEMMA LeaveSound ==
  ASSUME EntriesSound, NEW S, Leave(S), UNCHANGED now
  PROVE  EntriesSound'
<1>1. /\ DOMAIN apps' = DOMAIN apps \ S
      /\ \A p \in DOMAIN apps' : apps'[p].at = apps[p].at /\ apps'[p].ahead = apps[p].ahead \ S
  BY DEF Leave
<1> QED BY <1>1 DEF EntriesSound

LEMMA ApplySound ==
  ASSUME PublicationsIInv, TablesIInv, EntriesSound, NEW r, ApplyCommit(r), UNCHANGED now
  PROVE  EntriesSound'
<1>0. now \in Nat
  BY DEF PublicationsIInv, Typed
<1> DEFINE n == req[r].p
<1>1. /\ DOMAIN apps' = DOMAIN apps \cup {n} /\ \A p \in DOMAIN apps : p # n => apps'[p] = apps[p]
      /\ apps'[n].at = IF n \in DOMAIN apps THEN apps[n].at ELSE now
      /\ apps'[n].ahead = IF n \in DOMAIN apps THEN apps[n].ahead ELSE DOMAIN apps
  BY DEF ApplyCommit, Applied
<1> HIDE DEF n
<1>2. \A p \in DOMAIN apps : apps'[p].at = apps[p].at /\ apps'[p].ahead = apps[p].ahead
  BY <1>1
<1>3. \A p \in DOMAIN apps : apps[p].ahead \subseteq DOMAIN apps
  BY DEF TablesIInv, AppsFilled
<1>4. \A p \in DOMAIN apps' : apps'[p].at \in 0..now
  BY <1>0, <1>1, <1>2 DEF EntriesSound
<1>5. ASSUME NEW p \in DOMAIN apps', NEW o \in DOMAIN apps', p \in apps'[o].ahead, o \in apps'[p].ahead PROVE FALSE
  <2>1. CASE n \in DOMAIN apps
    BY <1>1, <1>2, <1>5, <2>1 DEF EntriesSound
  <2>2. CASE n \notin DOMAIN apps
    <3>1. \A q \in DOMAIN apps' : n \notin apps'[q].ahead
      BY <1>1, <1>2, <1>3, <2>2
    <3> QED BY <1>1, <1>2, <1>5, <2>2, <3>1 DEF EntriesSound
  <2> QED BY <2>1, <2>2
<1> QED BY <1>4, <1>5 DEF EntriesSound

\* Who begins, and who gives up.
LEMMA ArriveAnnounced ==
  ASSUME PublicationsIInv, AnnouncedIInv, NEW r \in Requests, Arrive(r) \/ SaveCheck(r) \/ Abort(r), UNCHANGED now
  PROVE  AnnouncedIInv' /\ UNCHANGED rounds
<1>1. UNCHANGED <<row, held, apps, previews, rounds, plan>>
  BY DEF Arrive, SaveBegin, ContestBegin, PublishBegin, ScheduleBegin, ApplyBegin, FeaturedDue, SaveCheck, Abort, tables, history
<1>2. DOMAIN req = Requests
  BY DEF PublicationsIInv, Typed
<1>3. \A x \in Requests : req'[x] = req[x] \/ req'[x].kind # "featured"
  <2>1. CASE Arrive(r)
    <3>1. CASE \E p \in Problems, d \in mix.saves, named \in 1..mix.versions - 1 : SaveBegin(r, p, d, named)
      BY <1>2, <3>1 DEF SaveBegin, Begin
    <3>2. CASE \E S \in SUBSET Problems, s \in Schedules : ContestBegin(r, S, s)
      BY <1>2, <3>2 DEF ContestBegin, Begin
    <3>3. CASE \E p \in Problems, on, author \in BOOLEAN, named \in 1..mix.versions - 1 : PublishBegin(r, p, on, author, named)
      BY <1>2, <3>3 DEF PublishBegin, Begin
    <3>4. CASE \E p \in Problems, at \in (now + 1)..mix.days, named \in 1..mix.versions - 1 : ScheduleBegin(r, p, at, named)
      BY <1>2, <3>4 DEF ScheduleBegin, Begin
    <3>5. CASE \E p \in Problems, pref \in {"soon", "later"} : ApplyBegin(r, p, pref)
      BY <1>2, <3>5 DEF ApplyBegin, Begin
    <3>6. CASE FeaturedDue(r)
      BY <1>2, <3>6 DEF FeaturedDue, Begin
    <3> QED BY <2>1, <3>1, <3>2, <3>3, <3>4, <3>5, <3>6 DEF Arrive
  <2>2. CASE SaveCheck(r) \/ Abort(r)
    BY <1>2, <2>2 DEF SaveCheck, Abort, Done, Move, Idle
  <2> QED BY <2>1, <2>2
<1>4. \A x \in Requests : req'[x] = req[x] \/ ReleaseKnows(req'[x])
  BY <1>3 DEF ReleaseKnows
<1> QED BY <1>1, <1>4, AnnouncedQuiet

\* The release reads the queue under the schedule's lock.
LEMMA FeaturedLockAnnounced ==
  ASSUME PublicationsIInv, AnnouncedIInv, NEW r \in Requests, FeaturedLock(r), UNCHANGED now
  PROVE  AnnouncedIInv' /\ UNCHANGED rounds
<1>1. /\ UNCHANGED <<row, held, apps, previews, rounds, plan>>
      /\ req' = [req EXCEPT ![r] = [kind |-> "featured", pool |-> Queue, locks |-> {Schedule}]]
  BY DEF FeaturedLock, Move, tables, history
<1>2. DOMAIN req = Requests
  BY DEF PublicationsIInv, Typed
<1>3. \A p \in DOMAIN Queue : Queue[p].at \in 0..now
  BY QueueFacts DEF AnnouncedIInv, EntriesSound
<1>4. PICK q : q = [kind |-> "featured", pool |-> Queue, locks |-> {Schedule}]
  OBVIOUS
<1>5. ReleaseKnows(q)
  BY <1>3, <1>4 DEF ReleaseKnows
<1>6. \A x \in Requests : req'[x] = req[x] \/ req'[x] = q
  BY <1>1, <1>2, <1>4
<1>7. \A x \in Requests : req'[x] = req[x] \/ ReleaseKnows(req'[x])
  BY <1>5, <1>6
<1> QED BY <1>1, <1>7, AnnouncedQuiet

\* Commits that write rows or applications.
LEMMA WriteAnnounced ==
  ASSUME PublicationsIInv, AnnouncedIInv, NEW new, Write(new), UNCHANGED now,
         \A x \in Requests : req'[x] = req[x] \/ req'[x].kind # "featured"
  PROVE  AnnouncedIInv'
BY LeaveSound, AnnouncedReset DEF Write, AnnouncedIInv

LEMMA DoneFacts ==
  ASSUME PublicationsIInv, NEW r, Done(r)
  PROVE  \A x \in Requests : req'[x] = req[x] \/ req'[x].kind # "featured"
BY DEF Done, Idle, PublicationsIInv, Typed

LEMMA CommitAnnounced ==
  ASSUME PublicationsIInv, TablesIInv, AnnouncedIInv, NEW r \in Requests, UNCHANGED now,
         SaveCommit(r) \/ ContestCommit(r) \/ PublishCommit(r) \/ ScheduleCommit(r) \/ ApplyCommit(r)
  PROVE  AnnouncedIInv' /\ UNCHANGED rounds
<1>1. Done(r) /\ UNCHANGED <<previews, rounds>>
  BY DEF SaveCommit, ContestCommit, PublishCommit, ScheduleCommit, ApplyCommit
<1>2. \A x \in Requests : req'[x] = req[x] \/ req'[x].kind # "featured"
  BY <1>1, DoneFacts
<1>3. \A x \in Requests : req'[x] = req[x] \/ ReleaseKnows(req'[x])
  BY <1>2 DEF ReleaseKnows
<1>4. CASE \E new : Write(new)
  BY <1>1, <1>2, <1>4, WriteAnnounced
<1>5. CASE UNCHANGED <<row, held, apps, plan>>
  BY <1>1, <1>3, <1>5, AnnouncedQuiet
<1>6. CASE UNCHANGED apps /\ plan' = <<>>
  <2>1. EntriesSound'
    BY <1>6 DEF AnnouncedIInv, EntriesSound
  <2> QED BY <1>1, <1>2, <1>6, <2>1, AnnouncedReset
<1>7. CASE ApplyCommit(r)
  <2>1. EntriesSound' /\ plan' = <<>>
    BY <1>7, ApplySound DEF AnnouncedIInv, ApplyCommit
  <2> QED BY <1>1, <1>2, <2>1, AnnouncedReset
<1>8. CASE SaveCommit(r)
  <2>1. \E new : Write(new)
    BY <1>8 DEF SaveCommit
  <2> QED BY <1>4, <2>1
<1>9. CASE ContestCommit(r)
  BY <1>5, <1>6, <1>9 DEF ContestCommit
<1>10. CASE PublishCommit(r)
  <2>1. (\E new : Write(new)) \/ UNCHANGED <<row, held, apps, plan>>
    BY <1>10 DEF PublishCommit
  <2> QED BY <1>4, <1>5, <2>1
<1>11. CASE ScheduleCommit(r)
  <2>1. (\E new : Write(new)) \/ UNCHANGED <<row, held, apps, plan>>
    BY <1>11 DEF ScheduleCommit
  <2> QED BY <1>4, <1>5, <2>1
<1> QED BY <1>7, <1>8, <1>9, <1>10, <1>11

LEMMA OtherAnnounced ==
  ASSUME PublicationsIInv, AnnouncedIInv,
         ReleaseContest \/ ReleaseScheduled \/ Tick \/ \E p \in Problems : Submit(p) \/ Withdraw(p) \/ Delete(p)
  PROVE  AnnouncedIInv' /\ UNCHANGED next /\ DOMAIN rounds' = DOMAIN rounds
<1>1. ASSUME \/ ReleaseContest \/ ReleaseScheduled
      PROVE  AnnouncedIInv' /\ UNCHANGED next /\ DOMAIN rounds' = DOMAIN rounds
  <2>1. UNCHANGED <<now, next, rounds, req>> /\ \E new : Write(new)
    BY <1>1 DEF ReleaseContest, ReleaseScheduled
  <2> QED BY <2>1, WriteAnnounced
<1>2. ASSUME NEW p, Withdraw(p) \/ Delete(p)
      PROVE  AnnouncedIInv' /\ UNCHANGED next /\ DOMAIN rounds' = DOMAIN rounds
  <2>1. UNCHANGED <<now, next, req>> /\ DOMAIN rounds' = DOMAIN rounds /\ Leave({p}) /\ plan' = <<>>
    BY <1>2 DEF Withdraw, Delete
  <2>2. EntriesSound'
    BY <2>1, LeaveSound DEF AnnouncedIInv
  <2> QED BY <2>1, <2>2, AnnouncedReset
<1>3. ASSUME Tick \/ \E p : Submit(p)
      PROVE  AnnouncedIInv' /\ UNCHANGED next /\ DOMAIN rounds' = DOMAIN rounds
  <2>1. UNCHANGED <<row, held, apps, previews, rounds, plan, next, req>> /\ now' \in {now, now + 1}
    BY <1>3 DEF Tick, Submit, tables, history
  <2> QED BY <2>1, AnnouncedQuiet
<1> QED BY <1>1, <1>2, <1>3

\* The plan that is shown.
LEMMA PreviewAnnounced ==
  ASSUME PublicationsIInv, TablesIInv, AnnouncedIInv, Preview
  PROVE  AnnouncedIInv' /\ UNCHANGED <<next, rounds>>
<1>1. UNCHANGED <<now, row, held, apps, next, rounds, req>>
  BY DEF Preview
<1>2. PICK easy \in Select(Queue, "easy", next, previews["easy"]), hard \in Select(Queue, "hard", next, previews["hard"]) :
        LET picks == [s \in Slots |-> IF s = "easy" THEN easy ELSE hard] IN
        /\ previews' = [s \in Slots |-> picks[s].p]
        /\ plan' = LET p == [s \in Slots |-> PlanOf(picks, s)] IN [i \in 1..PlanRounds |-> [s \in Slots |-> p[s][i]]]
  BY DEF Preview
<1>3. PICK picks : picks = [s \in Slots |-> IF s = "easy" THEN easy ELSE hard]
  OBVIOUS
<1>4. /\ previews' = [s \in Slots |-> picks[s].p]
      /\ plan' = [i \in 1..PlanRounds |-> [s \in Slots |-> PlanOf(picks, s)[i]]]
  BY <1>2, <1>3
<1>5. \A s \in Slots : picks[s] \in Select(Queue, s, next, previews[s])
  BY <1>3 DEF Slots
<1>6. now \in Nat /\ next \in Nat /\ now < next /\ now <= next /\ EntriesSound
  BY DEF Preview, UpToDate, PublicationsIInv, Typed, TablesIInv, RoundsSound, AnnouncedIInv
<1>7. PlanRounds \in Nat
  BY BoundAssumption
<1>8. \A x \in Requests : ReleaseKnows(req[x])'
  <2> SUFFICES ASSUME NEW x \in Requests, req[x].kind = "featured" PROVE FALSE
    BY <1>1 DEF AnnouncedIInv, ReleaseKnows
  <2>1. Schedule \in req[x].locks
    BY DEF AnnouncedIInv, ReleaseKnows
  <2>2. Schedule \notin Taken
    BY DEF Preview
  <2> QED BY <2>1, <2>2 DEF Taken
<1>9. EntriesSound'
  BY <1>1, <1>6 DEF EntriesSound
<1>10. plan' \in Seq(ToSet(plan'))
  <2>1. PICK q : q = [i \in 1..PlanRounds |-> [s \in Slots |-> PlanOf(picks, s)[i]]]
    OBVIOUS
  <2>2. DOMAIN q = 1..PlanRounds /\ q = [i \in 1..PlanRounds |-> q[i]] /\ \A i \in 1..PlanRounds : q[i] \in ToSet(q)
    BY <2>1 DEF ToSet
  <2>3. q \in Seq(ToSet(q))
    BY <1>7, <2>2
  <2> QED BY <1>4, <2>1, <2>3
<1>11. Len(plan') = PlanRounds /\ \A i \in 1..PlanRounds, s \in Slots : plan'[i][s] = PlanOf(picks, s)[i]
  BY <1>4, <1>7
<1>12. ASSUME NEW i \in 1..PlanRounds, NEW s \in Slots PROVE plan'[i][s] = Expected(s, i)'
  <2>1. PICK o : o = PlanOf(picks, s)
    OBVIOUS
  <2>2. o[i] = Planned(o, i, picks, s) /\ o[1] = Planned(o, 1, picks, s)
    <3>1. 1 \in 1..PlanRounds
      BY <1>7
    <3>2. \A j \in 1..PlanRounds : o[j] = Planned(o, j, picks, s)
      BY <1>6, <2>1, PlanOfIsPlanned
    <3> QED BY <3>1, <3>2
  <2>3. \A j \in 1..PlanRounds : plan'[j][s] = o[j]
    BY <1>11, <2>1
  <2>4. Gone(s, i)' = NamedBy(o, i - 1) /\ Given(s, i)' = GivenBy(o, i - 1)
    <3>1. \A j \in 1..(i - 1) : plan'[j][s] = o[j]
      BY <1>7, <2>3
    <3> QED BY <3>1 DEF Gone, Given, NamedBy, GivenBy
  <2>5. Waits(s)' = Waits(s) /\ NewCount(s)' = NewCount(s) /\ \A S, pref : Soonest(S, pref)' = Soonest(S, pref)
    BY <1>1, QueueStays DEF NewCount
  <2>6. PICK S, pref : S = Waits(s) \ NamedBy(o, i - 1) /\ pref = Preference(NewCount(s) + Cardinality(GivenBy(o, i - 1)))
    OBVIOUS
  <2>7. Expected(s, i)' = IF i = 1 /\ previews'[s] \in Waits(s) THEN previews'[s] ELSE Soonest(S, pref)
    <3>1. Preference(NewCount(s) + Cardinality(Given(s, i)))' = pref
      BY <2>4, <2>5, <2>6 DEF Preference
    <3>2. Soonest(S, pref)' = Soonest(S, pref)
      BY <2>5
    <3> QED BY <2>4, <2>5, <2>6, <3>1, <3>2 DEF Expected
  <2>8. o[i] = IF i = 1 /\ picks[s].kind = "new" THEN picks[s].p ELSE Soonest(S, pref)
    BY <2>2, <2>6 DEF Planned
  <2>9. previews'[s] = picks[s].p
    BY <1>4
  <2>10. (picks[s].kind = "new") <=> (picks[s].p \in Waits(s))
    BY <1>5, <1>6, SelectedIsExpected
  <2> QED BY <2>3, <2>7, <2>8, <2>9, <2>10
<1>13. PlanSound'
  BY <1>10, <1>11, <1>12 DEF PlanSound
<1> QED BY <1>1, <1>8, <1>9, <1>13 DEF AnnouncedIInv

-----------------------------------------------------------------------------
\* The round itself.
Hours       == {t \in DueRounds : now < t + Window}
Picks(r, s) == IF Hours = {} THEN {Missing}
               ELSE Select(req[r].pool, s, Max(Hours), IF Max(Hours) = next THEN previews[s] ELSE None)
News(pick)  == {pick[s].p : s \in {o \in Slots : pick[o].kind = "new"}}
Delivers(pick) ==
  /\ Store([p \in News(pick) |-> Published(row[p], row[p].draft, row[p].version + 1)]) /\ Leave(News(pick))
  /\ rounds' = [t \in DueRounds \cup DOMAIN rounds |->
                  IF t \in Hours THEN pick ELSE IF t \in DueRounds THEN [s \in Slots |-> Missing] ELSE rounds[t]]
  /\ previews' = [s \in Slots |-> None]
  /\ plan' = IF DueRounds = {next} /\ Hours = DueRounds /\ plan # <<>> THEN Tail(plan) ELSE <<>>

LEMMA RoundTaken ==
  ASSUME PublicationsIInv, TablesIInv, NEW r \in Requests, FeaturedCommit(r)
  PROVE  /\ At(r, "featured") /\ Done(r) /\ UNCHANGED held
         /\ \/ UNCHANGED <<row, apps, plan, next, previews, rounds>>
            \/ \E pick : (\A s \in Slots : pick[s] \in Picks(r, s)) /\ Delivers(pick)
<1>1. At(r, "featured") /\ Done(r) /\ UNCHANGED held
  BY DEF FeaturedCommit
<1>2. PICK easy \in Picks(r, "easy"), hard \in Picks(r, "hard") :
        LET pick == [s \in Slots |-> IF s = "easy" THEN easy ELSE hard]
            new == News(pick) IN
        IF DueRounds = {} THEN UNCHANGED <<row, apps, plan, next, previews, rounds, failed>>
        ELSE IF \E p \in new : Recorded(p) THEN failed' = TRUE /\ UNCHANGED <<row, apps, plan, next, previews, rounds>>
        ELSE /\ Store([p \in new |-> Published(row[p], row[p].draft, row[p].version + 1)]) /\ Leave(new)
             /\ rounds' = [t \in DueRounds \cup DOMAIN rounds |->
                             IF t \in Hours THEN pick ELSE IF t \in DueRounds THEN [s \in Slots |-> Missing] ELSE rounds[t]]
             /\ next' = NextFeatured(Max(DueRounds)) /\ previews' = [s \in Slots |-> None]
             /\ plan' = IF DueRounds = {next} /\ Hours = DueRounds /\ plan # <<>> THEN Tail(plan) ELSE <<>>
             /\ UNCHANGED failed
  BY DEF FeaturedCommit, Picks, Hours, News
<1>3. PICK pick : pick = [s \in Slots |-> IF s = "easy" THEN easy ELSE hard]
  OBVIOUS
<1>4. \A s \in Slots : pick[s] \in Picks(r, s)
  BY <1>3 DEF Slots
<1>5. UNCHANGED <<row, apps, plan, next, previews, rounds>> \/ Delivers(pick)
  BY <1>2, <1>3 DEF Delivers
<1> QED BY <1>1, <1>4, <1>5

\* A round that is still open is today's.
LEMMA HourIsNow ==
  ASSUME PublicationsIInv, TablesIInv, NEW t \in Hours
  PROVE  t = now /\ Hours = {now} /\ Max(Hours) = now
<1>1. now \in Nat /\ next \in Nat
  BY DEF PublicationsIInv, Typed, TablesIInv, RoundsSound
<1>2. \A u \in Hours : u = now
  BY <1>1 DEF Hours, DueRounds, Window
<1>3. Hours = {now}
  BY <1>2
<1>4. Max({now}) = now
  <2>1. \A x \in {now} : x >= now
    BY <1>1
  <2> QED BY <1>1, <2>1 DEF Max
<1> QED BY <1>2, <1>3, <1>4

\* The round that is next comes on its day, with the announced problem kept.
LEMMA NextRound ==
  ASSUME PublicationsIInv, TablesIInv, NEW r \in Requests, NEW pick, \A s \in Slots : pick[s] \in Picks(r, s),
         Delivers(pick), next \in DOMAIN rounds', now < next + Window
  PROVE  /\ next = now /\ next \in Hours /\ rounds'[next] = pick
         /\ \A s \in Slots : pick[s] \in Select(req[r].pool, s, next, previews[s])
<1>1. next \in DueRounds
  BY CountIsNatural DEF Delivers
<1>2. next \in Hours
  BY <1>1 DEF Hours
<1>3. next = now /\ Max(Hours) = next /\ Hours # {}
  BY <1>2, HourIsNow
<1>4. rounds'[next] = pick
  BY <1>1, <1>2 DEF Delivers
<1> QED BY <1>2, <1>3, <1>4 DEF Picks

Delivered(s) == next \in DOMAIN rounds' =>
       LET new == rounds'[next][s]
       IN /\ Awaited(s) => new = [kind |-> "new", p |-> previews[s]]
          /\ plan # <<>> /\ now < next + Window => plan[1][s] = (IF new.kind = "new" THEN new.p ELSE None)

LEMMA RoundDelivers ==
  ASSUME PublicationsIInv, TablesIInv, AnnouncedIInv, NEW r \in Requests, At(r, "featured"),
         NEW pick, \A s \in Slots : pick[s] \in Picks(r, s), Delivers(pick), NEW s \in Slots
  PROVE  Delivered(s)
<1> SUFFICES ASSUME next \in DOMAIN rounds', now < next + Window
             PROVE  /\ Awaited(s) => pick[s] = [kind |-> "new", p |-> previews[s]]
                    /\ plan # <<>> => plan[1][s] = (IF pick[s].kind = "new" THEN pick[s].p ELSE None)
  BY NextRound DEF Delivered, Awaited
<1>1. next = now /\ now \in Nat /\ pick[s] \in Select(req[r].pool, s, next, previews[s])
  BY NextRound DEF PublicationsIInv, Typed
<1>2. ReleaseKnows(req[r]) /\ EntriesSound /\ PlanSound
  BY DEF AnnouncedIInv
<1>3. ASSUME Awaited(s) PROVE pick[s] = [kind |-> "new", p |-> previews[s]]
  <2>1. PICK x \in Requests : At(x, "featured") /\ previews[s] \in DOMAIN req[x].pool
    BY <1>3 DEF Awaited
  <2>2. x = r
    BY <1>2, <2>1 DEF AnnouncedIInv, ReleaseKnows, At, PublicationsIInv, Exclusive
  <2>3. previews[s] \in DOMAIN Queue /\ InSlot(previews[s], s)
    BY <1>3 DEF Awaited
  <2>4. Eligible(previews[s])
    BY <2>3, QueueFacts
  <2>5. req[r].pool[previews[s]].at \in 0..now
    BY <1>2, <2>1, <2>2 DEF ReleaseKnows, At
  <2>6. previews[s] \in Entries(req[r].pool, s, next)
    BY <1>1, <2>1, <2>2, <2>3, <2>4, <2>5 DEF Entries
  <2>7. PICK p \in First(req[r].pool, Entries(req[r].pool, s, next), previews[s], Preference(NewCount(s))) :
          pick[s] = [kind |-> "new", p |-> p]
    BY <1>1, <2>6 DEF Select
  <2> QED BY <2>6, <2>7, FirstKept
<1>4. ASSUME plan # <<>> PROVE plan[1][s] = (IF pick[s].kind = "new" THEN pick[s].p ELSE None)
  <2>1. req[r].pool = Queue
    BY <1>2, <1>4 DEF ReleaseKnows, At
  <2>2. 1 \in 1..Len(plan)
    BY <1>2, <1>4 DEF PlanSound
  <2>3. plan[1][s] = Expected(s, 1)
    BY <1>2, <2>2 DEF PlanSound
  <2>4. NewCount(s) + 0 = NewCount(s)
    BY CountIsNatural
  <2>5. (IF pick[s].kind = "new" THEN pick[s].p ELSE None) =
              IF previews[s] \in Waits(s) THEN previews[s] ELSE Soonest(Waits(s), Preference(NewCount(s)))
    BY <1>1, <1>2, <2>1, SelectedIsExpected
  <2> QED BY <2>3, <2>4, <2>5, ExpectedFirst
<1> QED BY <1>3, <1>4

\* The first of i + 1 rounds, and the other i.
LEMMA CountedFromSecond ==
  ASSUME NEW i \in Nat, NEW o, NEW q, \A j \in 1..i : q[j] = o[j + 1]
  PROVE  /\ NamedBy(o, i + 1) = {o[1]} \cup NamedBy(q, i)
         /\ Cardinality(GivenBy(o, i + 1)) = Cardinality(GivenBy(q, i)) + IF o[1] = None THEN 0 ELSE 1
         /\ Cardinality(GivenBy(q, i)) \in Nat
<1> DEFINE A == GivenBy(q, i)
           B == {j \in 2..(i + 1) : o[j] # None}
           f == [j \in A |-> j + 1]
<1>1. /\ \A j \in 1..i : j + 1 \in 2..(i + 1) /\ j + 1 \in 1..(i + 1)
      /\ \A k \in 1..(i + 1) : k # 1 => k \in 2..(i + 1) /\ k - 1 \in 1..i /\ k = (k - 1) + 1 /\ q[k - 1] = o[k]
      /\ \A k \in 2..(i + 1) : k \in 1..(i + 1) /\ k - 1 \in 1..i /\ k = (k - 1) + 1 /\ q[k - 1] = o[k] /\ k # 1
      /\ 1 \in 1..(i + 1)
  OBVIOUS
<1>2. NamedBy(o, i + 1) = {o[1]} \cup NamedBy(q, i)
  <2>1. \A k \in 1..(i + 1) : o[k] \in {o[1]} \cup NamedBy(q, i)
    BY <1>1 DEF NamedBy
  <2>2. \A j \in 1..i : q[j] \in NamedBy(o, i + 1)
    BY <1>1 DEF NamedBy
  <2>3. o[1] \in NamedBy(o, i + 1)
    BY <1>1 DEF NamedBy
  <2>4. NamedBy(o, i + 1) \subseteq {o[1]} \cup NamedBy(q, i)
    BY <2>1 DEF NamedBy
  <2>5. NamedBy(q, i) \subseteq NamedBy(o, i + 1)
    BY <2>2 DEF NamedBy
  <2> QED BY <2>3, <2>4, <2>5
<1>3. IsFiniteSet(A) /\ IsFiniteSet(B) /\ 1 \notin B
  <2>1. IsFiniteSet(1..i) /\ A \in SUBSET (1..i)
    <3>1. 1 \in Int /\ i \in Int
      OBVIOUS
    <3>2. A \in SUBSET (1..i)
      BY Zenon DEF GivenBy
    <3> HIDE DEF A, B
    <3>3. IsFiniteSet(1..i)
      BY ONLY <3>1, FS_Interval
    <3> QED BY <3>2, <3>3
  <2>2. IsFiniteSet(2..(i + 1)) /\ B \in SUBSET (2..(i + 1))
    <3>1. 2 \in Int /\ i + 1 \in Int
      OBVIOUS
    <3>2. B \in SUBSET (2..(i + 1))
      OBVIOUS
    <3> HIDE DEF A, B
    <3>3. IsFiniteSet(2..(i + 1))
      BY ONLY <3>1, FS_Interval
    <3> QED BY <3>2, <3>3
  <2> QED BY <2>1, <2>2, FS_Subset
<1>4. Cardinality(B) = Cardinality(A)
  <2>1. f \in [A -> B] /\ \A x, y \in A : f[x] = f[y] => x = y
    BY <1>1 DEF GivenBy
  <2>2. \A k \in B : \E j \in A : f[j] = k
    <3> TAKE k \in B
    <3>1. k - 1 \in A /\ f[k - 1] = k
      BY <1>1 DEF GivenBy
    <3> QED BY <3>1
  <2> HIDE DEF f, A, B
  <2>3. f \in Surjection(A, B) /\ f \in Injection(A, B)
    BY <2>1, <2>2 DEF Surjection, Injection, IsInjective
  <2> QED BY <1>3, <2>3, FS_Surjection
<1>5. GivenBy(o, i + 1) = IF o[1] = None THEN B ELSE B \cup {1}
  BY <1>1 DEF GivenBy
<1> HIDE DEF A, B
<1>6. Cardinality(A) \in Nat /\ Cardinality(B \cup {1}) = Cardinality(B) + 1
  BY <1>3, FS_CardinalityType, FS_AddElement
<1>7. Cardinality(GivenBy(o, i + 1)) = Cardinality(A) + IF o[1] = None THEN 0 ELSE 1
  BY <1>4, <1>5, <1>6
<1> QED BY <1>2, <1>6, <1>7 DEF A

\* The plan's columns.
Column(s) == [j \in 1..Len(plan) |-> plan[j][s]]
LEMMA ColumnFacts ==
  ASSUME NEW s, NEW i, plan \in Seq(ToSet(plan)), i \in 1..Len(plan)
  PROVE  Gone(s, i) = NamedBy(Column(s), i - 1) /\ Given(s, i) = GivenBy(Column(s), i - 1)
<1>1. \A j \in 1..(i - 1) : Column(s)[j] = plan[j][s]
  BY DEF Column
<1> QED BY <1>1 DEF Gone, Given, NamedBy, GivenBy

\* A round counts its new problem.
LEMMA RoundCounts ==
  ASSUME PublicationsIInv, TablesIInv, NEW pick, NEW s \in Slots,
         next \in Hours, Hours = DueRounds, DueRounds = {next}, Delivers(pick)
  PROVE  NewCount(s)' = NewCount(s) + IF pick[s].kind = "new" THEN 1 ELSE 0
<1> DEFINE A == {t \in DOMAIN rounds : rounds[t][s].kind = "new"}
<1>1. next \notin DOMAIN rounds /\ IsFiniteSet(DOMAIN rounds) /\ NewCount(s) \in Nat
  BY CountIsNatural
<1>2. DOMAIN rounds' = {next} \cup DOMAIN rounds /\ rounds'[next] = pick /\ \A t \in DOMAIN rounds : rounds'[t] = rounds[t]
  BY <1>1 DEF Delivers
<1>3. {t \in DOMAIN rounds' : rounds'[t][s].kind = "new"} = IF pick[s].kind = "new" THEN A \cup {next} ELSE A
  BY <1>1, <1>2
<1>4. IsFiniteSet(A) /\ next \notin A
  <2>1. A \in SUBSET DOMAIN rounds
    OBVIOUS
  <2> QED BY <1>1, <2>1, FS_Subset
<1>5. NewCount(s) = Cardinality(A) /\ NewCount(s)' = Cardinality(IF pick[s].kind = "new" THEN A \cup {next} ELSE A)
  BY <1>3 DEF NewCount
<1> HIDE DEF A
<1>6. Cardinality(A \cup {next}) = Cardinality(A) + 1
  BY <1>4, FS_AddElement
<1> QED BY <1>1, <1>5, <1>6

\* What the round leaves of the queue, and who is first of it.
LEMMA RoundLeaves ==
  ASSUME PublicationsIInv, NEW pick, Delivers(pick), UNCHANGED held
  PROVE  /\ DOMAIN Queue' = DOMAIN Queue \ News(pick)
         /\ \A p \in DOMAIN Queue' : /\ Queue'[p].pref = Queue[p].pref /\ Queue'[p].ahead = Queue[p].ahead \ News(pick)
                                     /\ row'[p] = row[p]
<1>1. DOMAIN apps \subseteq DOMAIN row
  BY DEF PublicationsIInv, Typed
<1>2. /\ DOMAIN apps' = DOMAIN apps \ News(pick)
      /\ \A p \in DOMAIN apps' : apps'[p].pref = apps[p].pref /\ apps'[p].ahead = apps[p].ahead \ News(pick)
  BY DEF Delivers, Leave
<1>3. \A p \in DOMAIN row : p \notin News(pick) => row'[p] = row[p]
  BY DEF Delivers, Store
<1>4. \A p \in DOMAIN apps' : row'[p] = row[p] /\ Held(p)' = Held(p)
  BY <1>1, <1>2, <1>3 DEF Held
<1>5. /\ DOMAIN Queue = {o \in DOMAIN apps : ~row[o].ever /\ ~Held(o)} /\ \A p \in DOMAIN Queue : Queue[p] = apps[p]
      /\ DOMAIN Queue' = {o \in DOMAIN apps' : ~row'[o].ever /\ ~Held(o)'} /\ \A p \in DOMAIN Queue' : Queue'[p] = apps'[p]
  BY DEF Queue
<1> HIDE DEF Queue
<1>6. DOMAIN Queue' = DOMAIN Queue \ News(pick)
  BY <1>2, <1>4, <1>5
<1> QED BY <1>2, <1>4, <1>5, <1>6

LEMMA SoonestStays ==
  ASSUME PublicationsIInv, NEW pick, Delivers(pick), UNCHANGED held, NEW S, S \subseteq DOMAIN Queue', NEW pref
  PROVE  Soonest(S, pref)' = Soonest(S, pref)
<1>1. \A p \in S : p \notin News(pick) /\ Queue'[p].pref = Queue[p].pref /\ Queue'[p].ahead = Queue[p].ahead \ News(pick)
  BY RoundLeaves
<1>2. \A p, o \in S : Before(Queue, p, o, None, pref)' <=> Before(Queue, p, o, None, pref)
  BY <1>1 DEF Before
<1>3. First(Queue, S, None, pref)' = First(Queue, S, None, pref)
  BY <1>2 DEF First
<1> QED BY <1>3 DEF Soonest

LEMMA RoundAnnounced ==
  ASSUME PublicationsIInv, TablesIInv, AnnouncedIInv, NEW r \in Requests, At(r, "featured"), UNCHANGED <<now, held>>, Done(r),
         NEW pick, \A s \in Slots : pick[s] \in Picks(r, s), Delivers(pick)
  PROVE  AnnouncedIInv'
<1>1. \A x \in Requests : req'[x] = req[x] \/ req'[x].kind # "featured"
  BY DoneFacts
<1>2. EntriesSound'
  BY LeaveSound DEF Delivers, AnnouncedIInv
<1>3. CASE plan' = <<>>
  BY <1>1, <1>2, <1>3, AnnouncedReset
<1>4. CASE plan' # <<>>
  <2>1. DueRounds = {next} /\ Hours = DueRounds /\ plan # <<>> /\ plan' = Tail(plan)
    BY <1>4 DEF Delivers
  <2>2. next \in DOMAIN rounds' /\ now < next + Window /\ next \in Hours
    BY <2>1 DEF Delivers, Hours
  <2>3. next = now /\ now \in Nat /\ \A s \in Slots : pick[s] \in Select(req[r].pool, s, next, previews[s])
    BY <2>2, NextRound DEF PublicationsIInv, Typed
  <2>4. PlanSound /\ EntriesSound /\ req[r].pool = Queue
    BY <2>1 DEF AnnouncedIInv, ReleaseKnows, At
  <2>5. plan \in Seq(ToSet(plan)) /\ Len(plan') = Len(plan) - 1 /\ Len(plan) \in Nat /\ Len(plan) >= 1
        /\ \A i \in 1..Len(plan') : plan'[i] = plan[i + 1] /\ i + 1 \in 1..Len(plan)
    BY <2>1, <2>4 DEF PlanSound
  <2>6. plan' \in Seq(ToSet(plan'))
    <3>1. PICK q : q = plan'
      OBVIOUS
    <3>2. q = [i \in 1..Len(q) |-> q[i]] /\ Len(q) \in Nat /\ DOMAIN q = 1..Len(q)
      <4>1. q \in Seq(ToSet(plan))
        BY <2>1, <2>5, <3>1
      <4> QED BY <4>1
    <3>3. \A i \in 1..Len(q) : q[i] \in ToSet(q)
      BY <3>2 DEF ToSet
    <3>4. q \in Seq(ToSet(q))
      BY <3>2, <3>3
    <3> QED BY <3>1, <3>4
  <2>7. \A x \in Requests : ReleaseKnows(req[x])'
    <3> SUFFICES ASSUME NEW x \in Requests, req'[x].kind = "featured" PROVE FALSE
      BY DEF ReleaseKnows
    <3>1. req'[x] = req[x] /\ req[x].kind = "featured"
      BY <1>1
    <3>2. x = r
      BY <3>1 DEF AnnouncedIInv, ReleaseKnows, At, PublicationsIInv, Exclusive
    <3> QED BY <3>1, <3>2 DEF Done, Idle, PublicationsIInv, Typed
  <2>8. ASSUME NEW s \in Slots, NEW i \in 1..Len(plan') PROVE plan'[i][s] = Expected(s, i)'
    <3> DEFINE d == IF pick[s].kind = "new" THEN pick[s].p ELSE None
    <3>1. plan[1][s] = d
      <4>1. Delivered(s)
        BY RoundDelivers
      <4>2. rounds'[next] = pick
        BY <2>2, NextRound
      <4> QED BY <2>1, <2>2, <4>1, <4>2 DEF Delivered
    <3>2. \A o \in Slots : /\ (pick[o].kind = "new") <=> (Waits(o) # {})
                           /\ Waits(o) # {} => pick[o].p \in Waits(o)
      BY <2>3, <2>4, SelectedIsExpected
    <3>3. (pick[s].kind = "new") <=> (d # None)
      <4>1. None \notin Waits(s)
        BY QueueFacts DEF Waits
      <4> QED BY <3>2, <4>1
    <3>4. Waits(s)' = Waits(s) \ {d}
      <4>1. \A p \in Waits(s) : p \in News(pick) <=> p = d
        <5>1. ASSUME NEW p \in Waits(s), p \in News(pick) PROVE p = d
          <6>1. PICK o \in Slots : pick[o].kind = "new" /\ p = pick[o].p
            BY <5>1 DEF News
          <6>2. p \in Waits(o)
            BY <3>2, <6>1
          <6>3. o = s
            BY <5>1, <6>2 DEF Waits, InSlot
          <6> QED BY <6>1, <6>3
        <5>2. ASSUME NEW p \in Waits(s), p = d PROVE p \in News(pick)
          BY <3>2, <5>2 DEF News
        <5> QED BY <5>1, <5>2
      <4>2. DOMAIN Queue' = DOMAIN Queue \ News(pick) /\ \A p \in DOMAIN Queue' : row'[p] = row[p]
        BY RoundLeaves
      <4>3. \A p \in DOMAIN Queue' : InSlot(p, s)' <=> InSlot(p, s)
        BY <4>2 DEF InSlot
      <4> HIDE DEF d
      <4>4. Waits(s)' = {p \in DOMAIN Queue' : InSlot(p, s)'}
        BY DEF Waits
      <4>5. \A p : p \in Waits(s)' <=> p \in DOMAIN Queue' /\ InSlot(p, s)
        BY <4>3, <4>4
      <4> QED BY <4>1, <4>2, <4>5 DEF Waits
    <3> HIDE DEF d
    <3>5. PICK o, q : o = Column(s) /\ q = Column(s)'
      OBVIOUS
    <3>6. o[1] = d /\ (\A j \in 1..(i - 1) : q[j] = o[j + 1]) /\ i - 1 \in Nat /\ (i + 1) - 1 = i /\ (i - 1) + 1 = i
      <4>1. \A j \in 1..(i - 1) : j \in 1..Len(plan') /\ j + 1 \in 1..Len(plan) /\ plan'[j] = plan[j + 1]
        BY <2>5
      <4>2. 1 \in 1..Len(plan)
        BY <2>5
      <4>3. o[1] = d
        BY <3>1, <3>5, <4>2 DEF Column
      <4>4. \A j \in 1..Len(plan') : q[j] = plan'[j][s]
        BY <3>5 DEF Column
      <4>5. \A j \in 1..Len(plan) : o[j] = plan[j][s]
        BY <3>5 DEF Column
      <4> QED BY <2>5, <4>1, <4>3, <4>4, <4>5
    <3>7. /\ NamedBy(o, i) = {d} \cup NamedBy(q, i - 1)
          /\ Cardinality(GivenBy(o, i)) = Cardinality(GivenBy(q, i - 1)) + IF d = None THEN 0 ELSE 1
          /\ Cardinality(GivenBy(q, i - 1)) \in Nat
      <4>1. PICK k \in Nat : k = i - 1 /\ k + 1 = i
        BY <3>6
      <4>2. \A j \in 1..k : q[j] = o[j + 1]
        BY <3>6, <4>1
      <4>3. /\ NamedBy(o, k + 1) = {o[1]} \cup NamedBy(q, k)
            /\ Cardinality(GivenBy(o, k + 1)) = Cardinality(GivenBy(q, k)) + IF o[1] = None THEN 0 ELSE 1
            /\ Cardinality(GivenBy(q, k)) \in Nat
        BY <4>2, CountedFromSecond
      <4> QED BY <3>6, <4>1, <4>3
    <3>8. Gone(s, i + 1) = NamedBy(o, i) /\ Given(s, i + 1) = GivenBy(o, i)
      BY <2>5, <3>5, <3>6, ColumnFacts
    <3>9. Gone(s, i)' = NamedBy(q, i - 1) /\ Given(s, i)' = GivenBy(q, i - 1)
      <4>1. \A j \in 1..(i - 1) : plan'[j][s] = q[j]
        BY <2>5, <3>5 DEF Column
      <4> QED BY <4>1 DEF Gone, Given, NamedBy, GivenBy
    <3>10. PICK S, pref : S = Waits(s) \ NamedBy(o, i) /\ pref = Preference(NewCount(s) + Cardinality(GivenBy(o, i)))
      OBVIOUS
    <3>11. plan[i + 1][s] = Soonest(S, pref)
      <4>1. plan[i + 1][s] = Expected(s, i + 1) /\ i + 1 # 1
        BY <2>4, <2>5 DEF PlanSound
      <4> QED BY <3>8, <3>10, <4>1 DEF Expected
    <3>12. Waits(s)' \ Gone(s, i)' = S
      BY <3>4, <3>7, <3>9, <3>10
    <3>13. NewCount(s)' + Cardinality(Given(s, i)') = NewCount(s) + Cardinality(GivenBy(o, i))
      <4>1. NewCount(s)' = NewCount(s) + IF d = None THEN 0 ELSE 1
        BY <2>1, <2>2, <3>3, RoundCounts
      <4>2. NewCount(s) \in Nat
        BY CountIsNatural
      <4>3. PICK n, k : n = NewCount(s) /\ k = Cardinality(GivenBy(q, i - 1))
        OBVIOUS
      <4> QED BY <3>7, <3>9, <4>1, <4>2, <4>3
    <3>14. Preference(NewCount(s) + Cardinality(Given(s, i)))' = pref
      BY <3>10, <3>13 DEF Preference
    <3>15. previews'[s] = None /\ None \notin Waits(s)'
      BY <3>4, QueueFacts DEF Delivers, Waits
    <3>16. S \subseteq DOMAIN Queue'
      BY <3>12 DEF Waits
    <3>17. Soonest(S, pref)' = Soonest(S, pref)
      BY <3>16, SoonestStays
    <3>18. Expected(s, i)' = Soonest(S, pref)'
      BY <3>12, <3>14, <3>15 DEF Expected
    <3> QED BY <2>5, <3>11, <3>17, <3>18
  <2>9. PlanSound'
    BY <2>6, <2>8 DEF PlanSound
  <2> QED BY <1>2, <2>7, <2>9 DEF AnnouncedIInv
<1> QED BY <1>3, <1>4

LEMMA FeaturedAnnounced ==
  ASSUME PublicationsIInv, TablesIInv, AnnouncedIInv, NEW r \in Requests, FeaturedCommit(r), UNCHANGED now
  PROVE  AnnouncedIInv' /\ \A s \in Slots : Delivered(s)
<1>1. At(r, "featured") /\ Done(r) /\ UNCHANGED held
  BY RoundTaken
<1>2. CASE UNCHANGED <<row, apps, plan, next, previews, rounds>>
  <2>1. \A x \in Requests : req'[x] = req[x] \/ ReleaseKnows(req'[x])
    BY <1>1, DoneFacts DEF ReleaseKnows
  <2>2. AnnouncedIInv'
    BY <1>1, <1>2, <2>1, AnnouncedQuiet
  <2>3. next \notin DOMAIN rounds'
    BY <1>2, CountIsNatural
  <2> QED BY <2>2, <2>3 DEF Delivered
<1>3. ASSUME NEW pick, \A s \in Slots : pick[s] \in Picks(r, s), Delivers(pick)
      PROVE  AnnouncedIInv' /\ \A s \in Slots : Delivered(s)
  BY <1>1, <1>3, RoundAnnounced, RoundDelivers
<1> QED BY <1>2, <1>3, RoundTaken

LEMMA AnnouncedStart ==
  ASSUME Init
  PROVE  AnnouncedIInv
<1>1. /\ mix \in Mixes /\ now = mix.from /\ apps \in mix.waiting /\ plan = <<>> /\ req = [r \in Requests |-> Idle]
  BY DEF Init
<1>2. EntriesSound
  BY <1>1, EntryAssumption DEF EntriesSound
<1>3. PlanSound
  BY <1>1 DEF PlanSound, ToSet
<1> QED BY <1>1, <1>2, <1>3 DEF AnnouncedIInv, ReleaseKnows, Idle

LEMMA AnnouncedNext ==
  ASSUME PublicationsIInv, TablesIInv, AnnouncedIInv, [Next]_vars
  PROVE  AnnouncedIInv' /\ \A s \in Slots : Delivered(s)
<1>0. DOMAIN rounds' = DOMAIN rounds => \A s \in Slots : Delivered(s)
  BY CountIsNatural DEF Delivered
<1>1. ASSUME NEW r \in Requests, Transaction(r) PROVE AnnouncedIInv' /\ \A s \in Slots : Delivered(s)
  <2>1. UNCHANGED now
    BY <1>1 DEF Transaction
  <2>2. CASE Arrive(r) \/ SaveCheck(r) \/ Abort(r)
    BY <1>0, <2>1, <2>2, ArriveAnnounced
  <2>3. CASE SaveCommit(r) \/ ContestCommit(r) \/ PublishCommit(r) \/ ScheduleCommit(r) \/ ApplyCommit(r)
    BY <1>0, <2>1, <2>3, CommitAnnounced
  <2>4. CASE FeaturedLock(r)
    BY <1>0, <2>1, <2>4, FeaturedLockAnnounced
  <2>5. CASE FeaturedCommit(r)
    BY <2>1, <2>5, FeaturedAnnounced
  <2> QED BY <1>1, <2>2, <2>3, <2>4, <2>5 DEF Transaction, Commit
<1>2. CASE ReleaseContest \/ ReleaseScheduled \/ Tick \/ \E p \in Problems : Submit(p) \/ Withdraw(p) \/ Delete(p)
  BY <1>0, <1>2, OtherAnnounced
<1>3. CASE Preview
  BY <1>0, <1>3, PreviewAnnounced
<1>4. CASE UNCHANGED vars
  <2>1. UNCHANGED <<now, row, held, apps, previews, rounds, plan, req>>
    BY <1>4 DEF vars, tables, history
  <2> QED BY <1>0, <2>1, AnnouncedQuiet
<1> QED BY <1>1, <1>2, <1>3, <1>4 DEF Next

\* The problem announced for a round is the one it delivers, if it waited when the release read the
\* queue and still does, and a round on its day delivers what the plan shown before said, for as many
\* rounds as the plan lasts: the plan's recursion and the selection never drift apart.
THEOREM AnnouncedIsAlwaysDelivered == Spec => AnnouncedIsDelivered
<1>1. Init => AnnouncedIInv
  BY AnnouncedStart
<1>2. PublicationsIInv /\ TablesIInv /\ AnnouncedIInv /\ [Next]_vars => AnnouncedIInv' /\ [\A s \in Slots : Delivered(s)]_vars
  BY AnnouncedNext
<1> QED BY <1>1, <1>2, TablesInvariance, PTL DEF Spec, AnnouncedIsDelivered, Delivered

=============================================================================
