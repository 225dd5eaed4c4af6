----------------------- MODULE ContestResults_proofs -----------------------
(***************************************************************************)
(* The reveal and the freeze of a contest, for every number of requests,   *)
(* accounts, problems and submissions: revealed results are complete, only *)
(* authors, testers and operators queue a submission again afterwards, and *)
(* until then no verdict of a frozen submission shows in the table, the    *)
(* lists, the pages or the counts.                                         *)
(***************************************************************************)
EXTENDS ContestResults, FiniteSetTheorems, WellFoundedInduction, TLAPS

\* A set of naturals has a least element.
LEMMA LeastOf ==
  ASSUME NEW S, S \subseteq Nat, S # {}
  PROVE  \E x \in S : \A y \in S : x <= y
<1> DEFINE R == OpToRel(<, Nat)
<1>1. IsWellFoundedOn(R, Nat)
  BY NatLessThanWellFounded
<1>2. \A y, x \in Nat : y < x => <<y, x>> \in R
  BY DEF OpToRel
<1> HIDE DEF R
<1>3. PICK x \in S : \A y \in S : ~ (<<y, x>> \in R)
  BY <1>1, WFMin
<1>4. \A y \in S : ~(y < x)
  BY <1>2, <1>3
<1> QED BY <1>4

\* One with a bound has a greatest.
LEMMA GreatestOf ==
  ASSUME NEW S, S \subseteq Nat, S # {}, NEW n \in Nat, \A x \in S : x <= n
  PROVE  Max(S) \in S
<1> DEFINE Differences == {n - x : x \in S}
<1>1. PICK d \in Differences : \A e \in Differences : d <= e
  <2>1. Differences \subseteq Nat /\ Differences # {}
    <3>1. \A x \in S : x \in Nat /\ x <= n /\ n - x \in Nat
      OBVIOUS
    <3> QED BY <3>1
  <2> HIDE DEF Differences
  <2> QED BY <2>1, LeastOf
<1>2. PICK x \in S : d = n - x
  OBVIOUS
<1>3. \A y \in S : x >= y
  <2> TAKE y \in S
  <2>1. n - x <= n - y
    BY <1>1, <1>2
  <2> QED BY <2>1
<1> QED BY <1>3 DEF Max

-----------------------------------------------------------------------------
\* What open requests have seen and rely on.
PastRequests == \A r \in Open("submit") : req[r].at <= clock
EndHasCome == /\ Final => End <= clock
              /\ \A r \in Open("reveal") : /\ req[r].at \in {"locked", "checked"} => req[r].ended
                                           /\ req[r].ended => End <= clock
\* A reveal that holds the contest is beside no submission, and one that has looked at the
\* submissions beside no rejudge that holds its problem: what it found stays so.
RevealAlone == /\ Locking # {} => Open("submit") = {}
               /\ \A r \in Open("reveal") : req[r].at = "checked" =>
                    PendingRuns = {} /\ \A q \in Open("rejudge") : req[q].at # "locked"
\* What is still open after the reveal: submissions after the end, rejudges that know of it.
AfterReveal == /\ Final => \A r \in Open("submit") : End <= req[r].at
               /\ Final => \A r \in Open("rejudge") : req[r].at = "locked" => req[r].final
               /\ \A r \in Open("rejudge") : req[r].final => req[r].who \in Authors \cup {Operator}
RunsHaveRoom == Len(runs) + Cardinality(Open("submit")) <= mix.runs

ResultsIInv == TypeOK /\ RunsHaveRoom /\ PastRequests /\ EndHasCome /\ RevealAlone /\ AfterReveal /\ RevealedIsComplete

Calls == {Free} \cup Submit \cup Rejudge \cup Reveal

-----------------------------------------------------------------------------
LEMMA TimeFacts ==
  /\ Start \in Nat /\ FreezeAt \in Nat /\ End \in Nat /\ MaxClock \in Nat /\ NoTime = MaxClock + 1
  /\ Start < FreezeAt /\ FreezeAt < End /\ End <= MaxClock
BY TimesAssumption DEF NoTime

LEMMA CallChanges ==
  ASSUME TypeOK, NEW r \in Requests, NEW q \in Calls, req' = [req EXCEPT ![r] = q]
  PROVE  /\ req' \in [Requests -> Calls] /\ req'[r] = q
         /\ \A x \in Requests : x # r => req'[x] = req[x]
BY DEF TypeOK, Calls

LEMMA OpensAreFinite ==
  ASSUME NEW op
  PROVE  IsFiniteSet(Open(op)) /\ Cardinality(Open(op)) \in Nat
<1>1. IsFiniteSet(Open(op))
  BY MixAssumption, FS_Subset DEF Open
<1> QED BY <1>1, FS_CardinalityType

\* A request that ends without a write.
LEMMA DoneKeeps ==
  ASSUME ResultsIInv, NEW r \in Requests, Done(r), UNCHANGED <<mix, clock, runs, revealed>>
  PROVE  ResultsIInv'
<1>1. /\ req' \in [Requests -> Calls] /\ req'[r] = Free
      /\ \A x \in Requests : x # r => req'[x] = req[x]
  BY CallChanges DEF Done, Calls, ResultsIInv
<1>2. TypeOK'
  BY <1>1 DEF ResultsIInv, TypeOK, Calls
<1>3. \A op : Open(op)' \subseteq Open(op) /\ \A x \in Open(op)' : req'[x] = req[x]
  BY <1>1 DEF Open
<1>4. RunsHaveRoom'
  <2>1. Open("submit")' \subseteq Open("submit")
    BY <1>3
  <2>2. Cardinality(Open("submit")') <= Cardinality(Open("submit")) /\ Cardinality(Open("submit")') \in Nat
    BY <2>1, OpensAreFinite, FS_Subset, FS_CardinalityType
  <2>3. Len(runs) \in Nat /\ mix.runs \in Nat
    BY MixAssumption DEF ResultsIInv, TypeOK
  <2> QED BY <2>2, <2>3, OpensAreFinite DEF ResultsIInv, RunsHaveRoom
<1>5. PastRequests' /\ EndHasCome' /\ AfterReveal' /\ RevealedIsComplete'
  BY <1>3 DEF ResultsIInv, PastRequests, EndHasCome, AfterReveal, RevealedIsComplete, Final, Counted, Competitors, Entered
<1>6. RevealAlone'
  BY <1>3 DEF ResultsIInv, RevealAlone, Locking, PendingRuns, Counted, Competitors, Entered
<1> QED BY <1>2, <1>4, <1>5, <1>6 DEF ResultsIInv

\* What the submissions are made of stays when a request writes none.
LEMMA SubmitBeginKeeps ==
  ASSUME ResultsIInv, NEW r \in Requests, SubmitBegin(r)
  PROVE  ResultsIInv'
<1>1. PICK v \in mix.people, p \in mix.problems :
        req' = [req EXCEPT ![r] = [op |-> "submit", who |-> v, problem |-> p, at |-> clock]]
  BY DEF SubmitBegin
<1> DEFINE q == [op |-> "submit", who |-> v, problem |-> p, at |-> clock]
<1>2. /\ Locking = {} /\ req[r] = Free /\ Len(runs) + Cardinality(Open("submit")) < mix.runs
      /\ UNCHANGED <<mix, clock, runs, revealed>>
  BY DEF SubmitBegin, MayOpen, ContestTaken
<1>3. q \in Submit /\ clock \in Nat /\ mix.runs \in Nat /\ Len(runs) \in Nat
  BY MixAssumption, TimeFacts DEF ResultsIInv, TypeOK, Submit
<1>4. req' \in [Requests -> Calls] /\ req'[r] = q /\ \A x \in Requests : x # r => req'[x] = req[x]
  BY <1>1, <1>3, CallChanges DEF Calls, ResultsIInv
<1>5. TypeOK'
  BY <1>2, <1>4 DEF ResultsIInv, TypeOK, Calls
<1>6. /\ Open("submit")' \subseteq Open("submit") \cup {r} /\ r \notin Open("submit")
      /\ \A op : op # "submit" => Open(op)' = Open(op) /\ \A x \in Open(op) : req'[x] = req[x]
      /\ \A x \in Open("submit")' : x # r => x \in Open("submit") /\ req'[x] = req[x]
  BY <1>2, <1>4 DEF Open
<1>7. RunsHaveRoom'
  <2>1. IsFiniteSet(Open("submit") \cup {r}) /\ Cardinality(Open("submit") \cup {r}) = Cardinality(Open("submit")) + 1
    BY <1>6, OpensAreFinite, FS_AddElement
  <2>2. Cardinality(Open("submit")') <= Cardinality(Open("submit")) + 1 /\ Cardinality(Open("submit")') \in Nat
    BY <1>6, <2>1, FS_Subset, FS_CardinalityType
  <2> QED BY <1>2, <1>3, <2>2, OpensAreFinite DEF RunsHaveRoom
<1>8. PastRequests'
  BY <1>2, <1>3, <1>4, <1>6 DEF ResultsIInv, PastRequests
<1>9. EndHasCome' /\ RevealedIsComplete'
  BY <1>2, <1>6 DEF ResultsIInv, EndHasCome, RevealedIsComplete, Final, Counted, Competitors, Entered
<1>10. RevealAlone'
  BY <1>2, <1>4, <1>6 DEF ResultsIInv, RevealAlone, Locking, PendingRuns, Counted, Competitors, Entered
<1>11. AfterReveal'
  BY <1>2, <1>4, <1>6 DEF ResultsIInv, AfterReveal, EndHasCome, Final
<1> QED BY <1>5, <1>7, <1>8, <1>9, <1>10, <1>11 DEF ResultsIInv

\* A submission that shows is past, and after the reveal it does not count.
LEMMA SubmitCommitKeeps ==
  ASSUME ResultsIInv, NEW r \in Requests, SubmitCommit(r)
  PROVE  ResultsIInv'
<1> DEFINE new == [by |-> req[r].who, problem |-> req[r].problem, at |-> req[r].at, result |-> Pending, again |-> "no"]
<1>1. r \in Open("submit") /\ runs' = Append(runs, new) /\ Done(r) /\ UNCHANGED <<mix, clock, revealed>>
  BY DEF SubmitCommit
<1>2. req[r] \in Submit
  BY <1>1 DEF ResultsIInv, TypeOK, Open, Rejudge, Reveal
<1>3. new \in Run /\ new.at = req[r].at /\ new.result = Pending /\ req[r].at \in Nat
  BY <1>2, TimeFacts DEF Run, Submit
<1> HIDE DEF new
<1>4. /\ runs \in Seq(Run) /\ Len(runs) \in Nat /\ runs' \in Seq(Run) /\ Len(runs') = Len(runs) + 1
      /\ DOMAIN runs' = DOMAIN runs \cup {Len(runs) + 1}
      /\ (\A i \in DOMAIN runs : runs'[i] = runs[i]) /\ runs'[Len(runs) + 1] = new
  BY <1>1, <1>3 DEF ResultsIInv, TypeOK
<1>5. req' \in [Requests -> Calls] /\ req'[r] = Free /\ \A x \in Requests : x # r => req'[x] = req[x]
  BY <1>1, CallChanges DEF Done, Calls, ResultsIInv
<1>6. /\ \A op : Open(op)' \subseteq Open(op) /\ \A x \in Open(op)' : req'[x] = req[x]
      /\ Open("submit")' = Open("submit") \ {r}
  BY <1>5 DEF Open
<1>7. RunsHaveRoom'
  <2>1. Cardinality(Open("submit")') = Cardinality(Open("submit")) - 1
    BY <1>1, <1>6, OpensAreFinite, FS_RemoveElement
  <2>2. mix.runs \in Nat
    BY MixAssumption DEF ResultsIInv, TypeOK
  <2> QED BY <1>1, <1>4, <2>1, <2>2, OpensAreFinite DEF ResultsIInv, RunsHaveRoom
<1>8. TypeOK'
  <2>1. Cardinality(Open("submit")') \in Nat /\ mix.runs \in Nat
    BY <1>6, OpensAreFinite, FS_Subset, FS_CardinalityType, MixAssumption DEF ResultsIInv, TypeOK
  <2>2. Len(runs') <= mix.runs
    BY <1>1, <1>4, <1>7, <2>1 DEF RunsHaveRoom
  <2> QED BY <1>1, <1>4, <1>5, <2>2 DEF ResultsIInv, TypeOK, Calls
<1>9. PastRequests' /\ EndHasCome' /\ AfterReveal'
  BY <1>1, <1>6 DEF ResultsIInv, PastRequests, EndHasCome, AfterReveal, Final
<1>10. Locking = {} /\ Locking' = {}
  BY <1>1, <1>6 DEF ResultsIInv, RevealAlone, Locking
<1>11. RevealAlone'
  BY <1>10 DEF RevealAlone, Locking
<1>12. RevealedIsComplete'
  <2>1. SUFFICES ASSUME Final', NEW i \in DOMAIN runs', Counted(runs'[i]), runs'[i].result = Pending
                 PROVE  runs'[i].again = "after"
    BY <1>1 DEF RevealedIsComplete, Counted, Competitors, Entered
  <2>2. CASE i \in DOMAIN runs
    BY <1>1, <1>4, <2>1, <2>2 DEF ResultsIInv, RevealedIsComplete, Final, Counted, Competitors, Entered
  <2>3. CASE i = Len(runs) + 1
    <3>1. End <= req[r].at
      BY <1>1, <2>1 DEF ResultsIInv, AfterReveal, Final
    <3>2. new.at < End
      BY <1>4, <2>1, <2>3 DEF Counted
    <3> QED BY <1>3, <3>1, <3>2, TimeFacts
  <2> QED BY <1>4, <2>2, <2>3
<1> QED BY <1>7, <1>8, <1>9, <1>11, <1>12 DEF ResultsIInv

\* A result or a rejudge changes no more of a submission.
LEMMA WrittenRuns ==
  ASSUME TypeOK, DOMAIN runs' = DOMAIN runs, UNCHANGED <<mix, revealed>>, runs' = [i \in DOMAIN runs |-> runs'[i]],
         \A i \in DOMAIN runs : \/ runs'[i] = runs[i]
                                \/ \E result \in Results \cup {Pending}, again \in {"no", "before", "after"} :
                                     runs'[i] = With(runs[i], result, again)
  PROVE  /\ runs' \in Seq(Run) /\ Len(runs') = Len(runs)
         /\ \A i \in DOMAIN runs : Counted(runs'[i]) <=> Counted(runs[i])
<1>1. runs \in Seq(Run) /\ DOMAIN runs = 1..Len(runs) /\ Len(runs) \in Nat
  BY DEF TypeOK
<1>2. ASSUME NEW i \in DOMAIN runs PROVE runs'[i] \in Run /\ (Counted(runs'[i]) <=> Counted(runs[i]))
  <2>1. runs[i] \in Run
    BY <1>1
  <2>2. runs'[i].by = runs[i].by /\ runs'[i].at = runs[i].at
    BY DEF With
  <2>3. runs'[i] \in Run
    BY <2>1 DEF With, Run
  <2> QED BY <2>2, <2>3 DEF Counted, Competitors, Entered
<1>3. runs' \in Seq(Run) /\ Len(runs') = Len(runs)
  BY <1>1, <1>2
<1> QED BY <1>2, <1>3

LEMMA FinishKeeps ==
  ASSUME ResultsIInv, Finish
  PROVE  ResultsIInv'
<1>1. PICK j \in DOMAIN runs, result \in mix.results :
        runs[j].result = Pending /\ runs' = [runs EXCEPT ![j] = With(runs[j], result, runs[j].again)]
  BY DEF Finish
<1>2. UNCHANGED <<mix, clock, revealed, req>>
  BY DEF Finish
<1>3. result \in Results /\ result # Pending
  <2>1. result \in Results
    BY MixAssumption DEF ResultsIInv, TypeOK
  <2>2. result.verdict # "none"
    <3>1. result.verdict \in Scored \cup {"CE", "JE"}
      BY <2>1, ResultsAssumption
    <3> QED BY <3>1 DEF Scored
  <2> QED BY <2>1, <2>2 DEF Pending
<1>4. runs[j] \in Run
  BY DEF ResultsIInv, TypeOK
<1>5. /\ runs' \in Seq(Run) /\ Len(runs') = Len(runs) /\ DOMAIN runs' = DOMAIN runs
      /\ \A i \in DOMAIN runs : Counted(runs'[i]) <=> Counted(runs[i])
  <2>1. DOMAIN runs' = DOMAIN runs /\ runs' = [i \in DOMAIN runs |-> runs'[i]]
    BY <1>1
  <2>2. \A i \in DOMAIN runs : \/ runs'[i] = runs[i]
                                \/ \E new \in Results \cup {Pending}, again \in {"no", "before", "after"} :
                                     runs'[i] = With(runs[i], new, again)
    BY <1>1, <1>3, <1>4 DEF Run
  <2> QED BY <1>2, <2>1, <2>2, WrittenRuns DEF ResultsIInv
<1>6. \A i \in DOMAIN runs : runs'[i].result = Pending => runs'[i] = runs[i]
  BY <1>1, <1>3 DEF With
<1>7. \A op : Open(op)' = Open(op)
  BY <1>2 DEF Open
<1>8. TypeOK' /\ RunsHaveRoom'
  BY <1>2, <1>5, <1>7 DEF ResultsIInv, TypeOK, RunsHaveRoom
<1>9. PastRequests' /\ EndHasCome' /\ AfterReveal'
  BY <1>2, <1>7 DEF ResultsIInv, PastRequests, EndHasCome, AfterReveal, Final
<1>10. PendingRuns' \subseteq PendingRuns /\ Locking' = Locking
  BY <1>2, <1>5, <1>6, <1>7 DEF PendingRuns, Locking, Counted, Competitors, Entered
<1>11. RevealAlone'
  BY <1>2, <1>7, <1>10 DEF ResultsIInv, RevealAlone
<1>12. RevealedIsComplete'
  BY <1>2, <1>5, <1>6 DEF ResultsIInv, RevealedIsComplete, Final, Counted, Competitors, Entered
<1> QED BY <1>8, <1>9, <1>11, <1>12 DEF ResultsIInv

\* A request that changes nothing but what it has seen.
LEMMA OnlyRequest ==
  ASSUME ResultsIInv, NEW r \in Requests, NEW q \in Rejudge \cup Reveal, req' = [req EXCEPT ![r] = q],
         UNCHANGED <<mix, clock, runs, revealed>>, req[r] = Free \/ req[r].op \in {"rejudge", "reveal"}
  PROVE  /\ TypeOK' /\ RunsHaveRoom' /\ PastRequests' /\ RevealedIsComplete'
         /\ Open("submit")' = Open("submit") /\ PendingRuns' = PendingRuns
         /\ req'[r] = q /\ \A x \in Requests : x # r => req'[x] = req[x]
<1>1. /\ req' \in [Requests -> Calls] /\ req'[r] = q
      /\ \A x \in Requests : x # r => req'[x] = req[x]
  BY CallChanges DEF Calls, ResultsIInv
<1>2. Open("submit")' = Open("submit") /\ \A x \in Open("submit") : req'[x] = req[x]
  BY <1>1 DEF Open, Rejudge, Reveal
<1>3. TypeOK' /\ RunsHaveRoom' /\ PastRequests'
  BY <1>1, <1>2 DEF ResultsIInv, TypeOK, RunsHaveRoom, PastRequests, Calls
<1>4. RevealedIsComplete' /\ PendingRuns' = PendingRuns
  BY DEF ResultsIInv, RevealedIsComplete, PendingRuns, Final, Counted, Competitors, Entered
<1> QED BY <1>1, <1>2, <1>3, <1>4

LEMMA RejudgeBeginKeeps ==
  ASSUME ResultsIInv, NEW r \in Requests, RejudgeBegin(r)
  PROVE  ResultsIInv'
<1>1. PICK who \in Staff \cup {Operator}, p \in mix.problems :
        req' = [req EXCEPT ![r] = [op |-> "rejudge", at |-> "asked", who |-> who, problem |-> p, final |-> FALSE, targets |-> {}]]
  BY DEF RejudgeBegin
<1> DEFINE q == [op |-> "rejudge", at |-> "asked", who |-> who, problem |-> p, final |-> FALSE, targets |-> {}]
<1>2. UNCHANGED <<mix, clock, runs, revealed>> /\ req[r] = Free
  BY DEF RejudgeBegin, MayOpen
<1>3. q \in Rejudge
  BY MixAssumption DEF ResultsIInv, TypeOK, Rejudge
<1>4. /\ TypeOK' /\ RunsHaveRoom' /\ PastRequests' /\ RevealedIsComplete'
      /\ Open("submit")' = Open("submit") /\ PendingRuns' = PendingRuns
      /\ req'[r] = q /\ \A x \in Requests : x # r => req'[x] = req[x]
  BY <1>1, <1>2, <1>3, OnlyRequest
<1>5. Locking' = Locking /\ Open("reveal")' = Open("reveal") /\ \A x \in Open("reveal") : req'[x] = req[x]
  BY <1>2, <1>4 DEF Locking, Open
<1>6. Open("rejudge")' \subseteq Open("rejudge") \cup {r} /\ \A x \in Open("rejudge") : x # r /\ req'[x] = req[x]
  BY <1>2, <1>4 DEF Open
<1>7. EndHasCome' /\ RevealAlone' /\ AfterReveal'
  <2>1. EndHasCome'
    BY <1>2, <1>5 DEF ResultsIInv, EndHasCome, Final
  <2>2. RevealAlone'
    BY <1>4, <1>5, <1>6 DEF ResultsIInv, RevealAlone
  <2>3. \A x \in Open("submit") : req'[x] = req[x]
    BY <1>2, <1>4 DEF Open
  <2>4. AfterReveal'
    BY <1>2, <1>4, <1>6, <2>3 DEF ResultsIInv, AfterReveal, Final
  <2> QED BY <2>1, <2>2, <2>4
<1> QED BY <1>4, <1>7 DEF ResultsIInv

\* The rejudge that has the problem's lock knows whether the results are final, and whose right it is.
LEMMA RejudgeLockKeeps ==
  ASSUME ResultsIInv, NEW r \in Requests, RejudgeLock(r)
  PROVE  ResultsIInv'
<1>1. r \in Open("rejudge") /\ ~ProblemsShared /\ UNCHANGED <<mix, clock, runs, revealed>>
  BY DEF RejudgeLock
<1>2. CASE Done(r)
  BY <1>1, <1>2, DoneKeeps
<1>3. CASE ~Done(r)
  <2>1. Rechecked(req[r].who)
    BY <1>3 DEF RejudgeLock
  <2>2. PICK targets \in SUBSET {i \in DOMAIN runs : runs[i].problem = req[r].problem /\ runs[i].result # Pending} :
          req' = [req EXCEPT ![r] = [op |-> "rejudge", at |-> "locked", who |-> req[r].who, problem |-> req[r].problem,
                                     final |-> Final, targets |-> targets]]
    BY <1>3 DEF RejudgeLock
  <2> DEFINE q == [op |-> "rejudge", at |-> "locked", who |-> req[r].who, problem |-> req[r].problem,
                   final |-> Final, targets |-> targets]
  <2>3. req[r] \in Rejudge
    BY <1>1 DEF ResultsIInv, TypeOK, Open, Submit, Reveal
  <2>4. q \in Rejudge
    <3>1. targets \subseteq Nat
      BY DEF ResultsIInv, TypeOK
    <3>2. Final \in BOOLEAN
      BY DEF Final
    <3> QED BY <2>3, <3>1, <3>2 DEF Rejudge
  <2>5. /\ TypeOK' /\ RunsHaveRoom' /\ PastRequests' /\ RevealedIsComplete'
        /\ Open("submit")' = Open("submit") /\ PendingRuns' = PendingRuns
        /\ req'[r] = q /\ \A x \in Requests : x # r => req'[x] = req[x]
    BY <1>1, <2>2, <2>3, <2>4, OnlyRequest DEF Rejudge
  <2>6. /\ Open("reveal")' = Open("reveal") /\ Locking' = Locking
        /\ \A x \in Open("reveal") \cup Open("submit") : x # r /\ req'[x] = req[x]
    BY <1>1, <2>5 DEF Open, Locking
  <2>7. Open("rejudge")' \subseteq Open("rejudge") \cup {r}
    BY <2>5 DEF Open
  <2>8. EndHasCome'
    BY <1>1, <2>6 DEF ResultsIInv, EndHasCome, Final
  <2>9. RevealAlone'
    <3>1. \A x \in Open("reveal") : req[x].at # "checked"
      BY <1>1 DEF ProblemsShared
    <3> QED BY <2>5, <2>6, <3>1 DEF ResultsIInv, RevealAlone
  <2>10. AfterReveal'
    <3>1. Final => req[r].who \in Authors \cup {Operator}
      BY <2>1 DEF Rechecked, Manages
    <3>2. q.final = Final /\ q.who = req[r].who /\ Final' = Final
      BY <1>1 DEF Final
    <3> HIDE DEF q
    <3>3. \A x \in Open("rejudge")' : x # r => x \in Open("rejudge") /\ req'[x] = req[x]
      BY <2>5 DEF Open
    <3> QED BY <2>5, <2>6, <3>1, <3>2, <3>3 DEF ResultsIInv, AfterReveal
  <2> QED BY <2>5, <2>8, <2>9, <2>10 DEF ResultsIInv
<1> QED BY <1>2, <1>3

LEMMA RejudgeCommitKeeps ==
  ASSUME ResultsIInv, NEW r \in Requests, RejudgeCommit(r)
  PROVE  ResultsIInv'
<1>1. /\ r \in Open("rejudge") /\ req[r].at = "locked" /\ Done(r) /\ UNCHANGED <<mix, clock, revealed>>
      /\ runs' = [i \in DOMAIN runs |-> IF i \in req[r].targets
                                        THEN With(runs[i], Pending, IF req[r].final THEN "after" ELSE "before") ELSE runs[i]]
  BY DEF RejudgeCommit
<1>2. /\ req' \in [Requests -> Calls] /\ req'[r] = Free
      /\ \A x \in Requests : x # r => req'[x] = req[x]
  BY <1>1, CallChanges DEF Done, Calls, ResultsIInv
<1>3. \A op : Open(op)' \subseteq Open(op) /\ \A x \in Open(op)' : req'[x] = req[x]
  BY <1>2 DEF Open
<1>4. Open("submit")' = Open("submit")
  BY <1>1, <1>2 DEF Open
<1>5. /\ runs' \in Seq(Run) /\ Len(runs') = Len(runs) /\ DOMAIN runs' = DOMAIN runs
      /\ \A i \in DOMAIN runs : Counted(runs'[i]) <=> Counted(runs[i])
  <2>1. DOMAIN runs' = DOMAIN runs /\ runs' = [i \in DOMAIN runs |-> runs'[i]]
    BY <1>1
  <2>2. \A i \in DOMAIN runs : \/ runs'[i] = runs[i]
                                \/ \E new \in Results \cup {Pending}, again \in {"no", "before", "after"} :
                                     runs'[i] = With(runs[i], new, again)
    BY <1>1
  <2> QED BY <1>1, <2>1, <2>2, WrittenRuns DEF ResultsIInv
<1>6. TypeOK' /\ RunsHaveRoom'
  BY <1>1, <1>2, <1>4, <1>5 DEF ResultsIInv, TypeOK, RunsHaveRoom, Calls
<1>7. PastRequests' /\ EndHasCome' /\ AfterReveal'
  BY <1>1, <1>3 DEF ResultsIInv, PastRequests, EndHasCome, AfterReveal, Final
<1>8. RevealAlone'
  <2>1. \A x \in Open("reveal") : req[x].at # "checked"
    BY <1>1 DEF ResultsIInv, RevealAlone
  <2> QED BY <1>3, <2>1 DEF ResultsIInv, RevealAlone, Locking
<1>9. RevealedIsComplete'
  <2>1. SUFFICES ASSUME Final, NEW i \in DOMAIN runs, Counted(runs[i]), runs'[i].result = Pending
                 PROVE  runs'[i].again = "after"
    BY <1>1, <1>5 DEF RevealedIsComplete, Final, Counted, Competitors, Entered
  <2>2. CASE i \in req[r].targets
    <3>1. req[r].final
      BY <1>1, <2>1 DEF ResultsIInv, AfterReveal
    <3> QED BY <1>1, <2>2, <3>1 DEF With
  <2>3. CASE i \notin req[r].targets
    BY <1>1, <2>1, <2>3 DEF ResultsIInv, RevealedIsComplete
  <2> QED BY <2>2, <2>3
<1> QED BY <1>6, <1>7, <1>8, <1>9 DEF ResultsIInv

LEMMA RevealBeginKeeps ==
  ASSUME ResultsIInv, NEW r \in Requests, RevealBegin(r)
  PROVE  ResultsIInv'
<1> DEFINE q == [op |-> "reveal", at |-> "asked", ended |-> End <= clock]
<1>1. UNCHANGED <<mix, clock, runs, revealed>> /\ req[r] = Free /\ req' = [req EXCEPT ![r] = q]
  BY DEF RevealBegin, MayOpen
<1>2. q \in Reveal
  BY DEF Reveal
<1>3. /\ TypeOK' /\ RunsHaveRoom' /\ PastRequests' /\ RevealedIsComplete'
      /\ Open("submit")' = Open("submit") /\ PendingRuns' = PendingRuns
      /\ req'[r] = q /\ \A x \in Requests : x # r => req'[x] = req[x]
  BY <1>1, <1>2, OnlyRequest
<1>4. /\ Open("reveal")' \subseteq Open("reveal") \cup {r} /\ Locking' = Locking /\ Open("rejudge")' = Open("rejudge")
      /\ \A op : \A x \in Open(op) : x # r /\ req'[x] = req[x]
  BY <1>1, <1>3 DEF Open, Locking
<1>5. q.at = "asked" /\ q.ended = (End <= clock)
  OBVIOUS
<1> HIDE DEF q
<1>6. EndHasCome'
  BY <1>1, <1>3, <1>4, <1>5 DEF ResultsIInv, EndHasCome, Final
<1>7. RevealAlone' /\ AfterReveal'
  BY <1>1, <1>3, <1>4, <1>5 DEF ResultsIInv, RevealAlone, AfterReveal, Final
<1> QED BY <1>3, <1>6, <1>7 DEF ResultsIInv

\* A reveal that goes on: to the lock when no submission is open, to its check when no rejudge is.
LEMMA RevealGoesOn ==
  ASSUME ResultsIInv, NEW r \in Open("reveal"), NEW at \in {"locked", "checked"}, RevealAt(r, at),
         req[r].ended, Open("submit") = {},
         at = "checked" => PendingRuns = {} /\ \A q \in Open("rejudge") : req[q].at # "locked",
         UNCHANGED <<mix, clock, runs, revealed>>
  PROVE  ResultsIInv'
<1> DEFINE q == [op |-> "reveal", at |-> at, ended |-> req[r].ended]
<1>1. r \in Requests /\ req[r] # Free /\ req[r].op = "reveal" /\ req' = [req EXCEPT ![r] = q]
  BY DEF Open, RevealAt
<1>2. req[r] \in Reveal
  BY <1>1 DEF ResultsIInv, TypeOK, Submit, Rejudge
<1>3. q \in Reveal /\ q.at = at /\ q.ended
  BY <1>2 DEF Reveal
<1> HIDE DEF q
<1>4. /\ TypeOK' /\ RunsHaveRoom' /\ PastRequests' /\ RevealedIsComplete'
      /\ Open("submit")' = Open("submit") /\ PendingRuns' = PendingRuns
      /\ req'[r] = q /\ \A x \in Requests : x # r => req'[x] = req[x]
  BY <1>1, <1>3, OnlyRequest
<1>5. /\ Open("reveal")' \subseteq Open("reveal") /\ \A x \in Open("reveal") : x # r => req'[x] = req[x]
      /\ Open("rejudge")' = Open("rejudge") /\ \A x \in Open("rejudge") : req'[x] = req[x]
  BY <1>1, <1>3, <1>4 DEF Open, Reveal
<1>6. EndHasCome'
  BY <1>3, <1>4, <1>5 DEF ResultsIInv, EndHasCome, Final
<1>7. RevealAlone'
  BY <1>3, <1>4, <1>5 DEF ResultsIInv, RevealAlone
<1>8. AfterReveal'
  BY <1>4, <1>5 DEF ResultsIInv, AfterReveal, Final
<1> QED BY <1>4, <1>6, <1>7, <1>8 DEF ResultsIInv

LEMMA RevealLockKeeps ==
  ASSUME ResultsIInv, NEW r \in Requests, RevealLock(r)
  PROVE  ResultsIInv'
<1>1. r \in Open("reveal") /\ Open("submit") = {} /\ UNCHANGED <<mix, clock, runs, revealed>>
  BY DEF RevealLock, ContestShared
<1>2. CASE Done(r)
  BY <1>1, <1>2, DoneKeeps
<1>3. CASE ~Done(r)
  BY <1>1, <1>3, RevealGoesOn DEF RevealLock
<1> QED BY <1>2, <1>3

LEMMA RevealCheckKeeps ==
  ASSUME ResultsIInv, NEW r \in Requests, RevealCheck(r)
  PROVE  ResultsIInv'
<1>1. r \in Open("reveal") /\ req[r].at = "locked" /\ ~ProblemsTaken /\ UNCHANGED <<mix, clock, runs, revealed>>
  BY DEF RevealCheck
<1>2. CASE Done(r)
  BY <1>1, <1>2, DoneKeeps
<1>3. CASE ~Done(r)
  <2>1. PendingRuns = {} /\ RevealAt(r, "checked")
    BY <1>3 DEF RevealCheck
  <2>2. Open("submit") = {}
    BY <1>1 DEF ResultsIInv, RevealAlone, Locking
  <2>3. req[r].ended
    BY <1>1 DEF ResultsIInv, EndHasCome
  <2>4. \A q \in Open("rejudge") : req[q].at # "locked"
    <3>1. SUFFICES ASSUME NEW q \in Open("rejudge"), req[q].at = "locked" PROVE FALSE
      OBVIOUS
    <3>2. req[q].problem \in Problems
      BY DEF ResultsIInv, TypeOK, Open, Submit, Rejudge, Reveal
    <3> QED BY <1>1, <3>1, <3>2 DEF ProblemsTaken, ProblemTaken
  <2> QED BY <1>1, <2>1, <2>2, <2>3, <2>4, RevealGoesOn
<1> QED BY <1>2, <1>3

\* At the reveal nothing that counts is pending, and nobody is about to change that.
LEMMA RevealCommitKeeps ==
  ASSUME ResultsIInv, NEW r \in Requests, RevealCommit(r)
  PROVE  ResultsIInv'
<1>1. r \in Open("reveal") /\ req[r].at = "checked" /\ revealed' = clock /\ Done(r) /\ UNCHANGED <<mix, clock, runs>>
  BY DEF RevealCommit
<1>2. End <= clock /\ clock \in End..NoTime /\ Open("submit") = {} /\ PendingRuns = {}
  <2>1. End <= clock
    BY <1>1 DEF ResultsIInv, EndHasCome
  <2>2. clock \in 0..MaxClock
    BY DEF ResultsIInv, TypeOK
  <2>3. clock \in End..NoTime
    BY <2>1, <2>2, TimeFacts
  <2>4. Open("submit") = {} /\ PendingRuns = {}
    BY <1>1 DEF ResultsIInv, RevealAlone, Locking
  <2> QED BY <2>1, <2>3, <2>4
<1>3. \A q \in Open("rejudge") : req[q].at # "locked"
  BY <1>1 DEF ResultsIInv, RevealAlone
<1>4. /\ req' \in [Requests -> Calls] /\ req'[r] = Free
      /\ \A x \in Requests : x # r => req'[x] = req[x]
  BY <1>1, CallChanges DEF Done, Calls, ResultsIInv
<1>5. \A op : Open(op)' \subseteq Open(op) /\ \A x \in Open(op)' : req'[x] = req[x]
  BY <1>4 DEF Open
<1>6. Open("submit")' = {} /\ PendingRuns' = {}
  BY <1>1, <1>2, <1>5 DEF PendingRuns, Counted, Competitors, Entered
<1>7. TypeOK'
  BY <1>1, <1>2, <1>4 DEF ResultsIInv, TypeOK, Calls
<1>8. RunsHaveRoom' /\ PastRequests'
  BY <1>1, <1>2, <1>6 DEF ResultsIInv, RunsHaveRoom, PastRequests
<1>9. EndHasCome'
  BY <1>1, <1>2, <1>5 DEF ResultsIInv, EndHasCome
<1>10. RevealAlone' /\ AfterReveal'
  BY <1>3, <1>5, <1>6 DEF ResultsIInv, RevealAlone, AfterReveal
<1>11. RevealedIsComplete'
  BY <1>6 DEF RevealedIsComplete, PendingRuns
<1> QED BY <1>7, <1>8, <1>9, <1>10, <1>11 DEF ResultsIInv

LEMMA TimeKeeps ==
  ASSUME ResultsIInv, Tick \/ UNCHANGED vars
  PROVE  ResultsIInv'
<1>1. /\ UNCHANGED <<mix, runs, revealed, req>>
      /\ clock' \in 0..MaxClock /\ clock <= clock'
  BY TimeFacts DEF Tick, vars, ResultsIInv, TypeOK
<1>2. /\ \A op : Open(op)' = Open(op)
      /\ PendingRuns' = PendingRuns /\ clock \in Nat
  BY <1>1 DEF Open, PendingRuns, Counted, Competitors, Entered, ResultsIInv, TypeOK
<1>3. TypeOK' /\ RunsHaveRoom' /\ RevealAlone' /\ AfterReveal'
  BY <1>1, <1>2 DEF ResultsIInv, TypeOK, RunsHaveRoom, RevealAlone, AfterReveal, Locking, Final
<1>4. EndHasCome'
  BY <1>1, <1>2, TimeFacts DEF ResultsIInv, EndHasCome, Final
<1>5. PastRequests'
  <2>1. \A x \in Open("submit") : req[x].at \in Nat
    BY TimeFacts DEF ResultsIInv, TypeOK, Open, Submit, Rejudge, Reveal
  <2> QED BY <1>1, <1>2, <2>1 DEF ResultsIInv, PastRequests
<1>6. RevealedIsComplete'
  BY <1>1 DEF ResultsIInv, RevealedIsComplete, Final, Counted, Competitors, Entered
<1> QED BY <1>3, <1>4, <1>5, <1>6 DEF ResultsIInv

LEMMA ResultsStart ==
  ASSUME Init
  PROVE  ResultsIInv
<1>1. mix \in Mixes /\ clock = 0 /\ runs = <<>> /\ revealed = NoTime /\ req = [r \in Requests |-> Free]
  BY DEF Init
<1>2. \A op : Open(op) = {}
  BY <1>1 DEF Open
<1>3. Cardinality(Open("submit")) = 0
  BY <1>2, FS_EmptySet
<1>4. TypeOK
  BY <1>1, TimeFacts, MixAssumption DEF TypeOK
<1>5. RunsHaveRoom
  BY <1>1, <1>3, MixAssumption DEF RunsHaveRoom
<1>6. PastRequests /\ EndHasCome /\ RevealAlone /\ AfterReveal
  BY <1>1, <1>2 DEF PastRequests, EndHasCome, RevealAlone, AfterReveal, Final, Locking
<1>7. RevealedIsComplete
  BY <1>1 DEF RevealedIsComplete
<1> QED BY <1>4, <1>5, <1>6, <1>7 DEF ResultsIInv

LEMMA ResultsNext ==
  ASSUME ResultsIInv, [Next]_vars
  PROVE  ResultsIInv'
<1>1. ASSUME NEW r \in Requests, Step(r) PROVE ResultsIInv'
  <2>1. CASE SubmitBegin(r) \/ SubmitCommit(r)
    BY <2>1, SubmitBeginKeeps, SubmitCommitKeeps
  <2>2. CASE RejudgeBegin(r) \/ RejudgeLock(r) \/ RejudgeCommit(r)
    BY <2>2, RejudgeBeginKeeps, RejudgeLockKeeps, RejudgeCommitKeeps
  <2>3. CASE RevealBegin(r) \/ RevealLock(r) \/ RevealCheck(r) \/ RevealCommit(r)
    BY <2>3, RevealBeginKeeps, RevealLockKeeps, RevealCheckKeeps, RevealCommitKeeps
  <2>4. CASE Abort(r)
    BY <2>4, DoneKeeps DEF Abort
  <2> QED BY <1>1, <2>1, <2>2, <2>3, <2>4 DEF Step
<1> QED BY <1>1, FinishKeeps, TimeKeeps DEF Next

\* What open requests have seen of the contest, and what a reveal and a rejudge keep from each other.
THEOREM ResultsInvariance == Spec => []ResultsIInv
<1>1. Init => ResultsIInv
  BY ResultsStart
<1>2. ResultsIInv /\ [Next]_vars => ResultsIInv'
  BY ResultsNext
<1> QED BY <1>1, <1>2, PTL DEF Spec

\* Every variable keeps its type: a submission's verdict is one the judge may answer, or none yet.
THEOREM ResultsAreTyped == Spec => []TypeOK
<1>1. ResultsIInv => TypeOK
  BY DEF ResultsIInv
<1> QED BY <1>1, ResultsInvariance, PTL

\* Revealed results are complete, but for what was queued again after the reveal.
THEOREM RevealedIsAlwaysComplete == Spec => []RevealedIsComplete
<1>1. ResultsIInv => RevealedIsComplete
  BY DEF ResultsIInv
<1> QED BY <1>1, ResultsInvariance, PTL

\* Only a rejudge queues a submission again, and after the reveal only one that is not a setter's.
LEMMA RequeuedByRight ==
  ASSUME ResultsIInv, Next
  PROVE  SettersQueueNothing
<1>1. SUFFICES ASSUME NEW i \in DOMAIN runs, Final, runs[i].result # Pending, runs'[i].result = Pending
               PROVE  \E r \in Open("rejudge") : /\ i \in req[r].targets /\ req'[r] = Free
                                                 /\ req[r].who \in Authors \cup {Operator}
  BY DEF SettersQueueNothing
<1>2. runs \in Seq(Run) /\ DOMAIN runs = 1..Len(runs) /\ runs' # runs
  BY <1>1 DEF ResultsIInv, TypeOK
<1>3. ASSUME Finish PROVE FALSE
  <2>1. PICK j \in DOMAIN runs, result \in mix.results :
          runs[j].result = Pending /\ runs' = [runs EXCEPT ![j] = With(runs[j], result, runs[j].again)]
    BY <1>3 DEF Finish
  <2> QED BY <1>1, <2>1
<1>4. ASSUME NEW r \in Requests, SubmitCommit(r) PROVE FALSE
  <2>1. PICK new : runs' = Append(runs, new)
    BY <1>4 DEF SubmitCommit
  <2>2. runs \in Seq(Run \cup {new}) /\ new \in Run \cup {new}
    BY <1>2
  <2>3. PICK T : T = Run \cup {new}
    OBVIOUS
  <2>4. runs \in Seq(T) /\ new \in T /\ i \in 1..Len(runs)
    BY <1>2, <2>2, <2>3
  <2>5. runs'[i] = runs[i]
    BY <2>1, <2>4
  <2> QED BY <1>1, <2>5
<1>5. PICK r \in Requests : RejudgeCommit(r)
  <2>1. ~Tick
    BY <1>2 DEF Tick
  <2>2. ASSUME NEW r \in Requests, Step(r) PROVE RejudgeCommit(r)
    BY <1>2, <1>4, <2>2 DEF Step, SubmitBegin, RejudgeBegin, RejudgeLock, RevealBegin, RevealLock, RevealCheck, RevealCommit, Abort
  <2> QED BY <1>3, <2>1, <2>2 DEF Next
<1>6. /\ r \in Open("rejudge") /\ req[r].at = "locked" /\ Done(r)
      /\ runs' = [j \in DOMAIN runs |-> IF j \in req[r].targets
                                        THEN With(runs[j], Pending, IF req[r].final THEN "after" ELSE "before") ELSE runs[j]]
  BY <1>5 DEF RejudgeCommit
<1>7. i \in req[r].targets
  BY <1>1, <1>6
<1>8. req[r].who \in Authors \cup {Operator}
  BY <1>1, <1>6 DEF ResultsIInv, AfterReveal
<1>9. req'[r] = Free
  BY <1>6 DEF Done, ResultsIInv, TypeOK
<1> QED BY <1>6, <1>7, <1>8, <1>9

\* After the reveal no setter queues a submission again, also not by a request from before it.
THEOREM SettersAlwaysStop == Spec => SettersStopAtTheReveal
<1>1. ResultsIInv /\ [Next]_vars => [SettersQueueNothing]_vars
  BY RequeuedByRight
<1> QED BY <1>1, ResultsInvariance, PTL DEF Spec, SettersStopAtTheReveal

-----------------------------------------------------------------------------
\* The freeze.  hidden is what is left of the submissions when some verdicts are covered.
Covered(rs, S) == [i \in DOMAIN rs |-> IF i \in S THEN With(rs[i], Pending, rs[i].again) ELSE rs[i]]

LEMMA CoveredFacts ==
  ASSUME NEW rs, NEW S
  PROVE  /\ DOMAIN Covered(rs, S) = DOMAIN rs
         /\ \A i \in DOMAIN rs : /\ Covered(rs, S)[i].by = rs[i].by /\ Covered(rs, S)[i].at = rs[i].at
                                 /\ Covered(rs, S)[i].problem = rs[i].problem
                                 /\ i \notin S => Covered(rs, S)[i] = rs[i]
                                 /\ i \in S => Covered(rs, S)[i].result = Pending
BY DEF Covered, With

\* The last of some attempts is one of them.
LEMMA LastIsOne ==
  ASSUME NEW n \in Nat, NEW at, NEW S \in SUBSET (1..n), S # {}, \A i \in S : at[i] \in 0..MaxClock
  PROVE  LastOf(S, at) \in S
<1> DEFINE times == {at[i] : i \in S}
           latest == Max(times)
<1>1. latest \in times
  <2>0. MaxClock \in Nat /\ \A t \in 0..MaxClock : t \in Nat /\ t <= MaxClock
    BY TimeFacts
  <2>1. times \subseteq Nat /\ times # {} /\ MaxClock \in Nat /\ \A t \in times : t <= MaxClock
    <3>1. times \subseteq 0..MaxClock /\ times # {}
      OBVIOUS
    <3> HIDE DEF times
    <3> QED BY <2>0, <3>1
  <2> HIDE DEF times
  <2> QED BY <2>1, GreatestOf
<1> DEFINE last == {i \in S : at[i] = latest}
<1>2. Max(last) \in last
  <2>1. last \subseteq Nat /\ last # {} /\ \A i \in last : i <= n
    <3> HIDE DEF latest
    <3>1. last \subseteq 1..n /\ last # {}
      BY <1>1
    <3> HIDE DEF last
    <3> QED BY <3>1
  <2> HIDE DEF last
  <2> QED BY <2>1, GreatestOf
<1> QED BY <1>2 DEF LastOf

\* A cell of the frozen table takes the verdicts of no submission after the freeze: in its definition
\* the covered and the other submissions can be exchanged.
LEMMA FrozenCell ==
  ASSUME runs \in Seq(Run), NEW S, \A i \in S : i \in DOMAIN runs => FreezeAt <= runs[i].at, NEW key, NEW p
  PROVE  Cell(Covered(runs, S), key, p, FreezeAt) = Cell(runs, key, p, FreezeAt)
<1> DEFINE hidden == Covered(runs, S)
           at(rs) == [i \in DOMAIN rs |-> rs[i].at]
           B(rs, T, f) == [U \in SUBSET T |-> IF U = {} THEN EmptyCell
                            ELSE Ranked(f[U \ {LastOf(U, at(rs))}], rs[LastOf(U, at(rs))], FreezeAt)]
<1>1. /\ DOMAIN hidden = DOMAIN runs /\ DOMAIN runs = 1..Len(runs) /\ Len(runs) \in Nat
      /\ \A i \in DOMAIN runs : runs[i] \in Run /\ runs[i].at \in 0..MaxClock
      /\ \A i \in DOMAIN runs : /\ hidden[i].by = runs[i].by /\ hidden[i].at = runs[i].at /\ hidden[i].problem = runs[i].problem
                                /\ i \notin S => hidden[i] = runs[i]
  <2>1. DOMAIN runs = 1..Len(runs) /\ Len(runs) \in Nat /\ \A i \in DOMAIN runs : runs[i] \in Run
    OBVIOUS
  <2> QED BY <2>1, CoveredFacts DEF Run
<1> HIDE DEF hidden
<1>2. PICK T : T = Attempts(runs, key, p)
  OBVIOUS
<1>3. Attempts(hidden, key, p) = T /\ T \subseteq DOMAIN runs
  BY <1>1, <1>2 DEF Attempts, Counted
<1>4. at(hidden) = at(runs)
  BY <1>1
<1>5. ASSUME NEW f, NEW U \in SUBSET T, U # {}
      PROVE  Ranked(f[U \ {LastOf(U, at(hidden))}], hidden[LastOf(U, at(hidden))], FreezeAt)
               = Ranked(f[U \ {LastOf(U, at(runs))}], runs[LastOf(U, at(runs))], FreezeAt)
  <2>1. PICK i : i = LastOf(U, at(runs))
    OBVIOUS
  <2>2. i \in DOMAIN runs
    <3>1. U \in SUBSET (1..Len(runs)) /\ Len(runs) \in Nat /\ \A j \in U : at(runs)[j] \in 0..MaxClock
      BY <1>1, <1>3
    <3> HIDE DEF at
    <3> QED BY <1>3, <1>5, <2>1, <3>1, LastIsOne
  <2>3. i \in S => runs[i].at >= FreezeAt /\ hidden[i].at >= FreezeAt
    BY <1>1, <2>2, TimeFacts
  <2>4. Ranked(f[U \ {i}], hidden[i], FreezeAt) = Ranked(f[U \ {i}], runs[i], FreezeAt)
    BY <1>1, <2>2, <2>3 DEF Ranked
  <2> QED BY <1>4, <2>1, <2>4
<1>6. \A f : B(hidden, T, f) = B(runs, T, f)
  BY <1>5
<1>7. (CHOOSE f : f = B(hidden, T, f)) = (CHOOSE f : f = B(runs, T, f))
  BY <1>6
<1>8. Cell(hidden, key, p, FreezeAt) = (CHOOSE f : f = B(hidden, T, f))[T]
  BY <1>3 DEF Cell
<1>9. Cell(runs, key, p, FreezeAt) = (CHOOSE f : f = B(runs, T, f))[T]
  BY <1>2 DEF Cell
<1> QED BY <1>7, <1>8, <1>9 DEF hidden

\* Until the results are final the table that others than staff get is the same with the frozen
\* verdicts covered.
LEMMA TableKeepsSecrets ==
  ASSUME TypeOK
  PROVE  FrozenTableKeepsSecrets
<1> DEFINE S == {i \in DOMAIN runs : Frozen(runs[i])}
           hidden == [i \in DOMAIN runs |-> IF Frozen(runs[i]) THEN With(runs[i], Pending, runs[i].again) ELSE runs[i]]
<1>1. hidden = Covered(runs, S)
  BY DEF Covered
<1>2. runs \in Seq(Run) /\ \A i \in S : i \in DOMAIN runs => FreezeAt <= runs[i].at
  BY DEF TypeOK, Frozen
<1>3. \A key, p : Cell(hidden, key, p, FreezeAt) = Cell(runs, key, p, FreezeAt)
  <2> HIDE DEF S, hidden
  <2> QED BY <1>1, <1>2, FrozenCell
<1>4. ASSUME NEW key PROVE Row(runs, key, FreezeAt) = Row(hidden, key, FreezeAt)
  <2> HIDE DEF S, hidden
  <2>1. [p \in mix.problems |-> Cell(runs, key, p, FreezeAt)] = [p \in mix.problems |-> Cell(hidden, key, p, FreezeAt)]
    BY <1>3
  <2>2. PICK cells : cells = [p \in mix.problems |-> Cell(runs, key, p, FreezeAt)]
    OBVIOUS
  <2>3. Row(runs, key, FreezeAt) = RowOf(key, cells) /\ Row(hidden, key, FreezeAt) = RowOf(key, cells)
    BY <2>1, <2>2 DEF Row
  <2> QED BY <2>3
<1>5. ~Final => \A freezeAt \in OthersFreezes : freezeAt = FreezeAt
  <2>1. ~Final => \A v \in People, live \in BOOLEAN : FreezeFor(v, live) = FreezeAt
    BY RolesAssumption DEF FreezeFor
  <2> QED BY <2>1 DEF OthersFreezes
<1> HIDE DEF hidden
<1>6. ~Final => \A freezeAt \in OthersFreezes :
                  {Row(runs, Key(v), freezeAt) : v \in Competitors} = {Row(hidden, Key(v), freezeAt) : v \in Competitors}
  <2>1. {Row(runs, Key(v), FreezeAt) : v \in Competitors} = {Row(hidden, Key(v), FreezeAt) : v \in Competitors}
    BY <1>4
  <2> QED BY <1>5, <2>1
<1> QED BY <1>6 DEF FrozenTableKeepsSecrets, hidden

\* What is secret from somebody is on none of their lists and pages, and is not public.
LEMMA SecretIsNotShown ==
  ASSUME ResultsIInv, NEW v \in Viewers \ Staff, NEW i \in DOMAIN runs, Secret(v, runs[i])
  PROVE  i \notin Readable(v) /\ ~Public(runs[i])
<1>1. runs[i].at \in Nat /\ clock \in Nat
  <2>1. runs[i] \in Run
    BY DEF ResultsIInv, TypeOK
  <2>2. clock \in 0..MaxClock
    BY DEF ResultsIInv, TypeOK
  <2> QED BY <2>1, <2>2, TimeFacts DEF Run
<1>2. ~Public(runs[i])
  <2>1. runs[i].at < Start \/ clock < End \/ (Frozen(runs[i]) /\ ~Final)
    BY DEF Secret
  <2>2. CASE runs[i].at < Start
    BY <1>1, <2>2, TimeFacts DEF Public
  <2>3. CASE clock < End
    BY <1>1, <2>3, TimeFacts DEF Public, ResultsIInv, EndHasCome
  <2>4. CASE Frozen(runs[i]) /\ ~Final
    BY <2>4 DEF Public
  <2> QED BY <2>1, <2>2, <2>3, <2>4
<1>3. runs[i].by # v /\ runs[i].by \notin Teammates(v)
  BY DEF Secret
<1>4. i \notin Shown(v) /\ \A scope \in Scopes : i \notin Own(v, scope)
  BY <1>2, <1>3 DEF Shown, Visible, Own
<1>5. \A scope \in Scopes : i \notin ContestList(v, scope) /\ i \notin ContestProblemList(v, scope)
  BY <1>4 DEF ContestList, ContestProblemList
<1>6. \A scope \in Scopes : i \notin ProblemList(v, scope)
  BY <1>4 DEF ProblemList, Scopes
<1> QED BY <1>2, <1>4, <1>5, <1>6 DEF Readable

\* The lists, the marks and the counts are the same with what is secret covered.
LEMMA ListsKeepSecrets ==
  ASSUME ResultsIInv
  PROVE  FrozenRunsStayPrivate
<1>1. SUFFICES ASSUME NEW v \in Viewers \ Staff
      PROVE  LET hidden == [i \in DOMAIN runs |-> IF Secret(v, runs[i]) THEN With(runs[i], Pending, runs[i].again) ELSE runs[i]]
             IN /\ \A i \in Readable(v) : ~Secret(v, runs[i])
                /\ SolvedProblems(runs, v) = SolvedProblems(hidden, v)
                /\ \A p \in mix.problems : /\ Solved(runs, v, p) = Solved(hidden, v, p)
                                           /\ SolverCount(runs, p) = SolverCount(hidden, p)
  BY DEF FrozenRunsStayPrivate
<1> DEFINE S == {i \in DOMAIN runs : Secret(v, runs[i])}
           hidden == [i \in DOMAIN runs |-> IF Secret(v, runs[i]) THEN With(runs[i], Pending, runs[i].again) ELSE runs[i]]
<1>2. hidden = Covered(runs, S)
  BY DEF Covered
<1>3. /\ DOMAIN hidden = DOMAIN runs
      /\ \A i \in DOMAIN runs : /\ hidden[i].by = runs[i].by /\ hidden[i].at = runs[i].at /\ hidden[i].problem = runs[i].problem
                                /\ i \notin S => hidden[i] = runs[i]
                                /\ i \in S => hidden[i].result = Pending
  <2> HIDE DEF S, hidden
  <2> QED BY <1>2, CoveredFacts
<1>4. \A i \in S : i \in DOMAIN runs /\ runs[i].by # v /\ runs[i].by \notin Teammates(v) /\ ~Public(runs[i])
  BY SecretIsNotShown DEF Secret
<1>5. \A i \in Readable(v) : ~Secret(v, runs[i])
  <2>1. Readable(v) \subseteq DOMAIN runs
    BY DEF Readable, Shown, ContestList, ContestProblemList, ProblemList, Own
  <2> QED BY <2>1, SecretIsNotShown
<1> HIDE DEF S, hidden
<1>6. SolvedProblems(runs, v) = SolvedProblems(hidden, v)
  BY <1>3, <1>4 DEF SolvedProblems
<1>7. ASSUME NEW p PROVE SolverCount(runs, p) = SolverCount(hidden, p)
  <2>1. \A i \in DOMAIN runs : Public(hidden[i]) <=> Public(runs[i])
    BY <1>3 DEF Public, Frozen
  <2>2. \A i \in S : ~Public(hidden[i])
    BY <1>4, <2>1
  <2>3. {i \in DOMAIN runs : runs[i].problem = p /\ FullScore(runs[i].result) /\ Public(runs[i])}
          = {i \in DOMAIN hidden : hidden[i].problem = p /\ FullScore(hidden[i].result) /\ Public(hidden[i])}
    BY <1>3, <1>4, <2>1, <2>2
  <2> QED BY <1>3, <2>3 DEF SolverCount
<1>8. ASSUME NEW p PROVE Solved(runs, v, p) = Solved(hidden, v, p)
  <2> DEFINE mine(rs) == {i \in DOMAIN rs : /\ rs[i].problem = p /\ Start <= rs[i].at
                                            /\ rs[i].result # Pending /\ rs[i].by \in {v} \cup Teammates(v)}
  <2>1. mine(runs) = mine(hidden)
    BY <1>3, <1>4
  <2>2. PICK M : M = mine(runs)
    OBVIOUS
  <2>3. \A i \in M : i \in DOMAIN runs /\ hidden[i] = runs[i]
    BY <1>3, <1>4, <2>2
  <2>4. Solved(runs, v, p) = ((\E i \in M : FullScore(runs[i].result)) \/ Total(Bests(runs, M)) >= Points)
    BY <2>2 DEF Solved
  <2>5. Solved(hidden, v, p) = ((\E i \in M : FullScore(hidden[i].result)) \/ Total(Bests(hidden, M)) >= Points)
    BY <2>1, <2>2 DEF Solved
  <2>6. Bests(runs, M) = Bests(hidden, M)
    <3>1. {Len(runs[i].result.groups) : i \in M} = {Len(hidden[i].result.groups) : i \in M}
      BY <2>3
    <3>2. \A g : {i \in M : g <= Len(runs[i].result.groups)} = {i \in M : g <= Len(hidden[i].result.groups)}
      BY <2>3
    <3>3. \A g : {runs[i].result.groups[g] : i \in {j \in M : g <= Len(runs[j].result.groups)}}
                   = {hidden[i].result.groups[g] : i \in {j \in M : g <= Len(hidden[j].result.groups)}}
      BY <2>3, <3>2
    <3> QED BY <3>1, <3>3 DEF Bests
  <2> QED BY <2>3, <2>4, <2>5, <2>6
<1> QED BY <1>5, <1>6, <1>7, <1>8 DEF hidden

\* No verdict that is not public yet shows in the table, the lists, the pages or the counts, whoever
\* asks and however submissions, rejudges and the reveal overlap.
THEOREM FreezeAlwaysKeepsSecrets == Spec => []FreezeKeepsSecrets
<1>1. ResultsIInv => FreezeKeepsSecrets
  BY TableKeepsSecrets, ListsKeepSecrets DEF FreezeKeepsSecrets, ResultsIInv
<1> QED BY <1>1, ResultsInvariance, PTL

=============================================================================
