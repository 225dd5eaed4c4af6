--------------------------- MODULE ContestResults ---------------------------
(***************************************************************************)
(* Submissions, rejudges and the reveal of one frozen ShareOJ contest, its *)
(* standings, and what each account may read of it.                        *)
(*                                                                         *)
(* A request is a transaction; a step is a statement that may wait for a   *)
(* lock, with those after it that read nothing another transaction can     *)
(* change meanwhile.  Locks follow from the records of open requests.      *)
(* Roles and teams do not change here: ContestTeams and ContestStaff are   *)
(* about that.  Sample checks, which every query leaves out, and public    *)
(* diagnostics are left out.  Reads are single statements, or safe against *)
(* each other: Standings decides about the freeze before it reads runs.    *)
(***************************************************************************)
EXTENDS Naturals, FiniteSetsExt, SequencesExt

CONSTANTS
  People,      \* accounts that are not staff
  Setters,     \* owner and co-setters
  Authors,     \* authors and testers of the problems, who are staff too
  Operator,    \* may reveal and rejudge whatever the roles
  Problems,
  Requests,    \* transactions that may be open at a time
  Free,        \* no transaction
  Alone,       \* registered, in no team
  Start, FreezeAt, End, \* starts_at, contest_freeze_at, ends_at
  MaxClock,    \* bound: the last instant
  Points,      \* full score of each problem, also the sum of its groups
  Penalty,     \* penalty of a wrong run, in the clock's unit
  Results,     \* what the judge may answer
  Mixes        \* bound: of each behaviour, the kinds of requests, how many
               \* are open at a time, those who submit, the registrations
               \* with their teams, the onsite rows, the problems, verdicts
               \* and number of submissions

Staff   == Setters \cup Authors
Viewers == People \cup Staff
Pending == [verdict |-> "none", groups |-> <<>>]  \* no verdict yet
NoTime  == MaxClock + 1
Total(scores) == SumFunction(scores)
Scored == {"AC", "WA", "RE", "TLE", "MLE", "OLE"}
AllKinds == {"submit", "rejudge", "reveal"}

ASSUME TimesAssumption ==
  /\ Start \in Nat \ {0} /\ FreezeAt \in Nat /\ End \in Nat /\ MaxClock \in Nat
  /\ Start < FreezeAt /\ FreezeAt < End /\ End <= MaxClock
ASSUME ScoreAssumption == Points \in Nat \ {0} /\ Penalty \in Nat
ASSUME ResultsAssumption ==  \* scoreResult: without a verdict on the cases there are no points
  /\ Results \subseteq [verdict : Scored \cup {"CE", "JE"}, groups : Seq(Nat)]
  /\ \A r \in Results : Total(r.groups) <= IF r.verdict \in Scored THEN Points ELSE 0
ASSUME RolesAssumption == People \cap Staff = {} /\ Operator \notin Viewers
ASSUME MixAssumption ==
  /\ IsFiniteSet(Requests)
  /\ \A m \in Mixes : m.people \subseteq Viewers /\ m.problems \subseteq Problems /\ m.results \subseteq Results /\ m.runs \in Nat
\* Registrations and problems are finitely many, and a team's id is no account's.
ASSUME TeamAssumption == \A m \in Mixes :
  /\ IsFiniteSet(m.problems) /\ IsFiniteSet(DOMAIN m.team) /\ DOMAIN m.team \subseteq Viewers
  /\ \A v \in DOMAIN m.team : m.team[v] \notin Viewers

VARIABLES
  mix,       \* the behaviour's mix
  clock,
  runs,      \* submissions in the order they became visible
  revealed,  \* revealed_at, NoTime if NULL
  req        \* open transactions

vars == <<mix, clock, runs, revealed, req>>

Run     == [by : Viewers, problem : Problems, at : 0..MaxClock, result : Results \cup {Pending},
            again : {"no", "before", "after"}]
Submit  == [op : {"submit"}, who : Viewers, problem : Problems, at : 0..MaxClock]
Rejudge == [op : {"rejudge"}, at : {"asked", "locked"}, who : Staff \cup {Operator}, problem : Problems,
            final : BOOLEAN, targets : SUBSET Nat]
Reveal  == [op : {"reveal"}, at : {"asked", "locked", "checked"}, ended : BOOLEAN]

TypeOK ==
  /\ mix \in Mixes /\ clock \in 0..MaxClock
  /\ runs \in Seq(Run) /\ Len(runs) <= mix.runs
  /\ revealed \in End..NoTime
  /\ req \in [Requests -> {Free} \cup Submit \cup Rejudge \cup Reveal]

-----------------------------------------------------------------------------
\* What the contest's rows say about an account and a submission.

Final      == revealed # NoTime                     \* contest_results_final
Entered    == DOMAIN mix.team                       \* contest_participants
Competitors == Entered \ Staff                      \* contest_competitor
Key(v) == IF mix.team[v] = Alone THEN v ELSE mix.team[v] \* the row an attempt counts toward
Teammates(v) == IF v \in Entered /\ mix.team[v] # Alone THEN {m \in Entered : mix.team[m] = mix.team[v]} ELSE {}
Manages(v) == v \in Authors \/ (v \in Setters /\ ~Final) \* can_manage_problem

Frozen(run)  == FreezeAt <= run.at /\ run.at < End
Counted(run) == Start <= run.at /\ run.at < End /\ run.by \in Competitors

-----------------------------------------------------------------------------
\* Standings.

EmptyCell == [score |-> 0, scoredAt |-> NoTime, acceptedAt |-> NoTime, pending |-> 0, frozen |-> 0,
              best |-> <<>>, whole |-> 0, wrong |-> 0, before |-> 0]

\* Each group's best so far; a result may have more groups than those before.
Best_last(best, groups) == groups \o SubSeq(best, Len(groups) + 1, Len(best)) \* mutation: the last run's groups
Best(best, groups) ==
  [i \in 1..Max({Len(best), Len(groups)}) |->
     Max({IF i <= Len(best) THEN best[i] ELSE 0, IF i <= Len(groups) THEN groups[i] ELSE 0})]

\* progress.score and its problem's score.
Score(cell, result) ==
  LET whole == IF result.groups = <<>> /\ result.verdict = "AC" THEN Points ELSE cell.whole
      best  == Best(cell.best, result.groups)
  IN [best |-> best, whole |-> whole, score |-> Min({Max({Total(best), whole}), Points})]

Judged(cell, run) ==
  LET new == Score(cell, run.result)
      up  == new.score > cell.score
  IN [cell EXCEPT !.best = new.best, !.whole = new.whole,
                  !.wrong = IF up THEN @ ELSE @ + 1,
                  !.before = IF up THEN cell.wrong ELSE @,
                  !.score = IF up THEN new.score ELSE @,
                  !.scoredAt = IF up THEN run.at ELSE @,
                  !.acceptedAt = IF up /\ new.score >= Points THEN run.at ELSE @]

\* One attempt of RankRows' loop; freezeAt is NoTime for the live table.
Ranked_verdict(cell, run, freezeAt) ==             \* mutation: the verdict is looked at before the freeze
  IF cell.acceptedAt # NoTime THEN cell
  ELSE IF run.result.verdict \in Scored THEN Judged(cell, run)
  ELSE IF run.at >= freezeAt THEN [cell EXCEPT !.frozen = @ + 1]
  ELSE IF run.result = Pending THEN [cell EXCEPT !.pending = @ + 1]
  ELSE cell
Ranked(cell, run, freezeAt) ==
  IF cell.acceptedAt # NoTime THEN cell
  ELSE IF run.at >= freezeAt THEN [cell EXCEPT !.frozen = @ + 1]
  ELSE IF run.result = Pending THEN [cell EXCEPT !.pending = @ + 1]
  ELSE IF run.result.verdict \in Scored THEN Judged(cell, run)
  ELSE cell

\* The runs that count, and the last of some: ORDER BY created_at and then by
\* id, here the order of commit.  Who commits first need not have been created first.
Attempts(rs, key, problem) == {i \in DOMAIN rs : Counted(rs[i]) /\ Key(rs[i].by) = key /\ rs[i].problem = problem}
LastOf(S, at) == LET latest == Max({at[i] : i \in S}) IN Max({i \in S : at[i] = latest})
Cell(rs, key, problem, freezeAt) ==
  LET at == [i \in DOMAIN rs |-> rs[i].at]
      cell[S \in SUBSET Attempts(rs, key, problem)] ==
        IF S = {} THEN EmptyCell ELSE Ranked(cell[S \ {LastOf(S, at)}], rs[LastOf(S, at)], freezeAt)
  IN cell[Attempts(rs, key, problem)]

RowOf(key, cells) ==
  LET scored == {p \in mix.problems : cells[p].scoredAt # NoTime}
  IN [key |-> key, cells |-> cells,
      score |-> SumFunction([p \in mix.problems |-> cells[p].score]),
      time |-> IF scored = {} THEN 0
               ELSE Max({cells[p].scoredAt : p \in scored}) - Start
                    + Penalty * SumFunction([p \in scored |-> cells[p].before])]
Row(rs, key, freezeAt) == RowOf(key, [p \in mix.problems |-> Cell(rs, key, p, freezeAt)])

\* A set in the order of a sort: nothing stands behind what goes after it.
InOrder(S, before(_, _)) == CHOOSE s \in SetToSeqs(S) : \A i, j \in DOMAIN s : i < j => ~before(s[j], s[i])

Better(a, b) == a.score > b.score \/ (a.score = b.score /\ a.time < b.time)
Tied(a, b)   == a.score = b.score /\ a.time = b.time

\* rank: rows in order; tied ones share the rank of the first of them.
Rank_next(rows) ==                                 \* mutation: the next rank after ties is not skipped
  LET rank[i \in DOMAIN rows] == IF i = 1 THEN 1 ELSE IF Tied(rows[i], rows[i - 1]) THEN rank[i - 1] ELSE rank[i - 1] + 1
  IN rank
Rank(rows) ==
  LET rank[i \in DOMAIN rows] == IF i > 1 /\ Tied(rows[i], rows[i - 1]) THEN rank[i - 1] ELSE i
  IN rank

\* RankRows, without the order of tied rows by name; OnsiteRows are the kept
\* rows, ranked again.
RankRows(rs, freezeAt) == InOrder({Row(rs, Key(v), freezeAt) : v \in Competitors}, Better)
OnsiteRows(rows) ==
  LET kept[i \in 0..Len(rows)] ==
        IF i = 0 THEN <<>> ELSE IF rows[i].key \in mix.onsite THEN Append(kept[i - 1], rows[i]) ELSE kept[i - 1]
  IN kept[Len(rows)]

\* Whether Standings freezes what it shows v, who may ask for the live table.
FreezeFor(v, live) == IF ~Final /\ (~live \/ v \notin Staff) THEN FreezeAt ELSE NoTime

-----------------------------------------------------------------------------
\* Who reads which submissions, as indices of runs.

Public_ended(run) == Start <= run.at /\ End <= clock  \* mutation: frozen runs are published at the end
Public(run) == Start <= run.at /\ (Final \/ (End <= clock /\ ~Frozen(run)))  \* contest_submission_public
Visible(v, run) ==                                 \* contestSubmissionVisible
  \/ Public(run) \/ v \in Staff
  \/ run.by = v /\ Start <= run.at /\ End <= clock
  \/ Start <= run.at /\ run.by \in Teammates(v)

Shown(v) == {i \in DOMAIN runs : Visible(v, runs[i])}
Own(v, scope) == {i \in DOMAIN runs : runs[i].by = v \/ (scope = "team" /\ runs[i].by \in Teammates(v))}
Scopes == {"all", "mine", "team"}
ContestList(v, scope) ==
  IF scope = "all" /\ End > clock /\ v \notin Staff /\ ~(Start <= clock /\ Teammates(v) # {}) THEN {}
  ELSE IF scope = "all" THEN Shown(v) ELSE Own(v, scope)
ContestProblemList(v, scope) ==
  IF End > clock /\ v \notin Staff /\ ~(scope # "all" /\ Start <= clock) THEN {}
  ELSE IF scope = "all" THEN Shown(v) ELSE Own(v, scope)
\* Outside the contest: the problem is published by the release at the end.
ProblemList(v, scope) ==
  IF End > clock /\ ~Manages(v) THEN {}
  ELSE IF scope = "all" THEN Shown(v) ELSE Own(v, "mine")
Readable(v) ==
  Shown(v) \cup UNION {ContestList(v, s) \cup ContestProblemList(v, s) \cup ProblemList(v, s) : s \in Scopes}

FullScore(result) ==                               \* submission_full_score
  IF result.groups = <<>> THEN result.verdict = "AC" ELSE Total(result.groups) = Points
SolverCount(rs, p) == {rs[i].by : i \in {j \in DOMAIN rs : rs[j].problem = p /\ FullScore(rs[j].result) /\ Public(rs[j])}}
SolvedProblems(rs, v) ==
  {rs[i].problem : i \in {j \in DOMAIN rs : /\ rs[j].by = v /\ FullScore(rs[j].result)
                                            /\ Start <= rs[j].at /\ End <= clock}}
\* The contest page's mark: a full run, or each group's best together.
Solved_alone(rs, v, p) == p \in SolvedProblems(rs, v) \* mutation: the full runs of the viewer only
Bests(rs, S) ==
  [g \in 1..Max({0} \cup {Len(rs[i].result.groups) : i \in S}) |->
     Max({0} \cup {rs[i].result.groups[g] : i \in {j \in S : g <= Len(rs[j].result.groups)}})]
Solved(rs, v, p) ==
  LET mine == {i \in DOMAIN rs : /\ rs[i].problem = p /\ Start <= rs[i].at
                                 /\ rs[i].result # Pending /\ rs[i].by \in {v} \cup Teammates(v)}
  IN (\E i \in mine : FullScore(rs[i].result)) \/ Total(Bests(rs, mine)) >= Points

-----------------------------------------------------------------------------
\* Locks of open requests.

Open(op) == {r \in Requests : req[r] # Free /\ req[r].op = op}
Locking  == {r \in Open("reveal") : req[r].at \in {"locked", "checked"}}
ContestShared == Open("submit") # {}               \* contests FOR SHARE
ContestTaken  == Locking # {}                      \* contests FOR NO KEY UPDATE
ProblemTaken(p) == \E r \in Open("rejudge") : req[r].at = "locked" /\ req[r].problem = p
ProblemsTaken_never == FALSE                       \* mutation: the reveal does not wait for rejudges
ProblemsTaken == \E p \in Problems : ProblemTaken(p)
ProblemsShared == \E r \in Open("reveal") : req[r].at = "checked"

MayOpen(r, op) == op \in mix.kinds /\ req[r] = Free /\ Cardinality({q \in Requests : req[q] # Free}) < mix.open

Init ==
  /\ mix \in Mixes /\ clock = 0 /\ runs = <<>> /\ revealed = NoTime
  /\ req = [r \in Requests |-> Free]

Done(r) == req' = [req EXCEPT ![r] = Free]

\* CreateRun: the contest in share mode, the right to submit, the insertion
\* with the clock's time; the row shows at the commit.  Staff may submit
\* before the start, anyone after the end.
SubmitBegin(r) ==
  /\ MayOpen(r, "submit") /\ ~ContestTaken
  /\ Len(runs) + Cardinality(Open("submit")) < mix.runs
  /\ \E v \in mix.people, p \in mix.problems :
       /\ End <= clock \/ v \in Staff \cup Competitors
       /\ Start <= clock \/ v \in Staff
       /\ req' = [req EXCEPT ![r] = [op |-> "submit", who |-> v, problem |-> p, at |-> clock]]
  /\ UNCHANGED <<mix, clock, runs, revealed>>

SubmitCommit(r) ==
  /\ r \in Open("submit")
  /\ runs' = Append(runs, [by |-> req[r].who, problem |-> req[r].problem, at |-> req[r].at,
                           result |-> Pending, again |-> "no"])
  /\ Done(r)
  /\ UNCHANGED <<mix, clock, revealed>>

With(run, result, again) == [by |-> run.by, problem |-> run.problem, at |-> run.at, result |-> result, again |-> again]

\* FinishAttempt; JudgeOutbox is about which result that is.
Finish ==
  /\ \E i \in DOMAIN runs, result \in mix.results :
       /\ runs[i].result = Pending
       /\ runs' = [runs EXCEPT ![i] = With(runs[i], result, runs[i].again)]
  /\ UNCHANGED <<mix, clock, revealed, req>>

\* Rejudge: the right as the statement begins, then the wait for the problem.
RejudgeBegin(r) ==
  /\ MayOpen(r, "rejudge")
  /\ \E who \in Staff \cup {Operator}, p \in mix.problems :
       /\ who = Operator \/ Manages(who)
       /\ req' = [req EXCEPT ![r] = [op |-> "rejudge", at |-> "asked", who |-> who, problem |-> p,
                                     final |-> FALSE, targets |-> {}]]
  /\ UNCHANGED <<mix, clock, runs, revealed>>

\* With the lock the right is judged again; the UPDATE takes judged
\* submissions, all or those named, that can still be judged.
Rechecked_not(who) == TRUE                         \* mutation: the right is not judged again
Rechecked(who) == who = Operator \/ Manages(who)
RejudgeLock(r) ==
  /\ r \in Open("rejudge") /\ req[r].at = "asked"
  /\ ~ProblemTaken(req[r].problem) /\ ~ProblemsShared
  /\ \/ ~Rechecked(req[r].who) /\ Done(r)
     \/ /\ Rechecked(req[r].who)
        /\ \E targets \in SUBSET {i \in DOMAIN runs : runs[i].problem = req[r].problem /\ runs[i].result # Pending} :
             /\ targets # {}
             /\ req' = [req EXCEPT ![r] = [op |-> "rejudge", at |-> "locked", who |-> req[r].who, problem |-> req[r].problem,
                                          final |-> Final, targets |-> targets]]
  /\ UNCHANGED <<mix, clock, runs, revealed>>

RejudgeCommit(r) ==
  /\ r \in Open("rejudge") /\ req[r].at = "locked"
  /\ runs' = [i \in DOMAIN runs |->
                IF i \in req[r].targets THEN With(runs[i], Pending, IF req[r].final THEN "after" ELSE "before") ELSE runs[i]]
  /\ Done(r)
  /\ UNCHANGED <<mix, clock, revealed>>

\* Reveal, of a setter or operator: the end is judged before the wait for the
\* contest's row, revealed_at with the row as locked.
RevealBegin(r) ==
  /\ MayOpen(r, "reveal")
  /\ req' = [req EXCEPT ![r] = [op |-> "reveal", at |-> "asked", ended |-> End <= clock]]
  /\ UNCHANGED <<mix, clock, runs, revealed>>

RevealAt(r, at) == req' = [req EXCEPT ![r] = [op |-> "reveal", at |-> at, ended |-> req[r].ended]]
RevealLock_early(r) ==                             \* mutation: the end is not asked for
  /\ r \in Open("reveal") /\ req[r].at = "asked" /\ ~ContestShared /\ ~ContestTaken
  /\ IF Final THEN Done(r) ELSE RevealAt(r, "locked")
  /\ UNCHANGED <<mix, clock, runs, revealed>>
RevealLock(r) ==
  /\ r \in Open("reveal") /\ req[r].at = "asked"
  /\ ~ContestShared /\ ~ContestTaken
  /\ IF Final \/ ~req[r].ended THEN Done(r) ELSE RevealAt(r, "locked")
  /\ UNCHANGED <<mix, clock, runs, revealed>>

\* The problems' rows in share mode, one after the other, then the submissions
\* that may still move the table.
PendingRuns == {i \in DOMAIN runs : Counted(runs[i]) /\ runs[i].result = Pending}
RevealCheck(r) ==
  /\ r \in Open("reveal") /\ req[r].at = "locked"
  /\ ~ProblemsTaken
  /\ IF PendingRuns # {} THEN Done(r) ELSE RevealAt(r, "checked")
  /\ UNCHANGED <<mix, clock, runs, revealed>>

RevealCommit(r) ==
  /\ r \in Open("reveal") /\ req[r].at = "checked"
  /\ revealed' = clock
  /\ Done(r)
  /\ UNCHANGED <<mix, clock, runs>>

\* A request may fail at any time.
Abort(r) ==
  /\ req[r] # Free
  /\ Done(r)
  /\ UNCHANGED <<mix, clock, runs, revealed>>

Tick ==
  /\ clock < MaxClock
  /\ clock' = clock + 1
  /\ UNCHANGED <<mix, runs, revealed, req>>

Step(r) ==
  \/ SubmitBegin(r) \/ SubmitCommit(r)
  \/ RejudgeBegin(r) \/ RejudgeLock(r) \/ RejudgeCommit(r)
  \/ RevealBegin(r) \/ RevealLock(r) \/ RevealCheck(r) \/ RevealCommit(r)
  \/ Abort(r)

Next == Finish \/ Tick \/ \E r \in Requests : Step(r)

Spec == Init /\ [][Next]_vars

-----------------------------------------------------------------------------
\* What must hold.

\* The rules of the standings (RankRows' comment, ADR 0025), said of the whole
\* list of attempts instead of attempt by attempt: the score of the first n
\* judged runs is each group's best summed, or the full score with an AC
\* without groups; the problem's time is that of the last run that raised it,
\* and the wrong runs are the judged ones before that did not raise it.
JudgedRuns(rs, key, p, freezeAt) ==
  LET order == InOrder({i \in Attempts(rs, key, p) : rs[i].at < freezeAt /\ rs[i].result.verdict \in Scored},
                       LAMBDA i, j : rs[i].at < rs[j].at \/ (rs[i].at = rs[j].at /\ i < j))
  IN [n \in DOMAIN order |-> rs[order[n]]]
Width(judged) == Max({0} \cup {Len(judged[i].result.groups) : i \in DOMAIN judged})
BestUpto(judged, n, g) == Max({0} \cup {judged[i].result.groups[g] : i \in {j \in 1..n : g <= Len(judged[j].result.groups)}})
ScoreUpto(judged, n) ==
  IF \E i \in 1..n : judged[i].result.verdict = "AC" /\ judged[i].result.groups = <<>> THEN Points
  ELSE Min({Points, SumFunction([g \in 1..Width(judged) |-> BestUpto(judged, n, g)])})
Ruled(rs, key, p, freezeAt) ==
  LET judged == JudgedRuns(rs, key, p, freezeAt)
      raises == {n \in DOMAIN judged : ScoreUpto(judged, n) > ScoreUpto(judged, n - 1)}
      last   == Max({0} \cup raises)
  IN [score |-> ScoreUpto(judged, Len(judged)), scoredAt |-> IF raises = {} THEN NoTime ELSE judged[last].at,
      before |-> Cardinality((1..last) \ raises)]

\* For the frozen and the live table alike, every cell follows the rules, and
\* every row's rank, among all rows and again among the onsite ones, is one
\* more than the number of strictly better rows (RankRows, OnsiteRows).
RowsFollowTheRules ==
  \A freezeAt \in {FreezeAt, NoTime} :
    LET all    == RankRows(runs, freezeAt)
        onsite == OnsiteRows(all)
    IN /\ \A i \in DOMAIN all : \A p \in mix.problems :
            LET cell == all[i].cells[p]
            IN Ruled(runs, all[i].key, p, freezeAt) = [score |-> cell.score, scoredAt |-> cell.scoredAt, before |-> cell.before]
       /\ \A rows \in {all, onsite} : \A i \in DOMAIN rows :
            Rank(rows)[i] = 1 + Cardinality({j \in DOMAIN rows : Better(rows[j], rows[i])})

\* What Standings freezes for others than staff, whatever they ask for.
OthersFreezes == {FreezeFor(v, live) : v \in People, live \in BOOLEAN}

\* Part of FreezeKeepsSecrets: until the results are final, nothing in the
\* table that others than staff get depends on the verdict of a frozen
\* submission: neither scores nor ranks, counts of pending runs or of frozen ones.
FrozenTableKeepsSecrets ==
  ~Final =>
    LET hidden == [i \in DOMAIN runs |-> IF Frozen(runs[i]) THEN With(runs[i], Pending, runs[i].again) ELSE runs[i]]
    IN \A freezeAt \in OthersFreezes :
         {Row(runs, Key(v), freezeAt) : v \in Competitors} = {Row(hidden, Key(v), freezeAt) : v \in Competitors}

\* Neither a list or page of submissions, nor a problem's number of solvers,
\* nor the marks of solved problems tell who is not staff anything about
\* submissions of others outside their team: from before the start never, all
\* others before the end, the frozen ones until the results are final.
Secret(v, run) == /\ run.by # v /\ run.by \notin Teammates(v)
                  /\ run.at < Start \/ clock < End \/ (Frozen(run) /\ ~Final)
FrozenRunsStayPrivate ==
  \A v \in Viewers \ Staff :
    LET hidden == [i \in DOMAIN runs |-> IF Secret(v, runs[i]) THEN With(runs[i], Pending, runs[i].again) ELSE runs[i]]
    IN /\ \A i \in Readable(v) : ~Secret(v, runs[i])
       /\ SolvedProblems(runs, v) = SolvedProblems(hidden, v)
       /\ \A p \in mix.problems : /\ Solved(runs, v, p) = Solved(hidden, v, p)
                                  /\ SolverCount(runs, p) = SolverCount(hidden, p)

\* The freeze and the start and end of the contest keep every verdict that is
\* not public yet out of the table, the lists, the pages and the counts.
FreezeKeepsSecrets == FrozenTableKeepsSecrets /\ FrozenRunsStayPrivate

\* A problem with the full score in the live table is marked solved for every
\* member of that row's team, and without practice runs, and runs of staff
\* in the team, only such a problem.
SolvedAgreesWithTheTable ==
  \A v \in Competitors, p \in mix.problems :
    LET full == Cell(runs, Key(v), p, NoTime).acceptedAt # NoTime
    IN /\ full => Solved(runs, v, p)
       /\ (\A i \in DOMAIN runs : runs[i].at < End) /\ Teammates(v) \cap Staff = {} /\ Solved(runs, v, p) => full

\* The table is what the rules of the standings say of the attempts, and the
\* marks beside the problems say the same as the table.
TableFollowsTheRules == RowsFollowTheRules /\ SolvedAgreesWithTheTable

\* Once revealed, no counted submission waits for its verdict, unless a rejudge
\* that began after the reveal queued it again (Reveal's ErrResultsPending).
RevealedIsComplete ==
  Final => \A i \in DOMAIN runs : Counted(runs[i]) /\ runs[i].result = Pending => runs[i].again = "after"

\* After the reveal a submission is queued again only for an author, a tester
\* or an operator: the setters' right ended (Rejudge's second check).
SettersQueueNothing ==
  \A i \in DOMAIN runs :
    Final /\ runs[i].result # Pending /\ runs'[i].result = Pending =>
      \E r \in Open("rejudge") : i \in req[r].targets /\ req'[r] = Free /\ req[r].who \in Authors \cup {Operator}
SettersStopAtTheReveal == [][SettersQueueNothing]_vars

=============================================================================
