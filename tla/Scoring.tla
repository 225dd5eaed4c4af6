------------------------------ MODULE Scoring -------------------------------
(***************************************************************************)
(* How one execution becomes a stored result.  The host (host.judge, run   *)
(* by an isolate worker or through the local worker's RPC) judges the      *)
(* cases in order, skips those that can change nothing, and scores the     *)
(* groups; the API checks the result again by rules of its own and stores  *)
(* it, stores a JE, or refuses it.                                         *)
(*                                                                         *)
(* truth is what each case would come to if it were run.  Points are       *)
(* counted in whole points, and a case's own score is left out: only the   *)
(* author's aggregator reads it.                                           *)
(***************************************************************************)
EXTENDS Integers, Sequences, FiniteSets, SequencesExt, FiniteSetsExt, Absent

CONSTANTS
  Jobs,   \* bound: [mode, points (of each group), cases (the groups of each), local, sample, older]
  Ends    \* bound: what running a case may come to

AllEnds == {"right", "wrong", "slow", "memory", "flood", "exit", "lost"}

Total(s) == FoldLeft(LAMBDA a, b : a + b, 0, s)
ScoresOf(job, s) == [groups |-> s, most |-> job.points, score |-> Total(s), max |-> Total(job.points)]
\* What an aggregator may answer: of each group at most its points.
Possible(job) == {s \in [DOMAIN job.points -> UNION {0..job.points[g] : g \in DOMAIN job.points}] :
                    \A g \in DOMAIN job.points : s[g] <= job.points[g]}

\* A job that was accepted has cases, and with scoring groups and a full score.
ASSUME ScoringAssumption ==
  /\ Ends \subseteq AllEnds /\ None \notin {"groups", "aggregate"}
  /\ \A j \in Jobs : /\ j.mode \in {None, "groups", "aggregate"}
                     /\ j.points \in Seq(Nat) /\ j.cases \in Seq(SUBSET DOMAIN j.points) /\ j.cases # <<>>
                     /\ (j.mode # None) <=> (j.points # <<>>)
                     /\ j.mode # None => Total(j.points) >= 1
\* A score is not NULL.
ASSUME ScoreAssumption == \A j \in Jobs : \A s \in Possible(j) : ScoresOf(j, s) # None

\* Results of an execution; none is NULL.
CaseVerdicts == {"AC", "WA", "TLE", "MLE", "OLE", "RE", "SKIPPED"}
Results ==
  [verdict : (CaseVerdicts \ {"SKIPPED"}) \cup {"CE", "JE"}, cases : Seq(CaseVerdicts), passed : Nat, total : Nat,
   scores : {None} \cup UNION {{ScoresOf(j, s) : s \in Possible(j)} : j \in Jobs}]
ASSUME ResultAssumption == None \notin Results

VARIABLES
  task,      \* the job
  truth,     \* what each case comes to if it is run
  phase,     \* of the execution: compile, cases, sent, ended
  judged,    \* verdicts of the cases so far
  late,      \* the time for cases is over
  report,    \* the result the host sends
  stored     \* the result the API stores: a result, or None when it is refused

scoringVars == <<task, truth, phase, judged, late, report, stored>>

Cases  == DOMAIN task.cases
Groups == DOMAIN task.points
Scored == task.mode # None /\ ~task.older  \* an older release of the host ignores the scoring
Result(verdict, cases, scores) ==
  [verdict |-> verdict, cases |-> cases, scores |-> scores,
   passed |-> Cardinality({i \in DOMAIN cases : cases[i] = "AC"}), total |-> Len(task.cases)]
Scores(s) == ScoresOf(task, s)
Failed == Result("JE", <<>>, None)

ScoringInit ==
  /\ task \in Jobs
  /\ truth \in [Cases -> Ends]
  /\ phase = "compile"
  /\ judged = <<>>
  /\ late = FALSE
  /\ report = None
  /\ stored = None

-----------------------------------------------------------------------------
(* The host.                                                               *)

Send(result) == phase' = "sent" /\ report' = result

\* The submission, then the judge code and the aggregator are compiled.
Compile ==
  /\ phase = "compile"
  /\ \/ phase' = "cases" /\ UNCHANGED report
     \/ Send(Result("CE", <<>>, IF Scored THEN Scores([g \in Groups |-> 0]) ELSE None))
     \/ Send(Failed)
  /\ UNCHANGED <<task, truth, judged, late, stored>>

\* What the sandbox reports of a run, local ones by the state of the container.
Metrics(end) ==
  [overflow |-> end = "flood", oom |-> end = "memory",
   status   |-> IF end = "slow" THEN "TO" ELSE "none",
   code     |-> CASE end = "slow" -> 124 [] end = "memory" -> 137 [] end = "exit" -> 1 [] OTHER -> 0]
Verdict(end) ==
  LET m == Metrics(end) IN
  CASE m.overflow -> "OLE" [] ~m.overflow /\ m.oom -> "MLE"
    [] ~m.overflow /\ ~m.oom /\ m.status = "TO" -> "TLE"
    [] ~m.overflow /\ ~m.oom /\ m.status # "TO" /\ m.code # 0 -> "RE"
    [] OTHER -> IF end = "right" THEN "AC" ELSE "WA"

Slow(g) == Cardinality({i \in DOMAIN judged : judged[i] = "TLE" /\ g \in task.cases[i]})
Stopped_third(i) == task.cases[i] # {} /\ \A g \in task.cases[i] : Slow(g) > 2 \* mutation: a group ends one slow case later
Stopped_any(i) == \E g \in task.cases[i] : Slow(g) >= 2 \* mutation: one stopped group is enough
Stopped(i) == task.cases[i] # {} /\ \A g \in task.cases[i] : Slow(g) >= 2
Over == ~Scored /\ ~task.sample /\ Cardinality({i \in DOMAIN judged : judged[i] = "TLE"}) >= 2

At(i) == phase = "cases" /\ i = Len(judged) + 1 /\ i \in Cases
Skip(i) ==
  /\ At(i)
  /\ IF Scored THEN late \/ Stopped(i) ELSE Over
  /\ judged' = Append(judged, "SKIPPED")
  /\ UNCHANGED <<task, truth, phase, late, report, stored>>

\* Without scoring the deadline ends the execution; a lost file or container does so always.
RunCase(i) ==
  /\ At(i)
  /\ IF Scored THEN ~late /\ ~Stopped(i) ELSE ~Over
  /\ IF truth[i] = "lost" \/ (late /\ ~Scored) THEN Send(Failed) /\ UNCHANGED judged
     ELSE judged' = Append(judged, Verdict(truth[i])) /\ UNCHANGED <<phase, report>>
  /\ UNCHANGED <<task, truth, late, stored>>

Late ==
  /\ phase = "cases"
  /\ ~late
  /\ late' = TRUE
  /\ UNCHANGED <<task, truth, phase, judged, report, stored>>

\* The result's verdict is the first that is neither AC nor skipped.
Overall(cases) ==
  LET bad == {i \in DOMAIN cases : cases[i] \notin {"AC", "SKIPPED"}} IN
  IF bad = {} THEN "AC" ELSE cases[Min(bad)]
Members(g) == {i \in Cases : g \in task.cases[i]}
GroupScores(cases) ==
  [g \in Groups |-> IF Members(g) # {} /\ \A i \in Members(g) : cases[i] = "AC" THEN task.points[g] ELSE 0]

\* The aggregator's numbers are checked against the points; when it fails the result is a JE.
Score ==
  /\ phase = "cases"
  /\ Len(judged) = Len(task.cases)
  /\ \/ ~Scored /\ Send(Result(Overall(judged), judged, None))
     \/ Scored /\ task.mode = "groups" /\ Send(Result(Overall(judged), judged, Scores(GroupScores(judged))))
     \/ /\ Scored /\ task.mode = "aggregate"
        /\ \/ \E s \in Possible(task) : Send(Result(Overall(judged), judged, Scores(s)))
           \/ Send(Failed)
  /\ UNCHANGED <<task, truth, judged, late, stored>>

-----------------------------------------------------------------------------
(* The API.                                                                *)

\* validResult, of the bridge: the shape of a result, without the job.
ValidScore(r) ==
  /\ r.verdict # "JE" /\ r.scores.groups # <<>> /\ r.scores.max >= 1
  /\ \A g \in DOMAIN r.scores.groups : /\ r.scores.groups[g] \in 0..r.scores.most[g]
                                      /\ r.verdict = "CE" => r.scores.groups[g] = 0
  /\ r.scores.score = Total(r.scores.groups) /\ r.scores.max = Total(r.scores.most)
ValidSkips(r) == \A i \in DOMAIN r.cases : r.cases[i] = "SKIPPED" /\ r.scores = None =>
  /\ Cardinality({j \in 1..(i - 1) : r.cases[j] = "TLE"}) >= 2
  /\ \A j \in i..Len(r.cases) : r.cases[j] = "SKIPPED"
ValidResult(r) ==
  /\ r.scores # None => ValidScore(r)
  /\ IF r.verdict \in {"JE", "CE"} THEN r.passed = 0 /\ r.cases = <<>>
     ELSE /\ Len(r.cases) = r.total /\ r.total > 0
          /\ ValidSkips(r)
          /\ r.verdict = Overall(r.cases)

\* judgedAsScored: which cases a scored result may skip, worked out from the verdicts again.
Slows(cases, i, g)   == Cardinality({j \in 1..(i - 1) : cases[j] = "TLE" /\ g \in task.cases[j]})
Ended_half(cases, i) == \E g \in task.cases[i] : Slows(cases, i, g) >= 2 \* mutation: as Stopped_any
Ended(cases, i)      == task.cases[i] # {} /\ \A g \in task.cases[i] : Slows(cases, i, g) >= 2
BudgetGone(cases, i) == \E j \in 1..(i - 1) : cases[j] = "SKIPPED" /\ ~Ended(cases, j)
JudgedAsScored(cases) ==
  /\ Len(cases) = Len(task.cases)
  /\ \A i \in DOMAIN cases : BudgetGone(cases, i) \/ Ended(cases, i) => cases[i] = "SKIPPED"

\* The groups' scores of a groups-mode result are worked out again; skipped cases are not AC.
AllAccepted_skips(cases, g) == \A i \in Members(g) : cases[i] \in {"AC", "SKIPPED"} \* mutation
AllAccepted(cases, g) == \A i \in Members(g) : cases[i] = "AC"
Earned(cases) == [g \in Groups |-> IF Members(g) # {} /\ AllAccepted(cases, g) THEN task.points[g] ELSE 0]

ScoreResult(r) ==
  CASE task.mode = None /\ r.scores # None -> "refused"
    [] task.mode = None /\ r.scores = None -> "accepted"
    [] task.mode # None /\ r.verdict = "JE" -> IF r.scores = None THEN "accepted" ELSE "refused"
    [] task.mode # None /\ r.verdict # "JE" /\ r.scores = None -> "unscored"
    [] OTHER -> IF /\ Len(r.scores.groups) = Len(task.points)
                   /\ r.scores.most = task.points /\ r.scores.max = Total(task.points)
                   /\ r.verdict = "CE" => \A g \in Groups : r.scores.groups[g] = 0
                   /\ r.verdict # "CE" => /\ JudgedAsScored(r.cases)
                                          /\ task.mode = "groups" => r.scores.groups = Earned(r.cases)
                THEN "accepted" ELSE "refused"

\* FinishAttempt: a result without the scores that the job asks for becomes a JE, by the
\* bridge; any other that is not accepted stays unstored.
Answer ==
  LET verdict == ScoreResult(report) IN
  IF verdict = "accepted" /\ (task.local \/ ValidResult(report)) THEN report
  ELSE IF verdict = "unscored" /\ ~task.local /\ ValidResult(report) THEN Failed ELSE None
Store ==
  /\ phase = "sent"
  /\ phase' = "ended"
  /\ stored' = Answer
  /\ UNCHANGED <<task, truth, judged, late, report>>

ScoringNext ==
  \/ Compile \/ Late \/ Score \/ Store
  \/ \E i \in Cases : Skip(i) \/ RunCase(i)

ScoringSpec == ScoringInit /\ [][ScoringNext]_scoringVars

-----------------------------------------------------------------------------
ScoringTypeOK ==
  /\ task \in Jobs /\ truth \in [Cases -> Ends]
  /\ phase \in {"compile", "cases", "sent", "ended"} /\ late \in BOOLEAN
  /\ judged \in Seq(CaseVerdicts) /\ Len(judged) <= Len(task.cases)
  /\ {report, stored} \subseteq Results \cup {None}
  /\ (report = None) <=> (phase \in {"compile", "cases"})
  /\ phase # "ended" => stored = None

\* The two sides agree on every result: a host of this release is never refused, nor does its
\* result change on the way.
HostsAreAccepted == phase = "ended" /\ ~task.older => stored = report

\* Skipping changes nothing but the running time: unless the time ran out, the verdict and the
\* groups' scores are those of running every case; when it did, no group scores unearned.
Right(g)   == Members(g) # {} /\ \A i \in Members(g) : truth[i] = "right"
Judged     == stored # None /\ stored.verdict \notin {"JE", "CE"}
SkippingIsFree == Judged =>
  /\ task.mode = "groups" => \A g \in Groups :
       /\ stored.scores.groups[g] = task.points[g] \/ stored.scores.groups[g] = 0
       /\ task.points[g] > 0 => /\ stored.scores.groups[g] > 0 => Right(g)
                                /\ ~late /\ Right(g) => stored.scores.groups[g] > 0
  /\ (~late \/ task.mode = None) => (stored.verdict = "AC" <=> \A i \in Cases : truth[i] = "right")
  /\ stored.verdict = "AC" => \A i \in Cases : truth[i] # "right" => late /\ stored.cases[i] = "SKIPPED"

ScoresFollowTheCases == HostsAreAccepted /\ SkippingIsFree

=============================================================================
