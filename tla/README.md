# Verification of ShareOJ

TLA+ models of ShareOJ (Go API, Python judge hosts, AWS queues and functions),
checked with TLC, with theorems checked by the TLA+ proof system. Paths are
relative to the repository's root; `api/internal/` is left out where a file is
named after its package (`contests/teams.go`).

Contents: 1 the system, 2 the modules, 3 the runs, 4 the theorems, 5 where the
code and its documents differ, 6 what is not modelled.

## 1. The system

### Components

| Component | Code | State it keeps | Operations | Modelled in |
|---|---|---|---|---|
| Submission outbox | `submissions` | rows of `submissions` and `code_runs` | CreateRun, CreateGeneration, CreateCodeRun, Rejudge, FinishAttempt, FinishCodeRun, ExpireCodeRuns | JudgeOutbox, JudgeLife |
| Judge bridge | `api/cmd/judge-bridge` | none between invocations; a transaction and row locks within one | dispatch (schedule, wake-up), results (SQS) | JudgeOutbox, RollingSwitch, HostPool |
| Judge host worker | `judge/runner/worker.py` | the request it holds | receive, judge, report, answer, release | JudgeOutbox, RollingSwitch |
| SQS | `infra/judge/storage.tf` | request, result and dead-letter queues | redelivery, redrive | JudgeOutbox |
| Local judge worker | `api/cmd/judge-worker` | the row it claimed | Claim, ClaimCodeRun, Finish | LocalJudge |
| Scoring | `judge/runner/host.py`, `submissions/score.go`, bridge `results.go` | - | judge, validResult, scoreResult | Scoring |
| Capacity, idle stop | bridge `capacity.go`, `judge/runner/pool.py` | EC2 states, hold tags, idle time | plan, hold, start, stop | HostPool |
| Rolling switch | `judge/rollout.py` | checkpoint, configurations, installed digests | pause, drain, switch, resume | RollingSwitch |
| Contests: teams | `contests/participation.go`, `teams.go` | participants, teams, guesses | Join, RemoveTeamMember, SetOnsite, settings | ContestTeams |
| Contests: staff | `contests/setters.go`, `drafts.go`, `store.go` | setters, drafts, links, exclusions, testers | invite, accept, leave, publish, save, delete account | ContestStaff |
| Contests: results | `contests/standings.go`, `reveal.go`, `submissions/rejudge.go` | runs, `revealed_at` | submit, rejudge, reveal, read | ContestResults |
| Problems | `problems` | drafts with versions, copies, schedule, featured rounds | Save, Publish, Schedule, Apply, releases, readiness | Publications |
| Limits | `submissions/rate_limit.go`, `database/*_quota.go` | runs, slots | begin, consume | Limits |
| Test files | `testfiles`, `infra/api/storage.tf` | rows, S3 versions with tags | Begin, Complete, Resolve, WriteGenerated | TestFiles |

### Interaction

The API inserts a row; the row is the durable outbox. The API wakes the bridge,
at best, and a schedule wakes it every minute. The bridge is a Lambda function
with several concurrent invocations: each releases contests and problems that
are due, sweeps expired rows, sizes the pool of hosts, then takes waiting rows
one at a time (`FOR UPDATE SKIP LOCKED`), uploads the job, sends a pointer to
the request queue, marks the row and commits. Hosts receive one request at a
time, send progress and a result to the result queue and delete the request.
Result messages invoke the bridge again, which updates the row under a condition
on attempt and status and goes on sending. Rejudges put finished rows back under
a fresh attempt. A local installation polls the same tables instead. Everything
shares one PostgreSQL at READ COMMITTED; contests, problems and submissions meet
in its row locks.

### What is hard

- Concurrent invocations and requests at READ COMMITTED: what a statement read
  before it waited for a lock may be stale afterwards.
- At-least-once, unordered queues; hosts, invocations and controllers that stop
  at any step; commits that fail after their message left.
- Time: deadlines, the start, freeze and end of a contest, release times, quota
  slots, all read at one moment and acted on at another.
- Copies: a problem's draft has up to four, a result is checked by two programs,
  a plan and the selection it predicts are separate code.
- Limits under parallel calls; capacity that follows demand through delayed tags.

`PROJECT.json` lists the hazards line by line with the properties about them.

## 2. Modules

| Module | Content |
|---|---|
| `JudgeOutbox`, `JudgeLife` | outbox, bridge, queues and hosts; the abstract life of a judgement that they implement |
| `ContestTeams` | registrations and teams of one contest |
| `ContestStaff` | who is staff of a contest, who may compete in it |
| `ContestResults` | submissions, rejudges, standings, freeze and reveal |
| `Publications` | where a problem goes: publication, schedule, contest, featured rounds |
| `Limits`, `Scoring`, `LocalJudge`, `TestFiles`, `HostPool`, `RollingSwitch` | parts of the service with state of their own |
| `Service` | the six parts side by side |
| `Absent` | NULL |
| `MC...` | instances for TLC |
| `..._proofs` | invariants and theorems; those of `LocalJudge`, `TestFiles`, `Scoring` and `RollingSwitch` are in `Service_proofs` |

Conventions. A transaction is several steps, one for each statement that may
wait for a lock, together with the statements after it that read nothing
another transaction can change meanwhile. What a transaction has read and
written but not committed lives in its record (`req[r]`, `calls[c]`, `pc[b]`);
its locks follow from that record. A commit writes everything at once. A single
statement is one step. History variables guard nothing. Definitions whose name
ends in `_word` and that carry the comment "mutation" are the plausible bugs
that the properties are tested against; no action uses them.

### JudgeOutbox and JudgeLife

`status`, `attempt`, `dispatched`, `progress`, `result` and `since` are the
committed columns of a row. A fresh uuid is the next number, so `Rejudged(i)` is
`attempt[i] > 1`. `late` and `urgent` are the rows whose timers have run out: a
timer may run out at any time after it was started. Dispatch, expiry, progress,
results and rejudge are single steps; the transaction of `send` is `TakeNew` /
`CountInFlight` / `TakeSpare`, then `Send` or `Refuse`, then `Commit` or
`GiveUp`, which is every error, timeout and crash. Queues are sets: `Receive`
may leave a copy visible, and nothing orders messages; a request carries its
receive count and is dead-lettered when that is used up. `JudgeLife` says what
is promised: a row is submitted, an issued attempt is executed any number of
times, an open row is decided once by an execution of its own attempt or by a
judge error, a rejudge opens a decided solution again. `Life` is the refinement
mapping.

### ContestTeams

People, teams, the passphrase and the clock of one contest. Requests are
registering alone, in a new team or by a code; moving between teams; guessing
the passphrase; a setter's switch of the onsite mark; removing a member; a new
code; a submission; deleting an account; and a save of the settings. `Join`
holds the contest in share mode and an advisory lock per account, locks the
team, and writes only after it has counted again. Team names are left out: a
unique index decides.

### ContestStaff

One id that is a draft, then a contest, with owner, setters, link, exclusions,
problems, authors and testers. `lockID` is the advisory lock on the id. `Late`
says whether a request authenticated before an account's deletion may still be
open then; the runs take FALSE, see section 5.

### ContestResults

Runs in the order they become visible; `Cell` and `Row` are the three rules of
the standings, onsite division and teams included, translated from the one pass
over the runs in `standings.go`. The properties compare them with rules
stated over sets of attempts. Reads (table, lists, pages, counts of solvers)
are operators of the committed state, for each viewer.

### Publications

Drafts are reduced to what the rules look at: which texts are filled, level,
scoring, cases, other runtimes needed. `row`, `held` and `apps` are functions of
the problems that have a row, so `DOMAIN` says which these are. `Stored` is the
trigger on the table, `Write` a statement that changes several rows at once.
`late` are the transactions open since the day before. A request to publish, take
down, reserve or save names a version, any one, also one that does not exist yet
(`NotPast`); `judged` is the version whose draft the handler has looked at, and
`unjudged` are the problems that left in a version that nobody judged (section 5).
`Publishable`, `Enters`, `Appliable` are
the checks of the operations; `Assess` is `readiness.go`, written separately as
in the code. `FeaturedLock` to `FeaturedCommit` is one round of the delivery,
`PlanOf` the plan shown before it. Time is in days; two rounds a week.

### The parts of Service

- `Limits`: runs are counted over a window under the account's advisory lock;
  creations and registrations draw from slots kept as one time, `fullAt`.
  Registrations charge a network and an address in one transaction, with the
  rows' locks and the times that were read before the wait.
- `Scoring`: `truth` is what each case would come to. The host runs or skips the
  cases in order, scores groups, counted in whole points, and gives a result; `ValidResult` and
  `ScoreResult` are the bridge's and the store's own rules for the same result.
- `LocalJudge`: polls, claims, deadlines and late results of local workers. A
  local row has no attempt; only time separates its claims.
- `TestFiles`: object versions with the tag `pending` or `ready`, S3's lifecycle
  rule as it is configured, uploads repeated while their URL is valid, calls
  that fetch, tag and record in separate steps, drafts, jobs, generated files.
- `HostPool`: invocations read demand and hosts, then tag and start; hosts read
  their tags late, decide to stop, and stop later. `wantedFor` remembers since when
  nothing that the demand depends on has changed; the properties bound how long the
  pool then takes. `Recovery` and `QueueRecovery` are those bounds, in the times that
  the schedule, an invocation and EC2 are given.
- `RollingSwitch`: the controller's steps and what its directory keeps, the
  configurations that invocations and requests began with, rows bound to an
  environment, requests and hosts of both. `Sleep` waits as long as an
  invocation may run. Three equal polls of `wait_requests_idle` are one test.

They share no variable with each other, so `Service` chooses at the start which
of them moves. That is one specification and one run for six parts without the
product of their states; it says nothing of how they would interact, because
they do not. Their interfaces to the outbox (a job's files, a result, the
digest of a row) are modelled on both sides.

## 3. Runs

| Run | Instance | Properties |
|---|---|---|
| safety | 1 solution, 2 invocations, 1 host, 2 attempts, 2 receives, 1 failed commit | TypeOK, RowStaysAsRead, ResultOfThisAttempt, NoSilentLoss, OneSendPerCommit, FinalIsFinal, ImplementsLife |
| progress | 1 solution, 1 invocation, 2 hosts, 1 case | ProgressMovesForward |
| spare | 3 code runs, 2 invocations, spareInFlight 1 | SpareBound |
| ends | 1 solution, 1 authoring run, `FairSpec` | EveryRowEnds |
| judged | 1 solution, 1 code run, spareInFlight 1, `ReliableSpec` | EveryRowIsJudged |
| ahead | 3 code runs, 2 invocations, spareInFlight 2 | NewWaitsBehindAtMostSpare fails |
| contestteams_teams | up to 3 accounts, 2 teams, 2 open requests; 6 mixes of requests | TypeOK, TeamsFit, IndividualsKeepTheirRuns, SecretsGuarded, OnsiteIsKept |
| conteststaff_staff | 3 accounts, 1 problem, 2 open requests, 2 links; 4 mixes | TypeOK, StaffDoNotCompete, RemovedHoldNoLink, OneOwnedRow, RanksStay |
| contestresults_results | up to 3 accounts, 1 team, 2 problems, 3 runs; 4 mixes | TypeOK, TableFollowsTheRules, FreezeKeepsSecrets, RevealedIsComplete, SettersStopAtTheReveal |
| publications_publications | up to 3 problems of 2 to 3 authors, 2 open requests, up to 9 days; 9 mixes | TypeOK, OneDestination, CopiesInStep, ContentSettled, ReadinessIsRight, RoundsStay, AnnouncedIsDelivered |
| publications_mixed | the same | ScoringNeverMixed fails |
| service_service | six parts, two actors each | TypeOK, WithinLimits, ScoresFollowTheCases, ResultOfThisClaim, FilesStayUsable, PoolFollowsDemand, OneEnvironment |

What the properties say is at their definitions. Several are conjunctions of
named parts that are checked together: `SecretsGuarded` (codes of teams, number
of guesses, the passphrase compared), `ContentSettled` (finished content, one
scoring), `WithinLimits` (runs, charges, a network charged with its addresses,
Retry-After), `FilesStayUsable` (bytes, jobs), `PoolFollowsDemand` (bursts for
contests, queue served, stale hosts off).

### Bounds, and why they are enough

- JudgeOutbox. Two attempts give a stale and a present one, one failed commit a
  repeated send, two receives a redelivery and a dead letter, two invocations
  every race on a row. Conditions on a row mention no other row but for the count
  and the order, for which `spare`, `ahead` and `judged` have several. All the
  safety properties but `TableFollowsTheRules` are also proved without bounds (section 4).
- Mixes. Two open transactions are every pair of the kinds of a mix; the mixes
  are chosen so that each pair of operations that touch the same rows is in one.
  A third transaction adds no lock order that two do not have. The counts
  (members, guesses, applications) have limits of one to three, so that they are
  reached.
- ContestResults. Three runs of one account hold every order of a better, equal
  and worse result, before and after the freeze and the end; the other mixes
  relate two accounts, a team, two problems.
- Publications. Days before, at and after a reservation, a contest, and two
  rounds; three problems of three authors for the order of the queue. A request
  names each version up to the last that the mix's saves reach.
- Scoring. Jobs of up to four cases: a group, and both groups of an aggregate
  problem, is cut off after two cases that took too long, so that a later case is
  skipped (`Stopped`) and the API's count (`Ended`) has to agree; cases of no cut-off
  group go on.
- Service. Two calls, workers or invocations at a time and every limit small
  enough to be met. One row and two resumptions for the switch: its rows meet only
  in the test that none is under way.
- Pool. Time is in minutes, scaled: Period 1, Delay 0, Lag 1, Grace 2, FallbackHold 4,
  windows of Lead 1, Span 9 and After 1, IdleTime 1, one event by `LastEvent` 1. An
  invocation that takes its Lag overlaps the next one. So `Recovery` is 9 and
  `QueueRecovery` 14, and within `EndOfTime` 16 and within an open window there is time
  for an event, for either bound after it, and for what follows. The price is that no
  event comes late; the theorems have no such bound.

Symmetry permutes accounts, teams, requests and other values that the
specifications never tell apart; the liveness runs use none. `CHECK_DEADLOCK
FALSE` stands where a behaviour is over when its bounded inputs are used up.

### Fairness

`FairSpec` assumes that ticks keep getting through to the two sweeps (the
schedule fires every minute and is retried), that an invocation runs on until it
ends or gives up, and that time passes; hosts and queues may fail for ever and
every invocation may give up. The run has no failed commit after a send, which
`safety` has. `ReliableSpec` assumes no deadline, no dead letter and no refusal, and
that a step that is possible again and again succeeds once; without such an
assumption nothing is promised beyond the deadline. The other modules state
bounded response as safety over a clock (`PoolFollowsDemand`, `LocalJudge`), or
that a release never gets stuck (`RoundsStay`), which `FairSpec` relies on.

## 4. Theorems

All hold for every value of the constants, under the named assumptions of the
modules.

| Module | Theorem | States |
|---|---|---|
| JudgeOutbox_proofs | Invariance, TypeCorrect, LockedRowsStay, VerdictsAreCurrent, NothingVanishes, SentOncePerCommit, VerdictsAreFinal | IInv and six properties of `safety` |
| | OutboxImplementsLife | `Spec => ImplementsLife`, the refinement of JudgeLife |
| | SpareIsBounded, ProgressNeverGoesBack | the properties of `spare` and `progress` |
| ContestTeams_proofs | TeamsInvariance, TeamsAreTyped, TeamsAlwaysFit, IndividualsAlwaysKeepTheirRuns, SecretsAlwaysGuarded, OnsiteIsAlwaysKept | TeamsIInv and all properties of `contestteams_teams` |
| ContestStaff_proofs | StaffInvariance, StaffIsTyped, StaffNeverCompete, RemovedNeverHoldTheLink, RanksAlwaysStay | StaffIInv and properties of `conteststaff_staff` |
| | NeverBothRows, AlwaysOneOwnedRow | OneOwnedRow: its first part, and under `~Late` the whole |
| Publications_proofs | PublicationsInvariance, AlwaysOneDestination, CopiesAlwaysInStep, ContentAlwaysSettled, ReadinessIsAlwaysRight | PublicationsIInv and the invariants of `publications_publications` |
| | TablesInvariance, PublicationsAreTyped, RoundsAlwaysStay | TablesIInv, TypeOK and `RoundsStay` |
| | AnnouncedIsAlwaysDelivered | `Spec => AnnouncedIsDelivered` |
| ContestResults_proofs | ResultsInvariance, ResultsAreTyped, RevealedIsAlwaysComplete, FreezeAlwaysKeepsSecrets, SettersAlwaysStop | ResultsIInv and properties of `results` |
| Limits_proofs | LimitsAlwaysHold, LimitsAreTyped | `LimitsSpec => []WithinLimits`, `[]LimitsTypeOK` |
| HostPool_proofs | ContestsHaveTheirHosts, FittingWindowsCount, QueuesAreServed, StaleHostsStayOff | `PoolSpec => []` of the four parts of PoolFollowsDemand |
| | PoolAlwaysFollows, PoolIsTyped | `PoolSpec => []PoolFollowsDemand`, `[]PoolTypeOK` |
| Service_proofs | LocalInvariance, LocalResultsOfTheirClaims | `LocalSpec => []LocalIInv`, `[]ResultOfThisClaim` |
| | FilesAlwaysUsable, ScoresAlwaysFollow | `FilesSpec => []FilesStayUsable`, `ScoringSpec => []ScoresFollowTheCases` |
| | SwitchInvariance, SwitchInOneEnvironment | `SwitchSpec => []SwitchIInv`, `[]OneEnvironment` |
| | ScoringIsTyped, LocalIsTyped, FilesAreTyped | `ScoringTypeOK` and the like, of each part |
| | ServiceIsTyped | `Service!Spec => []TypeOK` |
| | ServiceResultsOfTheirClaims, ServiceFilesUsable, ServiceScoresFollow, ServiceWithinLimits, ServicePoolFollows, ServiceOneEnvironment | the same of `Service!Spec`, which the run checks |

The runs of the contest modules restrict a behaviour to a mix of requests and two
open transactions; the theorems are about all kinds of requests at once and any
number of transactions, accounts, teams, problems and codes.

The inductive invariants, and why they are needed:

- `IInv` (JudgeOutbox) adds `Issued` (a row has an attempt from its INSERT on, and
  no `dispatched_at` before), `Held` (an invocation has a row exactly while it
  sends or refuses it), `AnswersExecuted` and `SentIsCarried` (`NoSilentLoss` from
  the send on, not only from the commit on). `RowStep` says that a locked row is
  changed by its holder only; `CarriedStep` that a message leaves only through a
  result that decides the row.
- `OutboxImplementsLife` maps each step to one of JudgeLife or a stutter. Beyond
  IInv it needs `NoneAhead`: no request and no job carries an attempt later than
  its row's, so an execution is of an issued attempt. `SpareInv` counts the rows
  that were chosen but not sent with those in flight: an invocation chooses one
  after it has counted fewer than `SpareInFlight`, and each counts at most once
  between two sends.
- `TeamsIInv` says what an open transaction has read and still relies on
  (`RequestsKnow`: room in the team, the member's place, the number of guesses)
  and which locks two transactions never share (`RequestsApart`). None of the
  properties is inductive without both: `TeamsFit` needs that the room a join has
  counted is still there when it commits, `IndividualsKeepTheirRuns` that a move
  that has looked at the clock is beside no submission of that registration.
- `StaffIInv` is built the same way: one transaction at a time holds the row of
  the id exclusively and none beside a registration (`Alone`, `Apart`), so an
  accepted account is not registered, a registering one no staff, an heir not
  leaving. `Separate`, `LinksKept` and `OwnersStay` are the properties, from the
  draft on. With `Late` only `OwnersStay` fails; everything else is proved for it
  too.
- `SwitchIInv`: the environment changes once, with the bridge, and only when
  nothing is being sent and no request is waiting or held (`BridgeFirst`,
  `ControllerKnows`); a message's environment is the one its row names or will
  name (`MessagesFollow`). All of it may end once a controller was `hurried`.
- `LocalIInv` adds to `ResultOfThisClaim` that an item is in one place and that a
  worker that judges holds its claim or is past it: a claim expires only after
  the minute beyond the deadline, and a worker ends before that
  (`JudgeTimeout + Overtime` against `JudgeTimeout + Minute`, from
  `LocalAssumption`). Without attempts this is all that separates two claims.
- `RunsIInv`: at most one call is between Count and Insert of an account
  (`OneCounts`), and the room it saw is still there (`RoomStays`); time only
  adds room.
- `SlotsIInv` is about the slots. A call keeps the rows of the subjects it has
  asked for (`CallsApart`), so the charges it has drawn still follow the last
  committed ones (`ComesAfter`) and what it has seen is still so (`CallFits`);
  `full_at` is that of the last charge, or the row was deleted after all slots
  were back (`RowFits`). `ChargesWithin` is not inductive, since a deletion
  forgets when the charges before it were made. `Spaced` is: between two charges
  there is one, `k`, from which on each charge has put `full_at` off by a whole
  slot, and before which each was at least `Every - Timeout` after the last, as a
  deletion costs at most the wait of the statement that then finds no row
  (`SpacedAppend`, `RowDeleted`). `SpacedIsWithin` draws the bound from it.
  `PromiseFits` keeps what a Retry-After was based on.
- `FilesIInv`: a row's version is verified and tagged before the row is written
  (`RowsAreVerified`, `CallsKnow`), the lifecycle rule takes pending versions
  only, ready rows never change, and drafts, jobs and the generation under way
  name ready files of their version.
- `ScoringIInv`: a case that ran has the verdict of its run; a scored execution
  skips exactly what `judgedAsScored` lets it skip, and only a deadline adds to
  that (`SkipsOfGroups`); any other skips the rest after two cases that took too
  long (`SkipsOfRest`); what was sent is a failure, a compile error or all cases
  with the scores of the job's mode (`Sent`). The host counts by group as it goes,
  the API by case afterwards: `HostCounts` and `OneMoreCase` show that the two
  counts agree. `SkippingIsFree` follows since a skipped case comes after one that
  took too long in each of its groups, which had lost the group already. How points
  are added up plays no part.
- `PublicationsIInv` relates every problem to its copies (`Sound`: one
  destination, copies of the saved draft, finished content, one scoring) and
  every open transaction to what it has checked (`Knows`): a save that waits for
  its commit still has the version it updated and still meets the rules it was
  judged by, a contest's problems are still free, an application still fits under
  the cap, a publication that finds the version it has judged finds a finished draft.
  One that finds another version, as the client's named one, may find any draft:
  its problem is in `unjudged`, which `Finished` excepts.
  Locks are never shared (`Exclusive`), and each step spares what another
  transaction has locked (`Spared`), which is all `Knows` needs (`SparedKnows`).
  `MovedStaysSound` is one argument for publication, take-down, reservation,
  contest end, due reservation and round.
- `TablesIInv` says what the tables hold, beside it. `RoundsStay` needs two parts
  of it: recorded rounds are past and before the cursor, so a release writes each
  once; and what a round called new has `ever_published` (`RoundsSound`), which no
  step takes back (`RowsGoOn`), so a release finds none of its new problems
  recorded, whatever overlapped the reading of its queue.
- `AnnouncedIsDelivered` compares the plan, computed for many rounds in advance, with
  what a round then selects. `AnnouncedIInv` says that an application that waits has
  its place in the queue (`EntriesSound`), that an open release holds the schedule
  and, unless the plan was dropped since, has read the queue the plan was made of
  (`ReleaseKnows`), and that each problem of the plan is the one the selection picks
  once those planned before it are gone and counted (`PlanSound`). The plan's
  recursion has this property by the smallest round without it (`PlanAfter`,
  `PlanOfIsPlanned`). A round takes the plan's head off the queue and counts it, so
  the tail is the plan of what is left (`RoundDelivers`, `RoundAnnounced`).
- `ResultsIInv`: a reveal that holds the contest's row is beside no open
  submission, and once it has looked for pending submissions beside no rejudge
  that holds a problem (`RevealAlone`), so what it found is so at its commit;
  after it, open submissions are from after the end and rejudges know that the
  results are final (`AfterReveal`). `RevealedIsComplete` is inductive with these
  two, and `SettersStopAtTheReveal` needs the last part of `AfterReveal`.
- `FreezeKeepsSecrets` is a statement about two lists of submissions, the one
  that is and the one with secret verdicts covered. What a list, a page, a mark
  or a count says of both is compared set by set (`SecretIsNotShown`,
  `ListsKeepSecrets`). A cell of the table is a recursive function of its
  attempts; `FrozenCell` shows that the two functions satisfy the same equation,
  body by body, because a frozen attempt is counted before its verdict is looked
  at, and so are the same function: no induction is needed.
- The types need little beyond these invariants: that times and counts stay within
  what the run bounds (`InBounds`, `ClockBounds`), that a report is there when it is
  stored (`ReportWaits`), and that what S3 and the rows name exists (`FileBounds`).
- `PoolIInv` says what an overlapping invocation may still do. It acts on a plan of
  an older snapshot, so that a stale host stays off is not inductive by itself:
  `StartsMayRun` says that what it has left to start may be started. That a plan
  names only such hosts, each once, is a fact about the ranking (`AmongFacts`,
  `RankedFacts`, `StartsArePlanned`), proved by the smallest counterexample.
- `DemandIInv` adds the clock: nothing is later than `Urgent` lets it be (`Deadlines`),
  an invocation that read the demand after it last changed knows it (`TicksKnow`), and
  a burst host is held before it is started (`StartsAreHeld`).
- `ContestIInv`, for contests. Once the invocations with the old demand and their starts
  are done (`Quiet`), each host has an invocation under way that will tag it, or is
  tagged and stays, or had decided to stop before its tag showed and is on its way to
  stopped, each by a time of its own (`HostsAreTagged`). From `OffBy` on a stopped host
  has an invocation that starts it, in time (`HostsAreStarted`). Nothing of this is true of
  the hosts alone: what an open invocation is about to do is part of the invariant.
- `QueueIInv`, for the queue. A primary host does not stop by itself, so the next
  invocation brings it back (`PrimariesReturn`). Burst hosts are harder: the plan keeps the
  first one that runs, and that one may have decided to stop. Then the next one is taken,
  which may have decided as well. `HostIsFound` counts: each host that is down has cost
  at most one `Attempt`, and a host that was held in time does not go down, so that
  after as many attempts as there are burst hosts one is held or, if none runs, started. While
  one runs, no invocation that knows of it starts another (`OneAtATime`).
- `FittingCount` needs no invariant. The windows admitted before `w` are among those that
  opened before it, each once, so what they use is at most the sum that `Fits` allows.
- What `Service_proofs` says of the whole needs no invariant: seen from a part, `Service` takes the
  part's steps or stutters (`ServiceHasParts`).

Five proofs changed a module. `ContentIssues` had lost a set to an operator's
precedence, so that it skipped half of the rules of aggregate problems: the
lemma on the full score of a publishable problem (`FullScoreCounts`) failed.
And `ReadyWhenPublic` spoke of every problem in a contest: one that was released
with its contest and taken down again may be saved unfinished, which the code
allows (`checkSave`); it now speaks of contests that are not over, and a mix of
the run reaches that case. And `Attempts` had sorted runs by time alone, which
leaves the order of runs of one instant open, while the query orders by
`created_at` and then by id (`standings.go:309`): that two tables agree could not
be shown. `LastOf` now names the order; ids stand in the order of the commits,
which is any order. Likewise the rows of a table: a library sort
by a relation in which rows tie has no defined result, so nothing could be proved of
it. `InOrder` asks only that nothing stands behind what goes after it
(`standings.go:213-228`; the order of tied rows, by name in the code, is left out).
`HostPool`'s bounds held only for the constants of its run. `Recovery` had left out an
invocation that still starts hosts by the old demand, `2 * Lag` more. `QueueIsServed` shared
that bound, but the time it takes grows with the number of burst hosts, each of which may
have decided to stop just before it is chosen: `QueueRecovery`. And `UpForContests` spoke of
the windows that fit the budget in any case, which is now a property of its own
(`FittingCount`); it now speaks of all times at which contests need the hosts.

No installed prover instantiates an induction theorem, whose parameter is an
operator. Where a proof needs one step of induction it goes by the smallest
counterexample (`Least`, from `NatLessThanWellFounded` and `WFMin`): that a sum of
points is a number (`SumsExist`, `SumsAreNatural`), that a round has a latest
past one. A reader who compares the model with the code should know the
assumptions that came with these proofs: a draft's points are numbers
(`DraftAssumption`), NULL is no problem and no copy (`NullAssumption`) and no time
(`NoRowAssumption`), applications that wait at the start were entered one after
another and not in the future (`EntryAssumption`), a mix is made of the accounts, problems and results there are,
with a finite number of requests (`MixAssumption`), a call for slots asks for one
subject or for a network and an address (`DemandAssumption`), a call lasts less
than a slot takes to come back (`LimitAssumption`: 5 s against 3 min and more), and
a scored job has groups with a full score of at least 1 (`ScoringAssumption`, from
`problems/validation.go:131`), whose scores are not NULL (`ScoreAssumption`), NULL is no result (`ResultAssumption`),
a result without a verdict on the cases has no points (`ResultsAssumption`, from
`scoreResult` in `score.go`), a contest has finitely many problems and registrations
and no team has an account's id (`TeamAssumption`), a host has one role and a name of its own (`HostAssumption`), a plan's contests are
finitely many (`ContestsAssumption`) and end after they start (`PlanAssumption`), and
the two days looked at are longer than a window, and the fallback's 30 minutes than the
time between two invocations and what they take (`TimeAssumption`; without the second,
a host held for the queue may stop before it is held again).

Only model-checked: liveness and ENABLED (out of the prover's reach), and what the
folds of the standings compute, with them `TableFollowsTheRules`.

## 5. Where the code and its documents differ

Two runs expect a violation (see `findings`):

- `ahead`: "a new submission queues behind at most spareInFlight judgements"
  (`api/cmd/judge-bridge/dispatch.go:107`). Two invocations count the same rows
  and each sends one more. `SpareBound` is what holds.
- `publications_mixed`: a save of a problem that began before a contest took the
  problem holds no lock on the contest, so runs of one contest problem may be
  scored by two definitions, against the comment at `problems/store.go:384`.

Met while modelling; each is visible in a module, and the properties above except
it by name, in a history variable or in a constant:

- Outbox. A row that expires while its request waits can be rejudged, so a
  submission may be queued twice (`NeverQueuedTwice`, against
  `docs/adr/0019-rejudge-submissions.md:27`); its first result is discarded.
- Teams. A removal decides by the clock it read before it waits, so one that
  overlaps the start may take off a member who has just submitted. The deletion of
  an account locks the teams it finds (`accounts/store.go:152`), but a move of that
  account into a team (`participation.go:268`) takes its row only later: when both
  overlap, the deletion takes the account out of a team it never looked at, whose
  code is not renewed and which may stay empty, against the comment at
  `accounts/store.go:138`. `stranded` holds the codes of such teams; TeamsFit and
  SecretsGuarded except them. A submission
  read before the registration locks no row, so a run made as an individual may
  count for a team that is entered later (`IndividualsNeverCountForTeams`; the
  `held` of a run tells them apart). A registration open while its account is
  deleted stays registered afterwards.
- Staff. A request authenticated before the deletion of its account may make the
  deleted account owner or heir (`Late`); the runs exclude it.
- Problems. A save that crosses its contest's end skips the content rules
  (`slips`). A request to publish or reserve is judged on the draft that is read
  before the transaction (`httpapi/problems.go:160-168`), while the transaction
  compares the row with the version that the client names (`publication.go:71`,
  `schedule.go`), and nothing compares these two. A request that names the version
  a concurrent save is about to write therefore makes that save's draft public,
  finished or not. `unjudged` holds such problems until their next save or their
  next judged request; `ContentSettled` excepts them, and the run reaches an unfinished
  public draft in this way. A client that names the version it was shown does not
  meet it, since versions only grow.
- Images. `images/store.go` Delete locks drafts of problems, posts, contests and
  contest problems, but not drafts of contests.
- Local worker. A code run of a worker that crashed never ends, as only the
  bridge calls ExpireCodeRuns, for isolate runtimes. A local result that
  FinishAttempt refuses leaves its row RUNNING until a later claim expires it.
- Quotas. A registration that waits across the deletion of an expired row is
  charged with its time before the wait, so a slot may come back up to the
  statement timeout early, hence `Every - Timeout` in `ChargesWithin`; the
  comment at `database/registration_quota.go:24` says an expired row means the
  same as none.
- Files. Generated files whose generation is not recorded within a day are
  removed, and the generation then fails.
- Pool. Two invocations that overlap may shorten a hold: the older one tags its
  earlier time last. The next minute repairs it within the grace period; a test
  of "holds are never shortened" sees one plan only. The 48 h horizon may admit
  or refuse a running window anew. A host that just decided to stop comes back
  with a later minute only.
- Switch. A controller that fails during the sleep and is resumed at once skips
  the rest of the sleep, and one that fails between resuming dispatch after a
  timeout and saving it (`set_dispatch` writes the configuration first, then the
  checkpoint) takes the pause for granted on its next start: `switch` asks
  whether dispatch is paused only after it has changed the bridge's digest. In
  both cases a job of the old environment may reach the new host, which returns
  it and stops. `hurried` marks these behaviours and `OneEnvironment` excepts
  them. "Never executed, so it can move" (`dispatch.go:191`) is not quite so
  either: a row whose commit failed after its send may have been executed by the
  old environment with its result still under way, and is then sent again; its
  verdict is the earlier one (`resent`).

## 6. Not modelled

- The sandbox, interactive judging and compilers: processes, pipes and cgroups.
- The HTTP layer, authentication, passkeys and sessions: parsing and checks
  around the stores. The Lambda adapter, web and command-line clients,
  provisioning, and scripts.
- Posts, profiles, tags, notifications and images: single-statement reads and
  writes of one owner's rows, without interaction of actors.
- Texts, listings, pages and search of problems, contests and submissions.
- Preparing hosts, their verification, the publication of languages, and the
  stop-the-world rollout (`prepare`, `finish` in `rollout.py`): sequences of
  commands over SSM under one operator's file lock.
- The maintenance hold and unreadable tags of hosts, which only keep a host from
  stopping; `HostPool` lets a host not stop at any time.
- Database migrations: run once under an advisory lock; their SQL is the source
  of the modules' rows and constraints.
