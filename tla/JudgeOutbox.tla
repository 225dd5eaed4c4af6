----------------------------- MODULE JudgeOutbox -----------------------------
(***************************************************************************)
(* The path of a judgement through ShareOJ.                                *)
(*                                                                         *)
(* A row of the database tables "submissions" and "code_runs" is the       *)
(* durable outbox.  Concurrent invocations of the judge-bridge Lambda take *)
(* rows under row locks and send them to the SQS request queue; judge      *)
(* hosts take requests, judge them and answer on the SQS result queue;     *)
(* bridge invocations apply the answers to the rows.  SQS delivers at      *)
(* least once and in any order, every party may stop at any step, and a    *)
(* COMMIT may fail after its message has left.                             *)
(*                                                                         *)
(* A statement of the database is one step and sees committed rows only    *)
(* (READ COMMITTED).  What a bridge has written but not committed lives in *)
(* its pc.  A row is locked while some bridge holds it (bridgeRow).        *)
(***************************************************************************)
EXTENDS Naturals, FiniteSets

CONSTANTS
  Submissions,     \* rows of "submissions" that are solutions (kept for good)
  AuthoringRuns,   \* rows of "submissions" that generate or validate tests
  CodeRuns,        \* rows of "code_runs"
  Bridges,         \* concurrent invocations of the judge-bridge Lambda
  Hosts,           \* judge hosts, one request at a time each
  Verdicts,        \* what a host may answer
  JE,              \* the verdict "judge error"
  NoVerdict,       \* result IS NULL
  NoItem,          \* a bridge that holds no row
  NoJob,           \* a host that holds no request
  SpareInFlight,   \* const spareInFlight
  Cases,           \* number of test cases of every job
  MaxReceiveCount, \* redrive policy of the request queue
  MaxAttempt,      \* bound: attempts of one row, the first one included
  MaxFailedCommits,\* bound: commits of one attempt that fail after its send
  MaxUpdates       \* bound: progress messages on the result queue at a time

Items == Submissions \cup AuthoringRuns \cup CodeRuns

VARIABLES
  \* Columns of the row, committed values.
  status,       \* "NONE" before the INSERT and "DELETED" after the DELETE
  attempt,      \* judge_attempt: a fresh number for a fresh uuid, 0 for none
  dispatched,   \* dispatched_at IS NOT NULL
  progress,     \* the progress column
  result,       \* the verdict in the result column
  since,        \* rank of COALESCE(rejudged_at, created_at)
  clock,        \* the next rank
  \* Timers that compare clock_timestamp() with a column.
  late,         \* rows whose expiry deadline has passed
  urgent,       \* authoring runs that have waited five minutes
  \* judge-bridge invocations.
  pc,           \* where the invocation stands
  bridgeRow,    \* the row it has locked
  bridgeTook,   \* the attempt it read with the row
  \* SQS and the judge hosts.
  requests,     \* visible request messages
  job,          \* the request a host holds
  reported,     \* the last progress the host reported for it
  updates,      \* progress messages on the result queue
  answers,      \* results on the result queue
  deadLetters,  \* <<row, attempt>> of messages that SQS gave up
  \* History of the current attempt of a row, and of every execution.
  sends,        \* times the current attempt was sent
  failedCommits,\* times its commit failed after the send
  executed      \* <<row, attempt, verdict>> of every finished execution

rowVars    == <<status, attempt, dispatched, progress, result, since, clock>>
timerVars  == <<late, urgent>>
bridgeVars == <<pc, bridgeRow, bridgeTook>>
queueVars  == <<requests, job, reported, updates, answers, deadLetters>>
history    == <<sends, failedCommits, executed>>
vars       == <<rowVars, timerVars, bridgeVars, queueVars, history>>

Attempts == 1..MaxAttempt

NoProgress == [phase |-> "NONE", completed |-> 0]
Preparing  == [phase |-> "PREPARING", completed |-> 0]
Judging(n) == [phase |-> "JUDGING", completed |-> n]
Reports    == {Preparing} \cup {Judging(n) : n \in 0..Cases}

\* The order in which a host reports: PREPARING, then 0..Cases finished cases.
Rank(p) == CASE p.phase = "NONE" -> 0
             [] p.phase = "PREPARING" -> 1
             [] OTHER -> p.completed + 2

\* A request: the pointer to the job of one attempt.  "copy" tells apart the
\* messages of repeated sends, "receives" is ApproximateReceiveCount.
Request == [item : Items, attempt : Attempts, copy : 1..(MaxFailedCommits + 1),
            receives : 0..MaxReceiveCount]

ASSUME TablesAssumption ==
  /\ Submissions \cap AuthoringRuns = {}
  /\ Submissions \cap CodeRuns = {}
  /\ AuthoringRuns \cap CodeRuns = {}
  /\ NoItem \notin Items
  /\ NoVerdict \notin Verdicts \cup {JE}
  /\ NoJob \notin Request

ASSUME BoundsAssumption ==
  /\ SpareInFlight \in Nat
  /\ Cases \in Nat
  /\ MaxReceiveCount \in Nat \ {0}
  /\ MaxAttempt \in Nat \ {0}
  /\ MaxFailedCommits \in Nat
  /\ MaxUpdates \in Nat

\* There is at least one invocation, and only finitely many of them and of rows.
ASSUME FiniteAssumption == IsFiniteSet(Items) /\ IsFiniteSet(Bridges) /\ Bridges # {}

\* The two kinds of message on the result queue.
ProgressMessage == [item : Items, attempt : Attempts, progress : Reports]
ResultMessage   == [item : Items, attempt : Attempts, verdict : Verdicts]

-----------------------------------------------------------------------------
(* Rows as the SQL conditions see them.                                    *)

Pending(i)    == status[i] \in {"QUEUED", "RUNNING"}
Rejudged(i)   == attempt[i] > 1
Locked(i)     == \E b \in Bridges : bridgeRow[b] = i
Waiting_resend(i) == Pending(i)                    \* mutation: dispatched_at is not checked
Waiting(i)    == Pending(i) /\ ~dispatched[i]
Free_unlocked(S)  == {i \in S : Waiting(i)}         \* mutation: no row locks
Free(S)       == {i \in S : Waiting(i) /\ ~Locked(i)}   \* SKIP LOCKED
Overdue_unsent == {i \in late : Waiting(i)}        \* mutation: sent rows do not expire
Overdue       == {i \in late : Pending(i)}
InFlight_all  == Cardinality({i \in Items : dispatched[i]})   \* mutation: counts finished rows
InFlight      == Cardinality({i \in Items : Pending(i) /\ dispatched[i]})

\* ORDER BY created_at (or COALESCE(rejudged_at, created_at)) LIMIT 1.
Oldest(S) == {i \in S : \A j \in S : since[i] <= since[j]}

NewSubmissions == {i \in Submissions : ~Rejudged(i)}

\* Steps 3 to 5 of dispatchOne: the rows it may take next.
SpareChoice ==
  LET waited == Free(urgent)
      runs   == Free(CodeRuns)
      other  == Free(AuthoringRuns)
  IN  IF waited # {} THEN Oldest(waited)
      ELSE IF runs # {} THEN Oldest(runs)
      ELSE IF other # {} THEN Oldest(other)
      ELSE Oldest(Free(Submissions))

Init ==
  /\ status       = [i \in Items |-> "NONE"]
  /\ attempt      = [i \in Items |-> 0]
  /\ dispatched   = [i \in Items |-> FALSE]
  /\ progress     = [i \in Items |-> NoProgress]
  /\ result       = [i \in Items |-> NoVerdict]
  /\ since        = [i \in Items |-> 0]
  /\ clock        = 1
  /\ late         = {}
  /\ urgent       = {}
  /\ pc           = [b \in Bridges |-> "idle"]
  /\ bridgeRow    = [b \in Bridges |-> NoItem]
  /\ bridgeTook   = [b \in Bridges |-> 0]
  /\ requests     = {}
  /\ job          = [h \in Hosts |-> NoJob]
  /\ reported     = [h \in Hosts |-> NoProgress]
  /\ updates      = {}
  /\ answers      = {}
  /\ deadLetters  = {}
  /\ sends        = [i \in Items |-> 0]
  /\ failedCommits = [i \in Items |-> 0]
  /\ executed     = {}

-----------------------------------------------------------------------------
(* The API.                                                                *)

\* The INSERT is the outbox entry.  Whether the account may submit is decided
\* before it.  The wake-up of the bridge that follows is optional; see Dispatch.
Insert(i) ==
  /\ status[i] = "NONE"
  /\ status'  = [status EXCEPT ![i] = "QUEUED"]
  /\ attempt' = [attempt EXCEPT ![i] = 1]
  /\ since'   = [since EXCEPT ![i] = clock]
  /\ clock'   = clock + 1
  /\ UNCHANGED <<dispatched, progress, result, timerVars, bridgeVars, queueVars, history>>

CreateRun(i)        == i \in Submissions /\ Insert(i)
CreateGeneration(i) == i \in AuthoringRuns /\ Insert(i)
CreateCodeRun(i)    == i \in CodeRuns /\ Insert(i)

\* Mutation of Rejudge: rows that are being judged are not skipped.
Rejudge_running(T) ==
  /\ T # {}
  /\ \A i \in T : status[i] \in {"RUNNING", "QUEUED", "DONE"} /\ attempt[i] < MaxAttempt
  /\ status'     = [i \in Items |-> IF i \in T THEN "QUEUED" ELSE status[i]]
  /\ attempt'    = [i \in Items |-> IF i \in T THEN attempt[i] + 1 ELSE attempt[i]]
  /\ UNCHANGED <<dispatched, progress, result, since, clock, timerVars, bridgeVars, queueVars, history>>

\* Rejudge: an explicit list or every finished solution of the problem goes
\* back to the queue under a fresh attempt.  Unfinished targets are skipped.
Rejudge(T) ==
  /\ T # {}
  /\ \A i \in T : status[i] = "DONE" /\ attempt[i] < MaxAttempt
  /\ status'     = [i \in Items |-> IF i \in T THEN "QUEUED" ELSE status[i]]
  /\ attempt'    = [i \in Items |-> IF i \in T THEN attempt[i] + 1 ELSE attempt[i]]
  /\ dispatched' = [i \in Items |-> dispatched[i] /\ i \notin T]
  /\ progress'   = [i \in Items |-> IF i \in T THEN NoProgress ELSE progress[i]]
  /\ result'     = [i \in Items |-> IF i \in T THEN NoVerdict ELSE result[i]]
  /\ since'      = [i \in Items |-> IF i \in T THEN clock ELSE since[i]]
  /\ clock'      = clock + 1
  /\ late'       = late \ T
  /\ sends'         = [i \in Items |-> IF i \in T THEN 0 ELSE sends[i]]
  /\ failedCommits' = [i \in Items |-> IF i \in T THEN 0 ELSE failedCommits[i]]
  /\ UNCHANGED <<urgent, bridgeVars, queueVars, executed>>

-----------------------------------------------------------------------------
(* Time.                                                                   *)

\* The deadline of a row passes: 6 hours for a row of submissions; for a code
\* run 10 minutes while unsent, 1 hour once sent (Commit starts the second).
DeadlinePasses(i) ==
  /\ Pending(i)
  /\ i \notin late
  /\ late' = late \cup {i}
  /\ UNCHANGED <<rowVars, urgent, bridgeVars, queueVars, history>>

\* An authoring run has waited five minutes since its creation.
FiveMinutesPass(i) ==
  /\ i \in AuthoringRuns /\ Pending(i)
  /\ \A j \in AuthoringRuns : Pending(j) /\ since[j] < since[i] => j \in urgent
  /\ i \notin urgent
  /\ urgent' = urgent \cup {i}
  /\ UNCHANGED <<rowVars, late, bridgeVars, queueVars, history>>

-----------------------------------------------------------------------------
(* judge-bridge: dispatch.                                                 *)

\* dispatch: a scheduled tick or a wake-up by the API.  The UPDATE of expired
\* submissions waits for the rows that other invocations hold.
Dispatch(b) ==
  LET expired == Overdue \ CodeRuns
  IN
  /\ pc[b] = "idle"
  /\ \A i \in expired : ~Locked(i)
  /\ status' = [i \in Items |-> IF i \in expired THEN "DONE" ELSE status[i]]
  /\ result' = [i \in Items |-> IF i \in expired THEN JE ELSE result[i]]
  /\ pc' = [pc EXCEPT ![b] = "sweep"]
  /\ UNCHANGED <<attempt, dispatched, progress, since, clock, timerVars, bridgeRow, bridgeTook,
                 queueVars, history>>

\* ExpireCodeRuns: unsent and sent overdue code runs end, and code runs are
\* deleted a day after their creation; by then they have ended.
ExpireCodeRuns(b) ==
  LET expired == Overdue \cap CodeRuns
  IN
  /\ pc[b] = "sweep"
  /\ \A i \in expired : ~Locked(i)
  /\ \E old \in SUBSET {i \in CodeRuns : status[i] = "DONE"} :
       status' = [i \in Items |-> IF i \in old THEN "DELETED"
                                  ELSE IF i \in expired THEN "DONE" ELSE status[i]]
  /\ result' = [i \in Items |-> IF i \in expired THEN JE ELSE result[i]]
  /\ pc' = [pc EXCEPT ![b] = "select"]
  /\ UNCHANGED <<attempt, dispatched, progress, since, clock, timerVars, bridgeRow, bridgeTook,
                 queueVars, history>>

\* dispatchOne, step 1: the oldest new submission that nobody else holds.
TakeNew(b) ==
  /\ pc[b] = "select"
  /\ \E i \in Oldest(Free(NewSubmissions)) :
       /\ bridgeRow'  = [bridgeRow EXCEPT ![b] = i]
       /\ bridgeTook' = [bridgeTook EXCEPT ![b] = attempt[i]]
  /\ pc' = [pc EXCEPT ![b] = "send"]
  /\ UNCHANGED <<rowVars, timerVars, queueVars, history>>

\* Mutation of CountInFlight: the count is taken but not compared.
CountInFlight_unlimited(b) ==
  /\ pc[b] = "select"
  /\ Free(NewSubmissions) = {}
  /\ pc' = [pc EXCEPT ![b] = "spare"]
  /\ UNCHANGED <<rowVars, timerVars, bridgeRow, bridgeTook, queueVars, history>>

\* dispatchOne, step 2: no new submission, so count what is in SQS or running.
\* The count sees committed rows only.
CountInFlight(b) ==
  /\ pc[b] = "select"
  /\ Free(NewSubmissions) = {}
  /\ pc' = [pc EXCEPT ![b] = IF InFlight >= SpareInFlight THEN "idle" ELSE "spare"]
  /\ UNCHANGED <<rowVars, timerVars, bridgeRow, bridgeTook, queueVars, history>>

\* dispatchOne, steps 3 to 5, or the end of the loop when nothing waits.
TakeSpare(b) ==
  /\ pc[b] = "spare"
  /\ IF SpareChoice = {}
     THEN /\ pc' = [pc EXCEPT ![b] = "idle"]
          /\ UNCHANGED <<bridgeRow, bridgeTook>>
     ELSE \E i \in SpareChoice :
            /\ bridgeRow'  = [bridgeRow EXCEPT ![b] = i]
            /\ bridgeTook' = [bridgeTook EXCEPT ![b] = attempt[i]]
            /\ pc' = [pc EXCEPT ![b] = "send"]
  /\ UNCHANGED <<rowVars, timerVars, queueVars, history>>

\* sendSubmission, sendCodeRun and upload: the job goes to S3 and its pointer
\* to the request queue.  dispatched_at is written but not committed.
Send(b) ==
  /\ pc[b] = "send"
  /\ LET i == bridgeRow[b]
     IN  /\ sends' = [sends EXCEPT ![i] = @ + 1]
         /\ requests' = requests \cup
              {[item |-> i, attempt |-> bridgeTook[b], copy |-> sends[i] + 1, receives |-> 0]}
  /\ pc' = [pc EXCEPT ![b] = "sent"]
  /\ UNCHANGED <<rowVars, timerVars, bridgeRow, bridgeTook, job, reported, updates, answers, deadLetters,
                 failedCommits, executed>>

\* finishAsJE, and its counterpart in sendCodeRun: a job that no retry can
\* send (unreadable, test files gone, foreign runtime) ends the row instead.
Refuse(b) ==
  /\ pc[b] = "send"
  /\ pc' = [pc EXCEPT ![b] = "refused"]
  /\ UNCHANGED <<rowVars, timerVars, bridgeRow, bridgeTook, queueVars, history>>

\* The COMMIT in send succeeds; the loop goes on.
Commit(b) ==
  LET i == bridgeRow[b]
  IN
  /\ pc[b] \in {"sent", "refused"}
  /\ IF pc[b] = "sent"
     THEN /\ dispatched' = [dispatched EXCEPT ![i] = TRUE]
          /\ late' = IF i \in CodeRuns THEN late \ {i} ELSE late
          /\ UNCHANGED <<status, result>>
     ELSE /\ status' = [status EXCEPT ![i] = "DONE"]
          /\ result' = [result EXCEPT ![i] = JE]
          /\ UNCHANGED <<dispatched, late>>
  /\ pc' = [pc EXCEPT ![b] = "select"]
  /\ bridgeRow'  = [bridgeRow EXCEPT ![b] = NoItem]
  /\ bridgeTook' = [bridgeTook EXCEPT ![b] = 0]
  /\ UNCHANGED <<attempt, progress, since, clock, urgent, queueVars, history>>

\* An error before the message leaves, a failed COMMIT, the timeout or a crash
\* of the invocation: everything it wrote is rolled back, its lock is released.
\* A loop that has sent 20 rows ends the same way.
GiveUp(b) ==
  /\ pc[b] # "idle"
  /\ IF pc[b] = "sent"
     THEN /\ failedCommits[bridgeRow[b]] < MaxFailedCommits
          /\ failedCommits' = [failedCommits EXCEPT ![bridgeRow[b]] = @ + 1]
     ELSE UNCHANGED failedCommits
  /\ pc' = [pc EXCEPT ![b] = "idle"]
  /\ bridgeRow'  = [bridgeRow EXCEPT ![b] = NoItem]
  /\ bridgeTook' = [bridgeTook EXCEPT ![b] = 0]
  /\ UNCHANGED <<rowVars, timerVars, queueVars, sends, executed>>

-----------------------------------------------------------------------------
(* The judge hosts (judge/runner/worker.py).                               *)

\* Mutation of Receive: the request queue has no redrive policy.
Receive_unlimited(h) ==
  /\ job[h] = NoJob
  /\ \E m \in requests :
       /\ job' = [job EXCEPT ![h] = [m EXCEPT !.receives = @ + 1]]
       /\ requests' = {[m EXCEPT !.receives = @ + 1]} \cup (requests \ {m})
  /\ reported' = [reported EXCEPT ![h] = NoProgress]
  /\ UNCHANGED <<rowVars, timerVars, bridgeVars, updates, answers, deadLetters, history>>

\* receive_message.  SQS may keep a visible copy of what it hands out.
Receive(h) ==
  /\ job[h] = NoJob
  /\ \E m \in requests, kept \in BOOLEAN :
       LET taken == [m EXCEPT !.receives = @ + 1]
       IN  /\ m.receives < MaxReceiveCount
           /\ kept => taken.receives < MaxReceiveCount
           /\ job' = [job EXCEPT ![h] = taken]
           /\ requests' = (requests \ {m}) \cup (IF kept THEN {taken} ELSE {})
  /\ reported' = [reported EXCEPT ![h] = NoProgress]
  /\ UNCHANGED <<rowVars, timerVars, bridgeVars, updates, answers, deadLetters, history>>

\* progress_reporter: optional and throttled, so a report may skip some steps.
Report(h) ==
  /\ job[h] # NoJob
  /\ job[h].item \notin CodeRuns
  /\ Cardinality(updates) < MaxUpdates
  /\ \E p \in Reports :
       /\ Rank(p) > Rank(reported[h])
       /\ reported' = [reported EXCEPT ![h] = p]
       /\ updates' = updates \cup
            {[item |-> job[h].item, attempt |-> job[h].attempt, progress |-> p]}
  /\ UNCHANGED <<rowVars, timerVars, bridgeVars, requests, job, answers, deadLetters, history>>

\* SQS shows a request again that was not deleted, or, when it was received
\* too often, moves it to the dead-letter queue.
Return(m) ==
  IF m.receives < MaxReceiveCount
  THEN requests' = requests \cup {m} /\ UNCHANGED deadLetters
  ELSE deadLetters' = deadLetters \cup {<<m.item, m.attempt>>} /\ UNCHANGED requests

\* process_message up to its end: the result is sent, then the request is
\* deleted.  A host that stops in between leaves the request to SQS.
Finish(h) ==
  LET m == job[h]
  IN
  /\ m # NoJob
  /\ \E v \in Verdicts :
       /\ executed' = executed \cup {<<m.item, m.attempt, v>>}
       /\ answers' = answers \cup
            {[item |-> m.item, attempt |-> m.attempt, verdict |-> v]}
  /\ \/ UNCHANGED <<requests, deadLetters>>
     \/ Return(m)
  /\ job' = [job EXCEPT ![h] = NoJob]
  /\ reported' = [reported EXCEPT ![h] = NoProgress]
  /\ UNCHANGED <<rowVars, timerVars, bridgeVars, updates, sends, failedCommits>>

\* Mutation of Abandon: the request was deleted when it was received.
Abandon_deleted(h) ==
  /\ job[h] # NoJob
  /\ job' = [job EXCEPT ![h] = NoJob]
  /\ reported' = [reported EXCEPT ![h] = NoProgress]
  /\ UNCHANGED <<rowVars, timerVars, bridgeVars, requests, updates, answers, deadLetters, history>>

\* SIGTERM, a crash, a failed fetch or a failed send before the result left.
Abandon(h) ==
  /\ job[h] # NoJob
  /\ Return(job[h])
  /\ job' = [job EXCEPT ![h] = NoJob]
  /\ reported' = [reported EXCEPT ![h] = NoProgress]
  /\ UNCHANGED <<rowVars, timerVars, bridgeVars, updates, answers, history>>

-----------------------------------------------------------------------------
(* judge-bridge: results.                                                  *)

\* The message is deleted, or it is delivered again because the invocation
\* ended before SQS learned of its success.
Consume(queue, m) == {queue, queue \ {m}}

Current_anyAttempt(m) == Pending(m.item)             \* mutation: stale attempts count
Current_anyStatus(m)  == attempt[m.item] = m.attempt \* mutation: DONE is not checked
Current(m) == Pending(m.item) /\ attempt[m.item] = m.attempt

Advances_always(old, new) == TRUE   \* mutation: messages are applied as they come

\* The WHERE clause of the progress UPDATE.
Advances(old, new) ==
  \/ old = NoProgress
  \/ /\ new.phase = "JUDGING"
     /\ old.phase = "PREPARING" \/ old.completed < new.completed

ApplyProgress(b, m) ==
  /\ pc[b] = "idle"
  /\ m \in updates
  /\ ~Locked(m.item)
  /\ IF Current(m) /\ Advances(progress[m.item], m.progress)
     THEN /\ status' = [status EXCEPT ![m.item] = "RUNNING"]
          /\ progress' = [progress EXCEPT ![m.item] = m.progress]
     ELSE UNCHANGED <<status, progress>>
  /\ updates' \in Consume(updates, m)
  /\ UNCHANGED <<attempt, dispatched, result, since, clock, timerVars, bridgeVars, requests, job,
                 reported, answers, deadLetters, history>>

\* FinishAttempt: the first result of the current attempt ends the submission.
\* A result without the scores that the job asks for is stored as a JE.
FinishAttempt(m) ==
  /\ status' = [status EXCEPT ![m.item] = "DONE"]
  /\ \E v \in {m.verdict, JE} : result' = [result EXCEPT ![m.item] = v]
  /\ progress' = [progress EXCEPT ![m.item] = NoProgress]

FinishCodeRun(m) ==
  /\ status' = [status EXCEPT ![m.item] = "DONE"]
  /\ result' = [result EXCEPT ![m.item] = m.verdict]
  /\ UNCHANGED progress

\* results, for one result.  A repeated or stale one changes no row, but every
\* handled result may have freed capacity: the invocation goes on to send.
ApplyResult(b, m) ==
  /\ pc[b] = "idle"
  /\ m \in answers
  /\ ~Locked(m.item)
  /\ IF Current(m)
     THEN IF m.item \in CodeRuns THEN FinishCodeRun(m) ELSE FinishAttempt(m)
     ELSE UNCHANGED <<status, result, progress>>
  /\ answers' \in Consume(answers, m)
  /\ pc' = [pc EXCEPT ![b] = "select"]
  /\ UNCHANGED <<attempt, dispatched, since, clock, timerVars, bridgeRow, bridgeTook, requests, job,
                 reported, updates, deadLetters, history>>

\* A message that could not be applied three times goes to the dead letters.
LoseUpdate(m) ==
  /\ updates' = updates \ {m}
  /\ UNCHANGED <<rowVars, timerVars, bridgeVars, requests, job, reported, answers, deadLetters, history>>

LoseAnswer(m) ==
  /\ answers' = answers \ {m}
  /\ deadLetters' = deadLetters \cup {<<m.item, m.attempt>>}
  /\ UNCHANGED <<rowVars, timerVars, bridgeVars, requests, job, reported, updates, history>>

-----------------------------------------------------------------------------
Select(b)     == TakeNew(b) \/ CountInFlight(b) \/ TakeSpare(b)
BridgeStep(b) == Select(b) \/ Send(b) \/ Refuse(b) \/ Commit(b)

Api == (\E i \in Items : CreateRun(i) \/ CreateGeneration(i) \/ CreateCodeRun(i))
       \/ (\E T \in SUBSET Submissions : Rejudge(T))

Judge(h) == Receive(h) \/ Report(h) \/ Finish(h)

Apply(b) == \/ \E m \in updates : ApplyProgress(b, m)
            \/ \E m \in answers : ApplyResult(b, m)

\* What may go wrong: timers, stopped invocations, stopped hosts, lost answers.
Timers   == \E i \in Items : DeadlinePasses(i) \/ FiveMinutesPass(i)
Failures == \/ \E b \in Bridges : GiveUp(b)
            \/ \E h \in Hosts : Abandon(h)
            \/ \E m \in updates : LoseUpdate(m)
            \/ \E m \in answers : LoseAnswer(m)

Next == \/ Api \/ Timers \/ Failures
        \/ \E b \in Bridges : Dispatch(b) \/ ExpireCodeRuns(b) \/ BridgeStep(b) \/ Apply(b)
        \/ \E h \in Hosts : Judge(h)

Spec == Init /\ [][Next]_vars

-----------------------------------------------------------------------------
(* Fairness.  The scheduler ticks every minute, its event is not starved by *)
(* result deliveries, and not every tick fails before its statements run;   *)
(* an invocation runs on until it ends or gives up, and time passes.        *)
(* Nothing is assumed of hosts, queues or commits.                          *)
FairSpec ==
  /\ Spec
  /\ SF_vars(\E b \in Bridges : Dispatch(b))
  /\ SF_vars(\E b \in Bridges : ExpireCodeRuns(b))
  /\ \A b \in Bridges : WF_vars(BridgeStep(b))
  /\ \A i \in Items : WF_vars(DeadlinePasses(i))

\* The environment in which nothing is given up: invocations and hosts may
\* stop and commits may fail, but every job can be sent, no message is
\* dead-lettered and no deadline passes.
ReliableNext ==
  \/ Api
  \/ \E i \in Items : FiveMinutesPass(i)
  \/ \E b \in Bridges : \/ GiveUp(b) \/ Dispatch(b) \/ ExpireCodeRuns(b)
                         \/ Select(b) \/ Send(b) \/ Commit(b) \/ Apply(b)
  \/ \E h \in Hosts : (Judge(h) \/ Abandon(h)) /\ UNCHANGED deadLetters

\* Failures do not repeat for ever: a step that an invocation or a host is
\* about to take again and again succeeds once, and so does each delivery.
ReliableSpec ==
  /\ Init /\ [][ReliableNext]_vars
  /\ SF_vars(\E b \in Bridges : Dispatch(b))
  /\ SF_vars(\E b \in Bridges : ExpireCodeRuns(b))
  /\ \A b \in Bridges : /\ SF_vars(TakeNew(b) \/ CountInFlight(b))
                        /\ SF_vars(TakeSpare(b))
                        /\ SF_vars(Send(b))
                        /\ SF_vars(Commit(b))
  /\ WF_vars(\E h \in Hosts : Receive(h))
  /\ \A h \in Hosts : SF_vars(Finish(h) /\ UNCHANGED deadLetters)
  /\ \A m \in {n \in ResultMessage : n.attempt = 1 \/ n.item \in Submissions} :
       SF_vars(\E b \in Bridges : ApplyResult(b, m))

-----------------------------------------------------------------------------
(* Properties.                                                             *)

\* The values every variable ranges over.
TypeOK ==
  /\ status \in [Items -> {"NONE", "QUEUED", "RUNNING", "DONE", "DELETED"}]
  /\ attempt \in [Items -> 0..MaxAttempt]
  /\ dispatched \in [Items -> BOOLEAN]
  /\ progress \in [Items -> Reports \cup {NoProgress}]
  /\ result \in [Items -> Verdicts \cup {JE, NoVerdict}]
  /\ since \in [Items -> Nat] /\ clock \in Nat
  /\ late \subseteq Items /\ urgent \subseteq AuthoringRuns
  /\ pc \in [Bridges -> {"idle", "sweep", "select", "spare", "send", "sent", "refused"}]
  /\ bridgeRow \in [Bridges -> Items \cup {NoItem}]
  /\ bridgeTook \in [Bridges -> 0..MaxAttempt]
  /\ requests \subseteq Request
  /\ job \in [Hosts -> Request \cup {NoJob}]
  /\ reported \in [Hosts -> Reports \cup {NoProgress}]
  /\ updates \subseteq ProgressMessage
  /\ answers \subseteq ResultMessage
  /\ deadLetters \subseteq Items \X Attempts
  /\ sends \in [Items -> Nat] /\ failedCommits \in [Items -> 0..MaxFailedCommits]
  /\ executed \subseteq Items \X Attempts \X Verdicts

\* A row that an invocation has read FOR UPDATE stays as it was read until the
\* invocation is done with it, although results, expiry, rejudges and other
\* invocations run meanwhile: it is unsent and unfinished, its attempt is the
\* one that goes into the message, and nobody else holds it.
RowStaysAsRead ==
  \A b \in Bridges : bridgeRow[b] # NoItem =>
    /\ Waiting(bridgeRow[b])
    /\ bridgeTook[b] = attempt[bridgeRow[b]]
    /\ \A c \in Bridges \ {b} : bridgeRow[c] # bridgeRow[b]

\* The verdict of a finished row was produced by executing the very attempt the
\* row is at, or it is a judge error; never that of an earlier attempt.
\* An unfinished row shows no verdict.
ResultOfThisAttempt ==
  \A i \in Items :
    /\ status[i] = "DONE" => result[i] = JE \/ <<i, attempt[i], result[i]>> \in executed
    /\ Pending(i) => result[i] = NoVerdict

\* Where a sent attempt may be.
Carried(i, a) ==
  \/ \E m \in requests : m.item = i /\ m.attempt = a
  \/ \E h \in Hosts : job[h] # NoJob /\ job[h].item = i /\ job[h].attempt = a
  \/ \E m \in answers : m.item = i /\ m.attempt = a
  \/ <<i, a>> \in deadLetters

\* A row marked as dispatched and not finished is in the request queue, on a
\* host, in the result queue, or SQS gave it up: no stopped invocation, failed
\* commit or stopped host makes it vanish.
NoSilentLoss ==
  \A i \in Items : Pending(i) /\ dispatched[i] => Carried(i, attempt[i])

\* An attempt is sent again only because a commit failed after its send
\* ("If commit fails after SendMessage, the same stable attempt is sent
\* again"): concurrent invocations never send the same row twice.
OneSendPerCommit ==
  \A i \in Items :
    sends[i] = failedCommits[i]
               + (IF dispatched[i] \/ \E b \in Bridges : bridgeRow[b] = i /\ pc[b] = "sent"
                  THEN 1 ELSE 0)

\* Concurrent invocations count each other's work too low, but by no more than
\* one row each: the low-priority rows marked as dispatched stay below
\* spareInFlight plus the number of invocations.
SpareBound ==
  Cardinality({i \in Items \ NewSubmissions : Pending(i) /\ dispatched[i]})
    < SpareInFlight + Cardinality(Bridges)

\* "A final result always wins": a finished row keeps its verdict until a
\* rejudge starts a fresh attempt, and only solutions are rejudged.
FinalIsFinal ==
  [][\A i \in Items : status[i] = "DONE" =>
       \/ status'[i] \in {"DONE", "DELETED"} /\ result'[i] = result[i] /\ attempt'[i] = attempt[i]
       \/ i \in Submissions /\ status'[i] = "QUEUED" /\ attempt'[i] = attempt[i] + 1]_vars

\* Reordered, repeated and delayed progress never moves an attempt back, from
\* RUNNING to QUEUED or to an earlier stage or fewer finished cases.
ProgressMovesForward ==
  [][\A i \in Items : Pending(i) /\ Pending(i)' /\ attempt'[i] = attempt[i] =>
       /\ status[i] = "RUNNING" => status'[i] = "RUNNING"
       /\ Rank(progress'[i]) >= Rank(progress[i])]_vars

\* Whatever hosts, queues and commits do, every row ends.
EveryRowEnds == \A i \in Items : Pending(i) ~> ~Pending(i)

\* While nothing is given up, every row is judged by a host without any help
\* of its deadline: neither the count of spareInFlight nor the priorities
\* starve a low-priority row.
EveryRowIsJudged ==
  \A i \in Items : Pending(i) ~>
    ~Pending(i) /\ \E v \in Verdicts : <<i, attempt[i], v>> \in executed

\* The outbox, the queues and the hosts together implement JudgeLife.
Life == INSTANCE JudgeLife WITH
  Solutions <- Submissions, Authoring <- AuthoringRuns, Disposable <- CodeRuns,
  phase <- [i \in Items |-> CASE status[i] = "NONE" -> "absent"
                              [] status[i] = "DONE" -> "decided"
                              [] status[i] = "DELETED" -> "gone"
                              [] OTHER -> "open"],
  try <- attempt, outcome <- result, runs <- executed

\* Every behaviour of the outbox is one that the abstract judgement allows.
ImplementsLife == Life!Spec

\* dispatch.go: "a new submission queues behind at most spareInFlight
\* judgements" that use spare capacity only.
LowPriorityAhead ==
  {<<m.item, m.attempt>> : m \in requests \cup {job[h] : h \in Hosts \ {g \in Hosts : job[g] = NoJob}}}
     \ {<<i, 1>> : i \in Submissions}
NewWaitsBehindAtMostSpare == Cardinality(LowPriorityAhead) <= SpareInFlight

\* ADR 0019: a submission being judged is skipped by a rejudge, so "the same
\* submission never enters the queue twice".
NeverQueuedTwice ==
  \A m \in requests, n \in requests : m.item = n.item => m = n

=============================================================================
