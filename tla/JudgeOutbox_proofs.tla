-------------------------- MODULE JudgeOutbox_proofs --------------------------
(***************************************************************************)
(* Theorems about JudgeOutbox, for every number of rows, invocations,      *)
(* hosts and attempts.  IInv is the inductive invariant they rest on.      *)
(***************************************************************************)
EXTENDS JudgeOutbox, FiniteSetTheorems, TLAPS

\* A row has an attempt exactly from its INSERT on, and before it no verdict
\* and no dispatched_at.
Issued ==
  \A i \in Items : /\ status[i] = "NONE" <=> attempt[i] = 0
                   /\ status[i] = "NONE" => result[i] = NoVerdict /\ ~dispatched[i]

\* An invocation holds a row exactly while it sends or refuses it.
Held ==
  \A b \in Bridges : bridgeRow[b] # NoItem <=> pc[b] \in {"send", "sent", "refused"}

\* Every result on its way was executed.
AnswersExecuted ==
  \A m \in answers : <<m.item, m.attempt, m.verdict>> \in executed

\* Some invocation has sent row i and not committed that it did.
Uncommitted(i) == \E b \in Bridges : bridgeRow[b] = i /\ pc[b] = "sent"

\* NoSilentLoss, extended to rows whose dispatched_at is not committed yet.
SentIsCarried ==
  \A i \in Items : Pending(i) /\ (dispatched[i] \/ Uncommitted(i)) => Carried(i, attempt[i])

IInv == /\ TypeOK /\ Issued /\ Held /\ RowStaysAsRead /\ OneSendPerCommit
        /\ ResultOfThisAttempt /\ AnswersExecuted /\ SentIsCarried

-----------------------------------------------------------------------------
(* Facts about one state.                                                  *)

\* A request that a bridge may send is well typed.
LEMMA SentRequestType ==
  ASSUME IInv, NEW b \in Bridges, pc[b] = "send"
  PROVE  /\ bridgeRow[b] \in Items
         /\ [item |-> bridgeRow[b], attempt |-> bridgeTook[b],
             copy |-> sends[bridgeRow[b]] + 1, receives |-> 0] \in Request
<1>1. bridgeRow[b] \in Items /\ bridgeRow[b] # NoItem
  BY DEF IInv, TypeOK, Held
<1>2. bridgeTook[b] \in Attempts
  BY <1>1, BoundsAssumption DEF IInv, TypeOK, Issued, RowStaysAsRead, Waiting, Pending, Attempts
<1>3. ~dispatched[bridgeRow[b]] /\ ~Uncommitted(bridgeRow[b])
  BY <1>1 DEF IInv, TypeOK, RowStaysAsRead, Waiting, Uncommitted
<1>4. sends[bridgeRow[b]] = failedCommits[bridgeRow[b]]
  BY <1>1, <1>3 DEF IInv, TypeOK, OneSendPerCommit, Uncommitted
<1>5. sends[bridgeRow[b]] + 1 \in 1..(MaxFailedCommits + 1)
  BY <1>1, <1>4, BoundsAssumption DEF IInv, TypeOK
<1> QED BY <1>1, <1>2, <1>5, BoundsAssumption DEF Request

\* What the two sweeps of an invocation may do to a row: leave it, end an
\* overdue unlocked one with a judge error, or delete a code run that has ended.
LEMMA SweptRow ==
  ASSUME TypeOK, NEW b \in Bridges, Dispatch(b) \/ ExpireCodeRuns(b), NEW i \in Items
  PROVE  /\ \/ status'[i] = status[i] /\ result'[i] = result[i]
            \/ Pending(i) /\ ~Locked(i) /\ status'[i] = "DONE" /\ result'[i] = JE
            \/ status[i] = "DONE" /\ status'[i] = "DELETED" /\ result'[i] = result[i]
                 /\ i \in CodeRuns
         /\ status' \in [Items -> {"NONE", "QUEUED", "RUNNING", "DONE", "DELETED"}]
         /\ result' \in [Items -> Verdicts \cup {JE, NoVerdict}]
<1>1. CASE Dispatch(b)
  BY <1>1 DEF Dispatch, Overdue, TypeOK
<1>2. CASE ExpireCodeRuns(b)
  BY <1>2 DEF ExpireCodeRuns, Overdue, Pending, TypeOK
<1> QED BY <1>1, <1>2

-----------------------------------------------------------------------------
(* Each part of IInv survives a step.                                      *)

\* No step, of whatever actor, leaves the types.
LEMMA TypeStep == IInv /\ [Next]_vars => TypeOK'
<1> SUFFICES ASSUME IInv, [Next]_vars PROVE TypeOK'
  OBVIOUS
<1> USE BoundsAssumption
<1>0. TypeOK
  BY DEF IInv
<1>1. ASSUME NEW i \in Items, Insert(i) PROVE TypeOK'
  BY <1>0, <1>1 DEF TypeOK, Insert, timerVars, bridgeVars, queueVars, history
<1>2. ASSUME NEW T \in SUBSET Submissions, Rejudge(T) PROVE TypeOK'
  BY <1>0, <1>2 DEF TypeOK, Rejudge, bridgeVars, queueVars, Items
<1>3. ASSUME NEW i \in Items, DeadlinePasses(i) PROVE TypeOK'
  BY <1>0, <1>3 DEF TypeOK, DeadlinePasses, rowVars, bridgeVars, queueVars, history
<1>4. ASSUME NEW i \in Items, FiveMinutesPass(i) PROVE TypeOK'
  BY <1>0, <1>4 DEF TypeOK, FiveMinutesPass, rowVars, bridgeVars, queueVars, history
<1>5. ASSUME NEW b \in Bridges, Dispatch(b) \/ ExpireCodeRuns(b) PROVE TypeOK'
  <2>1. /\ status' \in [Items -> {"NONE", "QUEUED", "RUNNING", "DONE", "DELETED"}]
        /\ result' \in [Items -> Verdicts \cup {JE, NoVerdict}]
    <3>1. CASE Items = {}
      BY <3>1, <1>0, <1>5 DEF TypeOK, Dispatch, ExpireCodeRuns
    <3>2. CASE Items # {}
      BY <3>2, <1>0, <1>5, SweptRow
    <3> QED BY <3>1, <3>2
  <2> QED BY <2>1, <1>0, <1>5 DEF TypeOK, Dispatch, ExpireCodeRuns, timerVars, queueVars, history
<1>6. ASSUME NEW b \in Bridges, Select(b) PROVE TypeOK'
  <2>1. SpareChoice \subseteq Items
    BY <1>0 DEF SpareChoice, Oldest, Free, Items, TypeOK
  <2> QED BY <2>1, <1>0, <1>6 DEF TypeOK, Select, TakeNew, CountInFlight, TakeSpare, Oldest, Free,
           NewSubmissions, Items, rowVars, timerVars, queueVars, history
<1>7. ASSUME NEW b \in Bridges, Send(b) PROVE TypeOK'
  <2> DEFINE i == bridgeRow[b]
             m == [item |-> i, attempt |-> bridgeTook[b], copy |-> sends[i] + 1, receives |-> 0]
  <2>1. i \in Items /\ m \in Request
    BY <1>7, SentRequestType DEF Send
  <2>2. requests' = requests \cup {m} /\ sends' = [sends EXCEPT ![i] = @ + 1]
        /\ pc' = [pc EXCEPT ![b] = "sent"]
    BY <1>7 DEF Send
  <2>3. requests' \subseteq Request
    BY <1>0, <2>1, <2>2 DEF TypeOK
  <2>4. sends' \in [Items -> Nat]
    BY <1>0, <2>1, <2>2 DEF TypeOK
  <2>5. pc' \in [Bridges -> {"idle", "sweep", "select", "spare", "send", "sent", "refused"}]
    BY <1>0, <2>2 DEF TypeOK
  <2> QED BY <2>3, <2>4, <2>5, <1>0, <1>7 DEF TypeOK, Send, rowVars, timerVars
<1>8. ASSUME NEW b \in Bridges, Refuse(b) PROVE TypeOK'
  BY <1>0, <1>8 DEF TypeOK, Refuse, rowVars, timerVars, queueVars, history
<1>9. ASSUME NEW b \in Bridges, Commit(b) PROVE TypeOK'
  <2>1. CASE pc[b] = "sent"
    <3>1. dispatched' \in [Items -> BOOLEAN]
      BY <2>1, <1>0, <1>9, Zenon DEF TypeOK, Commit
    <3>2. late' \subseteq Items
      BY <2>1, <1>0, <1>9 DEF TypeOK, Commit
    <3>3. pc' \in [Bridges -> {"idle", "sweep", "select", "spare", "send", "sent", "refused"}]
      BY <1>0, <1>9 DEF TypeOK, Commit
    <3>4. /\ bridgeRow' \in [Bridges -> Items \cup {NoItem}]
          /\ bridgeTook' \in [Bridges -> 0..MaxAttempt]
      BY <1>0, <1>9 DEF TypeOK, Commit
    <3>5. UNCHANGED <<status, result, attempt, progress, since, clock, urgent, queueVars, history>>
      BY <2>1, <1>9 DEF Commit
    <3> QED BY <3>1, <3>2, <3>3, <3>4, <3>5, <1>0 DEF TypeOK, queueVars, history
  <2>2. CASE pc[b] = "refused"
    BY <2>2, <1>0, <1>9 DEF TypeOK, Commit, queueVars, history
  <2> QED BY <2>1, <2>2, <1>9 DEF Commit
<1>10. ASSUME NEW b \in Bridges, GiveUp(b) PROVE TypeOK'
  BY <1>0, <1>10 DEF TypeOK, GiveUp, rowVars, timerVars, queueVars
<1>11. ASSUME NEW h \in Hosts, Receive(h) PROVE TypeOK'
  BY <1>0, <1>11 DEF TypeOK, Receive, Request, rowVars, timerVars, bridgeVars, history
<1>12. ASSUME NEW h \in Hosts, Report(h) PROVE TypeOK'
  BY <1>0, <1>12 DEF TypeOK, Report, Request, ProgressMessage, rowVars, timerVars, bridgeVars, history
<1>13. ASSUME NEW h \in Hosts, Finish(h) PROVE TypeOK'
  BY <1>0, <1>13 DEF TypeOK, Finish, Return, Request, ResultMessage, rowVars, timerVars, bridgeVars
<1>14. ASSUME NEW h \in Hosts, Abandon(h) PROVE TypeOK'
  BY <1>0, <1>14 DEF TypeOK, Abandon, Return, Request, rowVars, timerVars, bridgeVars, history
<1>15. ASSUME NEW b \in Bridges, NEW m \in updates, ApplyProgress(b, m) PROVE TypeOK'
  BY <1>0, <1>15 DEF TypeOK, ApplyProgress, Consume, ProgressMessage, timerVars, bridgeVars, history
<1>16. ASSUME NEW b \in Bridges, NEW m \in answers, ApplyResult(b, m) PROVE TypeOK'
  BY <1>0, <1>16 DEF TypeOK, ApplyResult, FinishAttempt, FinishCodeRun, Consume, ResultMessage,
     timerVars, history
<1>17. ASSUME NEW m \in updates, LoseUpdate(m) PROVE TypeOK'
  BY <1>0, <1>17 DEF TypeOK, LoseUpdate, rowVars, timerVars, bridgeVars, history
<1>18. ASSUME NEW m \in answers, LoseAnswer(m) PROVE TypeOK'
  BY <1>0, <1>18 DEF TypeOK, LoseAnswer, ResultMessage, rowVars, timerVars, bridgeVars, history
<1>19. ASSUME UNCHANGED vars PROVE TypeOK'
  BY <1>0, <1>19 DEF TypeOK, vars, rowVars, timerVars, bridgeVars, queueVars, history
<1> QED
  BY <1>1, <1>2, <1>3, <1>4, <1>5, <1>6, <1>7, <1>8, <1>9, <1>10, <1>11, <1>12, <1>13, <1>14,
     <1>15, <1>16, <1>17, <1>18, <1>19
     DEF Next, Api, CreateRun, CreateGeneration, CreateCodeRun, Timers, Failures, BridgeStep, Apply, Judge


(* What a step of any actor may do to row i.                               *)
Kept(i) ==
  status'[i] = status[i] /\ attempt'[i] = attempt[i] /\ result'[i] = result[i]
Inserted(i) ==
  status[i] = "NONE" /\ status'[i] = "QUEUED" /\ attempt'[i] = 1 /\ result'[i] = result[i]
Reopened(i) ==
  /\ i \in Submissions /\ status[i] = "DONE"
  /\ status'[i] = "QUEUED" /\ attempt'[i] = attempt[i] + 1 /\ result'[i] = NoVerdict
  /\ ~dispatched'[i]
Removed(i) ==
  /\ i \in CodeRuns /\ status[i] = "DONE"
  /\ status'[i] = "DELETED" /\ attempt'[i] = attempt[i] /\ result'[i] = result[i]
Started(i) ==
  /\ Pending(i) /\ ~Locked(i)
  /\ status'[i] = "RUNNING" /\ attempt'[i] = attempt[i] /\ result'[i] = result[i]
Ended(i) ==
  /\ Pending(i) /\ (~Locked(i) \/ \E b \in Bridges : bridgeRow[b] = i /\ bridgeRow'[b] = NoItem)
  /\ status'[i] = "DONE" /\ attempt'[i] = attempt[i]
  /\ result'[i] = JE \/ <<i, attempt[i], result'[i]>> \in executed

\* Every step treats every row in one of these ways: nobody touches a row that
\* an invocation holds but the holder, and only the steps named above end it.
LEMMA RowStep ==
  ASSUME IInv, [Next]_vars, NEW i \in Items
  PROVE  Kept(i) \/ Inserted(i) \/ Reopened(i) \/ Removed(i) \/ Started(i) \/ Ended(i)
<1> DEFINE Goal == Kept(i) \/ Inserted(i) \/ Reopened(i) \/ Removed(i) \/ Started(i) \/ Ended(i)
<1> SUFFICES Goal
  OBVIOUS
<1>0. TypeOK
  BY DEF IInv
<1>1. ASSUME NEW j \in Items, Insert(j) PROVE Goal
  BY <1>0, <1>1 DEF TypeOK, Insert, Kept, Inserted
<1>2. ASSUME NEW T \in SUBSET Submissions, Rejudge(T) PROVE Goal
  BY <1>0, <1>2 DEF TypeOK, Rejudge, Kept, Reopened
<1>3. ASSUME NEW b \in Bridges, Dispatch(b) \/ ExpireCodeRuns(b) PROVE Goal
  <2>1. attempt' = attempt
    BY <1>3 DEF Dispatch, ExpireCodeRuns
  <2> QED BY <2>1, <1>0, <1>3, SweptRow DEF Kept, Removed, Ended
<1>4. ASSUME NEW b \in Bridges, Commit(b) PROVE Goal
  <2>1. CASE pc[b] = "sent" \/ i # bridgeRow[b]
    BY <2>1, <1>0, <1>4 DEF TypeOK, Commit, Kept
  <2>2. CASE pc[b] = "refused" /\ i = bridgeRow[b]
    <3>1. Pending(i)
      BY <2>2, TablesAssumption DEF IInv, RowStaysAsRead, Waiting
    <3>2. bridgeRow'[b] = NoItem
      BY <1>0, <1>4 DEF TypeOK, Commit
    <3> QED BY <2>2, <3>1, <3>2, <1>0, <1>4 DEF TypeOK, Commit, Ended
  <2> QED BY <2>1, <2>2, <1>4 DEF Commit
<1>5. ASSUME NEW b \in Bridges, NEW m \in updates, ApplyProgress(b, m) PROVE Goal
  BY <1>0, <1>5 DEF TypeOK, ApplyProgress, Current, Kept, Started
<1>6. ASSUME NEW b \in Bridges, NEW m \in answers, ApplyResult(b, m) PROVE Goal
  <2>1. attempt' = attempt /\ ~Locked(m.item)
    BY <1>6 DEF ApplyResult
  <2>2. CASE ~Current(m) \/ i # m.item
    BY <2>1, <2>2, <1>0, <1>6 DEF TypeOK, ApplyResult, FinishAttempt, FinishCodeRun, Kept
  <2>3. CASE Current(m) /\ i = m.item
    <3>1. <<i, attempt[i], m.verdict>> \in executed
      BY <2>3 DEF IInv, AnswersExecuted, Current
    <3>2. status'[i] = "DONE" /\ result'[i] \in {m.verdict, JE}
      BY <2>3, <1>0, <1>6 DEF TypeOK, ApplyResult, FinishAttempt, FinishCodeRun
    <3> QED BY <2>1, <2>3, <3>1, <3>2 DEF Ended, Current
  <2> QED BY <2>2, <2>3
<1>7. CASE UNCHANGED <<status, attempt, result>>
  BY <1>7 DEF Kept
<1> QED
  BY <1>1, <1>2, <1>3, <1>4, <1>5, <1>6, <1>7
     DEF Next, Api, CreateRun, CreateGeneration, CreateCodeRun, Timers, Failures, BridgeStep, Apply,
         Judge, Select, DeadlinePasses, FiveMinutesPass, TakeNew, CountInFlight, TakeSpare, Send, Refuse,
         GiveUp, Receive, Report, Finish, Abandon, LoseUpdate, LoseAnswer, vars, rowVars

\* dispatched_at is written by the commit of the invocation that sent the row,
\* which lets the row go in the same step.
LEMMA DispatchedStep ==
  ASSUME IInv, [Next]_vars, NEW i \in Items
  PROVE  \/ ~dispatched'[i] \/ dispatched[i]
         \/ \E b \in Bridges : Commit(b) /\ bridgeRow[b] = i /\ pc[b] = "sent" /\ bridgeRow'[b] = NoItem
<1>0. TypeOK
  BY DEF IInv
<1>1. ASSUME NEW T \in SUBSET Submissions, Rejudge(T) PROVE ~dispatched'[i] \/ dispatched[i]
  BY <1>0, <1>1 DEF Rejudge
<1>2. ASSUME NEW b \in Bridges, Commit(b)
      PROVE  \/ ~dispatched'[i] \/ dispatched[i]
             \/ bridgeRow[b] = i /\ pc[b] = "sent" /\ bridgeRow'[b] = NoItem
  BY <1>0, <1>2 DEF Commit, TypeOK
<1>3. CASE UNCHANGED dispatched
  BY <1>3
<1> QED
  BY <1>1, <1>2, <1>3
     DEF Next, Api, CreateRun, CreateGeneration, CreateCodeRun, Insert, Timers, DeadlinePasses,
         FiveMinutesPass, Failures, Dispatch, ExpireCodeRuns, BridgeStep, Select, TakeNew, CountInFlight,
         TakeSpare, Send, Refuse, GiveUp, Judge, Receive, Report, Finish, Abandon, Apply, ApplyProgress,
         ApplyResult, LoseUpdate, LoseAnswer, vars, rowVars

\* Attempts are issued by an INSERT and by rejudges of finished rows only.
LEMMA IssuedStep == IInv /\ [Next]_vars => Issued'
<1> SUFFICES ASSUME IInv, [Next]_vars, NEW i \in Items
             PROVE  /\ status'[i] = "NONE" <=> attempt'[i] = 0
                    /\ status'[i] = "NONE" => result'[i] = NoVerdict /\ ~dispatched'[i]
  BY DEF Issued
<1>1. /\ attempt[i] \in Nat
      /\ status[i] = "NONE" <=> attempt[i] = 0
      /\ status[i] = "NONE" => result[i] = NoVerdict /\ ~dispatched[i]
  BY BoundsAssumption DEF IInv, TypeOK, Issued
<1>2. status[i] = "NONE" => ~dispatched'[i]
  <2>1. \A b \in Bridges : bridgeRow[b] = i => Pending(i)
    BY TablesAssumption DEF IInv, RowStaysAsRead, Waiting
  <2> QED BY <2>1, <1>1, DispatchedStep DEF Pending
<1>3. CASE Kept(i)
  BY <1>1, <1>2, <1>3 DEF Kept
<1>4. CASE Inserted(i) \/ Reopened(i)
  BY <1>1, <1>4 DEF Inserted, Reopened
<1>5. CASE Removed(i) \/ Started(i) \/ Ended(i)
  BY <1>1, <1>5 DEF Removed, Started, Ended, Pending
<1> QED BY <1>3, <1>4, <1>5, RowStep

\* What was executed stays executed.
LEMMA ExecutedGrows == [Next]_vars => executed \subseteq executed'
BY DEF Next, Api, CreateRun, CreateGeneration, CreateCodeRun, Insert, Rejudge, Timers, DeadlinePasses,
       FiveMinutesPass, Failures, Dispatch, ExpireCodeRuns, BridgeStep, Select, TakeNew, CountInFlight,
       TakeSpare, Send, Refuse, Commit, GiveUp, Judge, Receive, Report, Finish, Abandon, Apply,
       ApplyProgress, ApplyResult, LoseUpdate, LoseAnswer, vars, history

\* Answers come from executions only, and none is made up on the way.
LEMMA AnswersStep == IInv /\ [Next]_vars => AnswersExecuted'
<1> SUFFICES ASSUME IInv, [Next]_vars, NEW m \in answers'
             PROVE  <<m.item, m.attempt, m.verdict>> \in executed'
  BY DEF AnswersExecuted
<1>1. CASE m \in answers
  BY <1>1, ExecutedGrows DEF IInv, AnswersExecuted
<1>2. ASSUME NEW h \in Hosts, Finish(h) PROVE <<m.item, m.attempt, m.verdict>> \in executed'
  BY <1>1, <1>2 DEF Finish
<1>3. CASE answers' \subseteq answers
  BY <1>1, <1>3
<1> QED
  BY <1>2, <1>3
     DEF Next, Api, CreateRun, CreateGeneration, CreateCodeRun, Insert, Rejudge, Timers, DeadlinePasses,
         FiveMinutesPass, Failures, Dispatch, ExpireCodeRuns, BridgeStep, Select, TakeNew,
         CountInFlight, TakeSpare, Send, Refuse, Commit, GiveUp, Judge, Receive, Report, Abandon,
         Apply, ApplyProgress, ApplyResult, Consume, LoseUpdate, LoseAnswer, vars, queueVars

\* A verdict is stored for the attempt that was executed.
LEMMA ResultStep == IInv /\ [Next]_vars => ResultOfThisAttempt'
<1> SUFFICES ASSUME IInv, [Next]_vars, NEW i \in Items
             PROVE  /\ status'[i] = "DONE" =>
                         result'[i] = JE \/ <<i, attempt'[i], result'[i]>> \in executed'
                    /\ Pending(i)' => result'[i] = NoVerdict
  BY DEF ResultOfThisAttempt
<1>1. /\ status[i] = "DONE" => result[i] = JE \/ <<i, attempt[i], result[i]>> \in executed
      /\ Pending(i) => result[i] = NoVerdict
      /\ status[i] = "NONE" => result[i] = NoVerdict
  BY DEF IInv, ResultOfThisAttempt, Issued
<1> QED
  BY <1>1, RowStep, ExecutedGrows
     DEF Kept, Inserted, Reopened, Removed, Started, Ended, Pending


\* An invocation holds a row from the moment it takes it until it commits or
\* gives up.
LEMMA HeldStep == IInv /\ [Next]_vars => Held'
<1> SUFFICES ASSUME IInv, [Next]_vars PROVE Held'
  OBVIOUS
<1>0. TypeOK /\ Held /\ NoItem \notin Items
  BY TablesAssumption DEF IInv
<1>1. ASSUME NEW b \in Bridges, Dispatch(b) \/ ExpireCodeRuns(b) PROVE Held'
  BY <1>0, <1>1 DEF TypeOK, Held, Dispatch, ExpireCodeRuns
<1>2. ASSUME NEW b \in Bridges, Select(b) PROVE Held'
  <2>1. SpareChoice \subseteq Items /\ Oldest(Free(NewSubmissions)) \subseteq Items
    BY DEF SpareChoice, Oldest, Free, NewSubmissions, Items, TypeOK, IInv
  <2> QED BY <2>1, <1>0, <1>2 DEF TypeOK, Held, Select, TakeNew, CountInFlight, TakeSpare
<1>3. ASSUME NEW b \in Bridges, Send(b) \/ Refuse(b) PROVE Held'
  BY <1>0, <1>3 DEF TypeOK, Held, Send, Refuse
<1>4. ASSUME NEW b \in Bridges, Commit(b) \/ GiveUp(b) PROVE Held'
  BY <1>0, <1>4 DEF TypeOK, Held, Commit, GiveUp
<1>5. ASSUME NEW b \in Bridges, NEW m \in answers, ApplyResult(b, m) PROVE Held'
  BY <1>0, <1>5 DEF TypeOK, Held, ApplyResult
<1>6. CASE UNCHANGED <<pc, bridgeRow>>
  BY <1>0, <1>6 DEF Held
<1> QED
  BY <1>1, <1>2, <1>3, <1>4, <1>5, <1>6
     DEF Next, Api, CreateRun, CreateGeneration, CreateCodeRun, Insert, Rejudge, Timers, DeadlinePasses,
         FiveMinutesPass, Failures, BridgeStep, Judge, Receive, Report, Finish, Abandon, Apply,
         ApplyProgress, LoseUpdate, LoseAnswer, vars, bridgeVars

\* An invocation keeps its row and the attempt it read, drops both, or takes
\* a row that waits and that nobody holds; only one invocation moves at a time.
LEMMA HoldStep ==
  ASSUME IInv, [Next]_vars
  PROVE  \/ \A b \in Bridges :
              \/ bridgeRow'[b] = NoItem
              \/ bridgeRow'[b] = bridgeRow[b] /\ bridgeTook'[b] = bridgeTook[b]
         \/ /\ UNCHANGED <<rowVars, timerVars, sends, failedCommits>>
            /\ \E b \in Bridges, i \in Items :
                 /\ Waiting(i) /\ ~Locked(i)
                 /\ bridgeRow'[b] = i /\ bridgeTook'[b] = attempt[i]
                 /\ \A c \in Bridges \ {b} :
                      bridgeRow'[c] = bridgeRow[c] /\ bridgeTook'[c] = bridgeTook[c]
<1>0. TypeOK
  BY DEF IInv
<1>1. ASSUME NEW b \in Bridges, Select(b), ~ UNCHANGED <<bridgeRow, bridgeTook>>
      PROVE  /\ UNCHANGED <<rowVars, timerVars, sends, failedCommits>>
             /\ \E i \in Items :
                 /\ Waiting(i) /\ ~Locked(i)
                 /\ bridgeRow'[b] = i /\ bridgeTook'[b] = attempt[i]
                 /\ \A c \in Bridges \ {b} :
                      bridgeRow'[c] = bridgeRow[c] /\ bridgeTook'[c] = bridgeTook[c]
  <2> DEFINE Takable == {i \in Items : Waiting(i) /\ ~Locked(i)}
  <2>1. SpareChoice \subseteq Takable /\ Oldest(Free(NewSubmissions)) \subseteq Takable
    BY <1>0 DEF SpareChoice, Oldest, Free, NewSubmissions, Items, TypeOK
  <2>2. PICK i \in Takable : /\ bridgeRow'  = [bridgeRow EXCEPT ![b] = i]
                             /\ bridgeTook' = [bridgeTook EXCEPT ![b] = attempt[i]]
    BY <2>1, <1>1 DEF Select, TakeNew, CountInFlight, TakeSpare
  <2>3. UNCHANGED <<rowVars, timerVars, sends, failedCommits>>
    BY <1>1 DEF Select, TakeNew, CountInFlight, TakeSpare, history
  <2> QED BY <2>2, <2>3, <1>0 DEF TypeOK
<1>2. ASSUME NEW b \in Bridges, Commit(b) \/ GiveUp(b)
      PROVE  \A c \in Bridges :
               \/ bridgeRow'[c] = NoItem
               \/ bridgeRow'[c] = bridgeRow[c] /\ bridgeTook'[c] = bridgeTook[c]
  <2>1. /\ bridgeRow'  = [bridgeRow EXCEPT ![b] = NoItem]
        /\ bridgeTook' = [bridgeTook EXCEPT ![b] = 0]
    BY <1>2 DEF Commit, GiveUp
  <2> QED BY <2>1, <1>0 DEF TypeOK
<1>3. CASE UNCHANGED <<bridgeRow, bridgeTook>>
  BY <1>3
<1> QED
  BY <1>1, <1>2, <1>3
     DEF Next, Api, CreateRun, CreateGeneration, CreateCodeRun, Insert, Rejudge, Timers, DeadlinePasses,
         FiveMinutesPass, Failures, Dispatch, ExpireCodeRuns, BridgeStep, Send, Refuse, Judge, Receive,
         Report, Finish, Abandon, Apply, ApplyProgress, ApplyResult, LoseUpdate, LoseAnswer, vars,
         bridgeVars

\* The main lemma: what an invocation read FOR UPDATE stays true of its row.
LEMMA RowStaysStep == IInv /\ [Next]_vars => RowStaysAsRead'
<1> SUFFICES ASSUME IInv, [Next]_vars PROVE RowStaysAsRead'
  OBVIOUS
<1>0. TypeOK /\ RowStaysAsRead /\ NoItem \notin Items
  BY TablesAssumption DEF IInv
<1>1. CASE \A b \in Bridges : \/ bridgeRow'[b] = NoItem
                              \/ bridgeRow'[b] = bridgeRow[b] /\ bridgeTook'[b] = bridgeTook[b]
  <2> SUFFICES ASSUME NEW b \in Bridges, bridgeRow'[b] # NoItem
               PROVE  /\ Waiting(bridgeRow[b])'
                      /\ bridgeTook'[b] = attempt'[bridgeRow[b]]
                      /\ bridgeRow'[b] = bridgeRow[b]
                      /\ \A c \in Bridges \ {b} : bridgeRow'[c] # bridgeRow[b]
    BY <1>1 DEF RowStaysAsRead, Waiting, Pending
  <2> DEFINE i == bridgeRow[b]
  <2>1. /\ bridgeRow'[b] = i /\ i # NoItem /\ i \in Items
        /\ bridgeTook'[b] = bridgeTook[b] /\ bridgeTook[b] = attempt[i]
        /\ Pending(i) /\ Locked(i)
        /\ \A c \in Bridges \ {b} : bridgeRow[c] # i /\ bridgeRow'[c] # i
    BY <1>0, <1>1 DEF TypeOK, RowStaysAsRead, Waiting, Locked
  <2>2. ~dispatched'[i]
    BY <2>1, <1>0, DispatchedStep DEF RowStaysAsRead, Waiting
  <2>3. Kept(i)
    <3>1. ~Inserted(i) /\ ~Reopened(i) /\ ~Removed(i) /\ ~Started(i)
      BY <2>1 DEF Inserted, Reopened, Removed, Started, Pending
    <3>2. ~Ended(i)
      BY <2>1 DEF Ended
    <3> QED BY <3>1, <3>2, <2>1, RowStep
  <2> QED BY <2>1, <2>2, <2>3 DEF Kept, Waiting, Pending
<1>2. ASSUME UNCHANGED rowVars, NEW b \in Bridges, NEW i \in Items, Waiting(i), ~Locked(i),
             bridgeRow'[b] = i, bridgeTook'[b] = attempt[i],
             \A c \in Bridges \ {b} :
               bridgeRow'[c] = bridgeRow[c] /\ bridgeTook'[c] = bridgeTook[c]
      PROVE  RowStaysAsRead'
  <2>1. UNCHANGED <<status, attempt, dispatched>>
    BY <1>2 DEF rowVars
  <2>2. \A c \in Bridges : bridgeRow[c] # i
    BY <1>2 DEF Locked
  <2>3. \A d \in Bridges \ {b} : bridgeRow'[d] # bridgeRow'[b]
    BY <2>2, <1>2
  <2>4. Waiting(i)' /\ bridgeTook'[b] = attempt'[bridgeRow'[b]]
    BY <2>1, <1>2 DEF Waiting, Pending
  <2> QED
    BY <2>1, <2>2, <2>3, <2>4, <1>0, <1>2 DEF RowStaysAsRead, Waiting, Pending
<1> QED BY <1>1, <1>2, HoldStep

\* Sends are counted against commits that failed.
LEMMA SendsStep == IInv /\ [Next]_vars => OneSendPerCommit'
<1> DEFINE Extra(i) == IF dispatched[i] \/ Uncommitted(i) THEN 1 ELSE 0
<1> SUFFICES ASSUME IInv, [Next]_vars, NEW i \in Items
             PROVE  sends'[i] = failedCommits'[i] + Extra(i)'
  BY DEF OneSendPerCommit, Uncommitted
<1>0. /\ TypeOK /\ NoItem \notin Items
      /\ sends[i] = failedCommits[i] + Extra(i)
      /\ sends[i] \in Nat /\ failedCommits[i] \in Nat
  BY TablesAssumption, BoundsAssumption DEF IInv, TypeOK, OneSendPerCommit, Uncommitted
<1>1. ASSUME NEW T \in SUBSET Submissions, Rejudge(T)
      PROVE  sends'[i] = failedCommits'[i] + Extra(i)'
  <2>1. UNCHANGED <<pc, bridgeRow>>
    BY <1>1 DEF Rejudge, bridgeVars
  <2>2. CASE i \in T
    <3>1. sends'[i] = 0 /\ failedCommits'[i] = 0 /\ ~dispatched'[i] /\ status[i] = "DONE"
      BY <2>2, <1>1 DEF Rejudge
    <3>2. ~Uncommitted(i)'
      BY <2>1, <3>1, <1>0 DEF Uncommitted, IInv, RowStaysAsRead, Waiting, Pending
    <3> QED BY <3>1, <3>2
  <2>3. CASE i \notin T
    <3>1. /\ sends'[i] = sends[i] /\ failedCommits'[i] = failedCommits[i]
          /\ dispatched'[i] <=> dispatched[i]
      BY <2>3, <1>1 DEF Rejudge
    <3> QED BY <2>1, <3>1, <1>0 DEF Uncommitted
  <2> QED BY <2>2, <2>3
<1>2. ASSUME NEW b \in Bridges, Send(b) PROVE sends'[i] = failedCommits'[i] + Extra(i)'
  <2>1. /\ pc' = [pc EXCEPT ![b] = "sent"] /\ pc[b] = "send"
        /\ sends' = [sends EXCEPT ![bridgeRow[b]] = @ + 1]
        /\ UNCHANGED <<bridgeRow, dispatched, failedCommits>>
    BY <1>2 DEF Send, rowVars
  <2>2. CASE bridgeRow[b] = i
    <3>1. ~dispatched[i] /\ ~Uncommitted(i)
      BY <2>1, <2>2, <1>0 DEF IInv, RowStaysAsRead, Waiting, Uncommitted
    <3>2. Uncommitted(i)'
      BY <2>1, <2>2, <1>0 DEF Uncommitted, TypeOK
    <3>3. sends'[i] = sends[i] + 1
      BY <2>1, <2>2, <1>0 DEF TypeOK
    <3> QED BY <2>1, <3>1, <3>2, <3>3, <1>0
  <2>3. CASE bridgeRow[b] # i
    <3>1. Uncommitted(i)' <=> Uncommitted(i)
      BY <2>1, <2>3, <1>0 DEF Uncommitted, TypeOK
    <3> QED BY <2>1, <2>3, <3>1, <1>0 DEF TypeOK
  <2> QED BY <2>2, <2>3
<1>3. ASSUME NEW b \in Bridges, Commit(b) PROVE sends'[i] = failedCommits'[i] + Extra(i)'
  <2>1. /\ pc' = [pc EXCEPT ![b] = "select"] /\ bridgeRow' = [bridgeRow EXCEPT ![b] = NoItem]
        /\ UNCHANGED <<sends, failedCommits>>
    BY <1>3 DEF Commit, history
  <2>2. CASE bridgeRow[b] = i /\ pc[b] = "sent"
    <3>1. Uncommitted(i)
      BY <2>2 DEF Uncommitted
    <3>2. dispatched'[i]
      BY <2>2, <1>0, <1>3 DEF Commit, TypeOK
    <3> QED BY <2>1, <3>1, <3>2, <1>0
  <2>3. CASE ~(bridgeRow[b] = i /\ pc[b] = "sent")
    <3>1. Uncommitted(i)' <=> Uncommitted(i)
      BY <2>1, <2>3, <1>0 DEF Uncommitted, TypeOK
    <3>2. dispatched'[i] <=> dispatched[i]
      BY <2>3, <1>0, <1>3 DEF Commit, TypeOK
    <3> QED BY <2>1, <3>1, <3>2, <1>0
  <2> QED BY <2>2, <2>3
<1>4. ASSUME NEW b \in Bridges, GiveUp(b) PROVE sends'[i] = failedCommits'[i] + Extra(i)'
  <2>1. /\ pc' = [pc EXCEPT ![b] = "idle"] /\ bridgeRow' = [bridgeRow EXCEPT ![b] = NoItem]
        /\ UNCHANGED <<sends, dispatched>>
    BY <1>4 DEF GiveUp, rowVars
  <2>2. CASE bridgeRow[b] = i /\ pc[b] = "sent"
    <3>1. Uncommitted(i) /\ ~dispatched[i]
      BY <2>2, <1>0 DEF Uncommitted, IInv, RowStaysAsRead, Waiting
    <3>2. ~Uncommitted(i)'
      BY <2>1, <2>2, <1>0 DEF Uncommitted, IInv, RowStaysAsRead, TypeOK
    <3>3. failedCommits'[i] = failedCommits[i] + 1
      BY <2>2, <1>0, <1>4 DEF GiveUp, TypeOK
    <3> QED BY <2>1, <3>1, <3>2, <3>3, <1>0
  <2>3. CASE ~(bridgeRow[b] = i /\ pc[b] = "sent")
    <3>1. Uncommitted(i)' <=> Uncommitted(i)
      BY <2>1, <2>3, <1>0 DEF Uncommitted, TypeOK
    <3>2. failedCommits'[i] = failedCommits[i]
      BY <2>3, <1>0, <1>4 DEF GiveUp, TypeOK
    <3> QED BY <2>1, <3>1, <3>2, <1>0
  <2> QED BY <2>2, <2>3
<1>5. ASSUME UNCHANGED <<sends, failedCommits, dispatched>>,
             \A b \in Bridges : /\ pc[b] = "sent" <=> pc'[b] = "sent"
                                /\ pc[b] = "sent" => bridgeRow'[b] = bridgeRow[b]
      PROVE  sends'[i] = failedCommits'[i] + Extra(i)'
  <2>1. Uncommitted(i)' <=> Uncommitted(i)
    BY <1>5 DEF Uncommitted
  <2> QED BY <2>1, <1>5, <1>0
<1>6. ASSUME NEW b \in Bridges, Dispatch(b) \/ ExpireCodeRuns(b) \/ Select(b) \/ Refuse(b)
      PROVE  sends'[i] = failedCommits'[i] + Extra(i)'
  <2>1. UNCHANGED <<sends, failedCommits, dispatched>>
    BY <1>6 DEF Dispatch, ExpireCodeRuns, Select, TakeNew, CountInFlight, TakeSpare, Refuse, rowVars,
                history
  <2>2. pc[b] # "sent" /\ pc'[b] # "sent"
    BY <1>6, <1>0 DEF Dispatch, ExpireCodeRuns, Select, TakeNew, CountInFlight, TakeSpare, Refuse, TypeOK
  <2>3. \A c \in Bridges \ {b} : pc'[c] = pc[c] /\ bridgeRow'[c] = bridgeRow[c]
    BY <1>6, <1>0 DEF Dispatch, ExpireCodeRuns, Select, TakeNew, CountInFlight, TakeSpare, Refuse, TypeOK
  <2> QED BY <2>1, <2>2, <2>3, <1>5
<1>7. ASSUME NEW b \in Bridges, NEW m \in answers, ApplyResult(b, m)
      PROVE  sends'[i] = failedCommits'[i] + Extra(i)'
  BY <1>7, <1>5, <1>0 DEF ApplyResult, TypeOK, history
<1>8. ASSUME UNCHANGED <<sends, failedCommits, dispatched, pc, bridgeRow>>
      PROVE  sends'[i] = failedCommits'[i] + Extra(i)'
  BY <1>8, <1>5
<1> QED
  BY <1>1, <1>2, <1>3, <1>4, <1>6, <1>7, <1>8
     DEF Next, Api, CreateRun, CreateGeneration, CreateCodeRun, Insert, Timers, DeadlinePasses,
         FiveMinutesPass, Failures, BridgeStep, Judge, Receive, Report, Finish, Abandon, Apply,
         ApplyProgress, LoseUpdate, LoseAnswer, vars, rowVars, bridgeVars, history


\* A row gets sent by the invocation that holds it, with the row's attempt.
LEMMA UncommittedStep ==
  ASSUME IInv, [Next]_vars, NEW i \in Items, Uncommitted(i)'
  PROVE  Uncommitted(i) \/ \E b \in Bridges : Send(b) /\ bridgeRow[b] = i
<1> PICK b \in Bridges : bridgeRow'[b] = i /\ pc'[b] = "sent"
  BY DEF Uncommitted
<1>0. TypeOK /\ NoItem \notin Items
  BY TablesAssumption DEF IInv
<1>1. ASSUME NEW c \in Bridges, Send(c) PROVE Uncommitted(i) \/ (Send(b) /\ bridgeRow[b] = i)
  BY <1>0, <1>1 DEF Send, Uncommitted, TypeOK
<1>2. ASSUME NEW c \in Bridges, Dispatch(c) \/ ExpireCodeRuns(c) \/ Select(c) \/ Refuse(c)
      PROVE  Uncommitted(i)
  BY <1>0, <1>2 DEF Dispatch, ExpireCodeRuns, Select, TakeNew, CountInFlight, TakeSpare, Refuse,
                    Uncommitted, TypeOK
<1>3. ASSUME NEW c \in Bridges, Commit(c) \/ GiveUp(c) PROVE Uncommitted(i)
  BY <1>0, <1>3 DEF Commit, GiveUp, Uncommitted, TypeOK
<1>4. ASSUME NEW c \in Bridges, NEW m \in answers, ApplyResult(c, m) PROVE Uncommitted(i)
  BY <1>0, <1>4 DEF ApplyResult, Uncommitted, TypeOK
<1>5. CASE UNCHANGED <<pc, bridgeRow>>
  BY <1>5 DEF Uncommitted
<1> QED
  BY <1>1, <1>2, <1>3, <1>4, <1>5
     DEF Next, Api, CreateRun, CreateGeneration, CreateCodeRun, Insert, Rejudge, Timers, DeadlinePasses,
         FiveMinutesPass, Failures, BridgeStep, Judge, Receive, Report, Finish, Abandon, Apply,
         ApplyProgress, LoseUpdate, LoseAnswer, vars, bridgeVars

\* A message leaves the queues and hosts only by way of a result that a bridge
\* applies: receiving, stopping, answering and dead-lettering pass it on.
LEMMA CarriedStep ==
  ASSUME IInv, [Next]_vars, NEW i \in Items, NEW a \in Attempts, Carried(i, a)
  PROVE  \/ Carried(i, a)'
         \/ \E b \in Bridges, m \in answers : ApplyResult(b, m) /\ m.item = i /\ m.attempt = a
<1> USE DEF Carried
<1>0. TypeOK /\ TypeOK'
  BY TypeStep DEF IInv
<1>1. ASSUME NEW b \in Bridges, Send(b) PROVE Carried(i, a)'
  BY <1>1 DEF Send
<1>2. ASSUME NEW h \in Hosts, Receive(h) PROVE Carried(i, a)'
  <2>1. PICK m \in requests : /\ m.receives < MaxReceiveCount
                              /\ job' = [job EXCEPT ![h] = [m EXCEPT !.receives = @ + 1]]
                              /\ requests \ {m} \subseteq requests'
    BY <1>2 DEF Receive
  <2>2. /\ \A g \in Hosts \ {h} : job'[g] = job[g]
        /\ job[h] = NoJob /\ UNCHANGED <<answers, deadLetters>>
    BY <1>0, <1>2 DEF Receive, TypeOK
  <2>3. job'[h].item = m.item /\ job'[h].attempt = m.attempt /\ job'[h] # NoJob
    <3>1. job'[h] = [m EXCEPT !.receives = @ + 1] /\ m \in Request
      BY <1>0, <2>1 DEF TypeOK
    <3>2. job'[h] # NoJob
      <4>1. m.receives + 1 \in 0..MaxReceiveCount
        BY <3>1, <2>1, BoundsAssumption DEF Request
      <4> QED BY <4>1, <3>1, TablesAssumption DEF Request
    <3> QED BY <3>1, <3>2 DEF Request
  <2> QED BY <2>1, <2>2, <2>3
<1>3. ASSUME NEW h \in Hosts, Finish(h) PROVE Carried(i, a)'
  <2>1. requests \subseteq requests' /\ deadLetters \subseteq deadLetters'
    BY <1>3 DEF Finish, Return
  <2>2. PICK v \in Verdicts :
          answers' = answers \cup
            {[item |-> job[h].item, attempt |-> job[h].attempt, verdict |-> v]}
    BY <1>3 DEF Finish
  <2>3. \A g \in Hosts \ {h} : job'[g] = job[g]
    BY <1>0, <1>3 DEF Finish, TypeOK
  <2>4. CASE job[h].item = i /\ job[h].attempt = a
    <3> DEFINE m == [item |-> job[h].item, attempt |-> job[h].attempt, verdict |-> v]
    <3>1. m \in answers' /\ m.item = i /\ m.attempt = a
      BY <2>2, <2>4
    <3> QED BY <3>1
  <2>5. CASE ~(job[h].item = i /\ job[h].attempt = a)
    <3>1. answers \subseteq answers'
      BY <2>2
    <3> QED BY <2>1, <2>3, <2>5, <3>1
  <2> QED BY <2>4, <2>5
<1>4. ASSUME NEW h \in Hosts, Abandon(h) PROVE Carried(i, a)'
  <2>1. /\ requests \subseteq requests' /\ deadLetters \subseteq deadLetters'
        /\ UNCHANGED answers
        /\ \A g \in Hosts \ {h} : job'[g] = job[g]
        /\ job[h] \in requests' \/ <<job[h].item, job[h].attempt>> \in deadLetters'
    BY <1>0, <1>4 DEF Abandon, Return, TypeOK
  <2> QED BY <2>1
<1>5. ASSUME NEW b \in Bridges, NEW m \in answers, ApplyResult(b, m)
      PROVE  Carried(i, a)' \/ (m.item = i /\ m.attempt = a)
  BY <1>5 DEF ApplyResult, Consume
<1>6. ASSUME NEW m \in answers, LoseAnswer(m) PROVE Carried(i, a)'
  BY <1>6 DEF LoseAnswer
<1>7. CASE UNCHANGED <<requests, job, answers, deadLetters>>
  BY <1>7
<1> QED
  BY <1>1, <1>2, <1>3, <1>4, <1>5, <1>6, <1>7
     DEF Next, Api, CreateRun, CreateGeneration, CreateCodeRun, Insert, Rejudge, Timers, DeadlinePasses,
         FiveMinutesPass, Failures, Dispatch, ExpireCodeRuns, BridgeStep, Select, TakeNew, CountInFlight,
         TakeSpare, Refuse, Commit, GiveUp, Judge, Report, Apply, ApplyProgress, LoseUpdate, vars,
         queueVars


\* No attempt vanishes between its send and its decision.
LEMMA SentIsCarriedStep == IInv /\ [Next]_vars => SentIsCarried'
<1> SUFFICES ASSUME IInv, [Next]_vars, NEW i \in Items, Pending(i)',
                    dispatched'[i] \/ Uncommitted(i)'
             PROVE  Carried(i, attempt[i])'
  BY DEF SentIsCarried
<1>0. TypeOK /\ TypeOK' /\ NoItem \notin Items
  BY TypeStep, TablesAssumption DEF IInv
<1>1. \A b \in Bridges : bridgeRow[b] = i => Waiting(i) /\ bridgeTook[b] = attempt[i]
  BY <1>0 DEF IInv, RowStaysAsRead
<1>2. dispatched[i] \/ Uncommitted(i) \/ \E b \in Bridges : Send(b) /\ bridgeRow[b] = i
  BY DispatchedStep, UncommittedStep DEF Uncommitted
<1>3. Pending(i) /\ attempt'[i] = attempt[i]
  <2>1. CASE Kept(i) \/ Started(i)
    BY <2>1 DEF Kept, Started, Pending
  <2>2. CASE Inserted(i)
    BY <2>2, <1>1, <1>2 DEF Inserted, IInv, Issued, Uncommitted, Waiting, Pending
  <2>3. CASE Reopened(i)
    <3>1. ~Pending(i) /\ ~Uncommitted(i) /\ Uncommitted(i)'
      BY <2>3, <1>1 DEF Reopened, Pending, Uncommitted, Waiting
    <3> QED BY <3>1, <1>1, UncommittedStep DEF Waiting
  <2>4. CASE Removed(i) \/ Ended(i)
    BY <2>4 DEF Removed, Ended, Pending
  <2> QED BY <2>1, <2>2, <2>3, <2>4, RowStep
<1>4. attempt[i] \in Attempts
  BY <1>3, <1>0, BoundsAssumption DEF TypeOK, Attempts, IInv, Issued, Pending
<1>5. CASE dispatched[i] \/ Uncommitted(i)
  <2>1. Carried(i, attempt[i])
    BY <1>3, <1>5 DEF IInv, SentIsCarried
  <2>2. ASSUME NEW b \in Bridges, NEW m \in answers, ApplyResult(b, m),
               m.item = i, m.attempt = attempt[i]
        PROVE  FALSE
    BY <2>2, <1>0, <1>3 DEF ApplyResult, Current, FinishAttempt, FinishCodeRun, Pending, TypeOK
  <2> DEFINE a == attempt[i]
  <2>3. Carried(i, a)' \/ Carried(i, attempt[i])'
    <3>1. PICK n \in Attempts : n = attempt[i]
      BY <1>4
    <3>2. Carried(i, n)'
      BY <3>1, <2>1, <2>2, CarriedStep
    <3> QED BY <3>1, <3>2, <1>3 DEF Carried
  <2> QED BY <2>3
<1>6. ASSUME NEW b \in Bridges, Send(b), bridgeRow[b] = i PROVE Carried(i, attempt[i])'
  <2> DEFINE m == [item |-> i, attempt |-> bridgeTook[b], copy |-> sends[i] + 1, receives |-> 0]
  <2>1. m \in requests'
    BY <1>6 DEF Send
  <2>2. m.item = i /\ m.attempt = attempt'[i]
    BY <1>1, <1>3, <1>6
  <2> QED BY <2>1, <2>2 DEF Carried
<1> QED BY <1>2, <1>5, <1>6

-----------------------------------------------------------------------------
(* The theorems.                                                           *)

\* The initial state satisfies the inductive invariant: there is no row yet.
LEMMA InitIInv == Init => IInv
<1> SUFFICES ASSUME Init PROVE IInv
  OBVIOUS
<1> USE DEF Init
<1>1. TypeOK
  BY BoundsAssumption DEF TypeOK
<1>2. Issued /\ Held /\ AnswersExecuted
  BY DEF Issued, Held, AnswersExecuted
<1>3. RowStaysAsRead /\ OneSendPerCommit
  BY DEF RowStaysAsRead, OneSendPerCommit
<1>4. ResultOfThisAttempt /\ SentIsCarried
  BY DEF ResultOfThisAttempt, SentIsCarried, Pending
<1> QED BY <1>1, <1>2, <1>3, <1>4 DEF IInv

\* IInv holds in every reachable state of the outbox, the queues and the hosts.
THEOREM Invariance == Spec => []IInv
<1>1. IInv /\ [Next]_vars => IInv'
  BY TypeStep, IssuedStep, HeldStep, RowStaysStep, SendsStep, ResultStep, AnswersStep,
     SentIsCarriedStep DEF IInv
<1> QED BY InitIInv, <1>1, PTL DEF Spec

\* Every variable keeps its type, whatever the number of rows and invocations.
THEOREM TypeCorrect == Spec => []TypeOK
<1>1. IInv => TypeOK
  BY DEF IInv
<1> QED BY Invariance, <1>1, PTL

\* A row read FOR UPDATE stays as it was read until the invocation ends with
\* it: the row lock protects it against expiry, rejudges, results and others.
THEOREM LockedRowsStay == Spec => []RowStaysAsRead
<1>1. IInv => RowStaysAsRead
  BY DEF IInv
<1> QED BY Invariance, <1>1, PTL

\* A verdict belongs to an execution of the row's present attempt, or is JE:
\* no late, repeated or reordered result of an earlier attempt is ever stored.
THEOREM VerdictsAreCurrent == Spec => []ResultOfThisAttempt
<1>1. IInv => ResultOfThisAttempt
  BY DEF IInv
<1> QED BY Invariance, <1>1, PTL

\* Nothing that was sent vanishes before it is decided.
THEOREM NothingVanishes == Spec => []NoSilentLoss
<1>1. IInv => NoSilentLoss
  BY DEF IInv, SentIsCarried, NoSilentLoss
<1> QED BY Invariance, <1>1, PTL

\* A row is sent again only after a commit that failed.
THEOREM SentOncePerCommit == Spec => []OneSendPerCommit
<1>1. IInv => OneSendPerCommit
  BY DEF IInv
<1> QED BY Invariance, <1>1, PTL

\* A stored verdict is final until a rejudge opens a fresh attempt.
THEOREM VerdictsAreFinal == Spec => FinalIsFinal
<1>1. ASSUME IInv, [Next]_vars, NEW i \in Items, status[i] = "DONE"
      PROVE  \/ status'[i] \in {"DONE", "DELETED"} /\ result'[i] = result[i]
                  /\ attempt'[i] = attempt[i]
             \/ i \in Submissions /\ status'[i] = "QUEUED" /\ attempt'[i] = attempt[i] + 1
  BY <1>1, RowStep DEF Kept, Inserted, Reopened, Removed, Started, Ended, Pending
<1>2. IInv /\ [Next]_vars =>
        [\A i \in Items : status[i] = "DONE" =>
           \/ status'[i] \in {"DONE", "DELETED"} /\ result'[i] = result[i]
                /\ attempt'[i] = attempt[i]
           \/ i \in Submissions /\ status'[i] = "QUEUED" /\ attempt'[i] = attempt[i] + 1]_vars
  BY <1>1
<1> QED BY Invariance, <1>2, PTL DEF Spec, FinalIsFinal

-----------------------------------------------------------------------------
(* JudgeOutbox implements JudgeLife.  Beyond IInv this needs that no        *)
(* message is ahead of its row: a request and the job made of it carry an   *)
(* attempt that was issued.                                                 *)

NoneAhead ==
  /\ \A m \in requests : m.attempt <= attempt[m.item]
  /\ \A h \in Hosts : job[h] # NoJob => job[h].attempt <= attempt[job[h].item]

\* No step takes an attempt back.
LEMMA AttemptGrows ==
  ASSUME IInv, [Next]_vars, NEW i \in Items
  PROVE  attempt[i] \in Nat /\ attempt'[i] \in Nat /\ attempt[i] <= attempt'[i]
<1>1. attempt[i] \in Nat /\ attempt'[i] \in Nat
  BY TypeStep, BoundsAssumption DEF IInv, TypeOK
<1>2. attempt[i] = 0 \/ attempt'[i] = attempt[i] \/ attempt'[i] = attempt[i] + 1
  BY RowStep DEF Kept, Inserted, Reopened, Removed, Started, Ended, IInv, Issued
<1> QED BY <1>1, <1>2

\* A request is made of the row's own attempt, and messages are passed on as they are.
LEMMA NoneAheadStep == IInv /\ NoneAhead /\ [Next]_vars => NoneAhead'
<1> SUFFICES ASSUME IInv, NoneAhead, [Next]_vars PROVE NoneAhead'
  OBVIOUS
<1>0. TypeOK /\ TypeOK'
  BY TypeStep DEF IInv
<1> DEFINE Old(m) == m.item \in Items /\ m.attempt \in Nat /\ m.attempt <= attempt[m.item]
<1>1. ASSUME NEW m, Old(m) PROVE m.attempt <= attempt'[m.item]
  BY <1>1, AttemptGrows
<1>2. /\ \A m \in requests : Old(m)
      /\ \A h \in Hosts : job[h] # NoJob => Old(job[h])
  BY <1>0 DEF NoneAhead, TypeOK, Request, Attempts
<1>3. ASSUME \A m \in requests' : Old(m), \A h \in Hosts : job'[h] # NoJob => Old(job'[h])
      PROVE  NoneAhead'
  BY <1>1, <1>3 DEF NoneAhead
<1>4. ASSUME NEW b \in Bridges, Send(b) PROVE NoneAhead'
  <2> DEFINE m == [item |-> bridgeRow[b], attempt |-> bridgeTook[b],
                   copy |-> sends[bridgeRow[b]] + 1, receives |-> 0]
  <2>1. requests' = requests \cup {m} /\ job' = job
    BY <1>4 DEF Send
  <2>2. m.item \in Items /\ m.attempt \in Nat /\ m.attempt = attempt[m.item]
    BY <1>4, <1>0, SentRequestType, TablesAssumption, BoundsAssumption
       DEF Send, IInv, RowStaysAsRead, TypeOK
  <2> QED BY <2>1, <2>2, <1>2, <1>3
<1>5. ASSUME NEW h \in Hosts, Receive(h) PROVE NoneAhead'
  <2>1. PICK m \in requests, kept \in BOOLEAN :
          /\ job' = [job EXCEPT ![h] = [m EXCEPT !.receives = @ + 1]]
          /\ requests' = (requests \ {m}) \cup (IF kept THEN {[m EXCEPT !.receives = @ + 1]} ELSE {})
    BY <1>5 DEF Receive
  <2> DEFINE taken == [m EXCEPT !.receives = @ + 1]
  <2>2. Old(taken)
    BY <1>0, <1>2 DEF TypeOK, Request
  <2> QED BY <2>1, <2>2, <1>0, <1>2, <1>3 DEF TypeOK
<1>6. ASSUME NEW h \in Hosts, Finish(h) \/ Abandon(h) PROVE NoneAhead'
  <2>1. job' = [job EXCEPT ![h] = NoJob] /\ job[h] # NoJob
    BY <1>6 DEF Finish, Abandon
  <2>2. requests' \subseteq requests \cup {job[h]}
    BY <1>6 DEF Finish, Abandon, Return
  <2> QED BY <2>1, <2>2, <1>0, <1>2, <1>3 DEF TypeOK
<1>7. CASE UNCHANGED <<requests, job>>
  BY <1>7, <1>2, <1>3
<1> QED
  BY <1>4, <1>5, <1>6, <1>7
     DEF Next, Api, CreateRun, CreateGeneration, CreateCodeRun, Insert, Rejudge, Timers, DeadlinePasses,
         FiveMinutesPass, Failures, Dispatch, ExpireCodeRuns, BridgeStep, Select, TakeNew, CountInFlight,
         TakeSpare, Refuse, Commit, GiveUp, Judge, Report, Apply, ApplyProgress, ApplyResult, LoseUpdate,
         LoseAnswer, vars, queueVars

\* What JudgeLife sees of a row's status.
Seen == [i \in Items |-> CASE status[i] = "NONE" -> "absent"
                            [] status[i] = "DONE" -> "decided"
                            [] status[i] = "DELETED" -> "gone"
                            [] OTHER -> "open"]

\* Apart from an INSERT, a rejudge and the end of an execution, a step leaves
\* the attempts and the executions as they are.
LEMMA OtherSteps ==
  ASSUME [Next]_vars
  PROVE  \/ \E i \in Items : Insert(i)
         \/ \E T \in SUBSET Submissions : Rejudge(T)
         \/ \E h \in Hosts : Finish(h)
         \/ UNCHANGED <<attempt, executed>>
BY DEF Next, Api, CreateRun, CreateGeneration, CreateCodeRun, Timers, DeadlinePasses,
       FiveMinutesPass, Failures, Dispatch, ExpireCodeRuns, BridgeStep, Select, TakeNew, CountInFlight,
       TakeSpare, Send, Refuse, Commit, GiveUp, Judge, Receive, Report, Abandon, Apply, ApplyProgress,
       ApplyResult, LoseUpdate, LoseAnswer, vars, rowVars, history

\* Every step of the outbox, the queues and the hosts is one of the abstract
\* judgement or changes nothing that it sees.
LEMMA LifeStep ==
  ASSUME IInv, NoneAhead, [Next]_vars
  PROVE  [Life!Next]_(Life!life)
<1>0. TypeOK /\ TypeOK' /\ Life!Rows = Items
  BY TypeStep DEF IInv, Life!Rows, Items
<1>1. ASSUME NEW i \in Items, Insert(i) PROVE Life!Next
  <2>1. /\ Seen[i] = "absent" /\ Seen' = [Seen EXCEPT ![i] = "open"]
        /\ attempt' = [attempt EXCEPT ![i] = 1] /\ UNCHANGED <<result, executed>>
    BY <1>0, <1>1 DEF Insert, Seen, TypeOK, history
  <2>2. Life!Submit(i)
    BY <2>1 DEF Life!Submit, Seen
  <2> QED BY <1>0, <2>2 DEF Life!Next
<1>2. ASSUME NEW T \in SUBSET Submissions, Rejudge(T) PROVE Life!Next
  <2>1. /\ \A i \in T : i \in Items /\ Seen[i] = "decided"
        /\ Seen' = [i \in Items |-> IF i \in T THEN "open" ELSE Seen[i]]
    BY <1>0, <1>2 DEF Rejudge, Seen, TypeOK, Items
  <2>2. Life!Reopen(T)
    BY <2>1, <1>0, <1>2 DEF Life!Reopen, Seen, Rejudge
  <2> QED BY <2>2 DEF Life!Next
<1>3. ASSUME NEW h \in Hosts, Finish(h) PROVE Life!Next
  <2>1. PICK v \in Verdicts : executed' = executed \cup {<<job[h].item, job[h].attempt, v>>}
    BY <1>3 DEF Finish
  <2>2. job[h].item \in Items /\ job[h].attempt \in 1..attempt[job[h].item]
    <3>1. job[h] \in Request /\ job[h].attempt <= attempt[job[h].item]
      BY <1>0, <1>3 DEF Finish, TypeOK, NoneAhead
    <3> QED BY <3>1, <1>0, BoundsAssumption DEF Request, Attempts, TypeOK
  <2>3. Life!Execute(job[h].item, job[h].attempt, v)
    BY <1>3, <2>1, <2>2 DEF Life!Execute, Finish, rowVars
  <2> QED BY <1>0, <2>2, <2>3 DEF Life!Next
<1>4. CASE UNCHANGED <<attempt, executed>>
  <2> DEFINE D == {i \in Items : Ended(i)}
             G == {i \in Items : Removed(i)}
  <2>1. \A i \in Items : Kept(i) \/ Removed(i) \/ Started(i) \/ Ended(i)
    <3>1. \A i \in Items : ~Inserted(i) /\ ~Reopened(i)
      BY <1>0, <1>4, BoundsAssumption DEF Inserted, Reopened, TypeOK, IInv, Issued
    <3> QED BY <3>1, RowStep
  <2>2. /\ \A i \in D : Seen[i] = "open"
        /\ \A i \in G : Seen[i] = "decided"
    BY DEF Seen, Ended, Removed, Pending
  <2>3. Seen' = [i \in Items |-> IF i \in D THEN "decided" ELSE IF i \in G THEN "gone" ELSE Seen[i]]
    <3>1. ASSUME NEW i \in Items
          PROVE  Seen'[i] = IF i \in D THEN "decided" ELSE IF i \in G THEN "gone" ELSE Seen[i]
      BY <2>1 DEF Seen, Kept, Removed, Started, Ended, Pending
    <3> QED BY <3>1 DEF Seen
  <2>4. \A i \in Items : IF i \in D THEN result'[i] \in Life!Decisions(i) ELSE result'[i] = result[i]
    <3> SUFFICES ASSUME NEW i \in Items
                 PROVE  IF i \in D THEN result'[i] \in Life!Decisions(i) ELSE result'[i] = result[i]
      OBVIOUS
    <3>1. CASE i \in D
      <4>1. result'[i] = JE \/ (result'[i] \in Verdicts /\ <<i, attempt[i], result'[i]>> \in executed)
        BY <3>1, <1>0 DEF Ended, TypeOK
      <4> QED BY <3>1, <4>1 DEF Life!Decisions
    <3>2. CASE i \notin D
      BY <3>2, <2>1 DEF Kept, Removed, Started
    <3> QED BY <3>1, <3>2
  <2>5. D \in SUBSET Items /\ G \in SUBSET CodeRuns
    BY DEF Removed
  <2>6. PICK E \in SUBSET Items, F \in SUBSET CodeRuns : E = D /\ F = G
    BY <2>5
  <2> HIDE DEF D, G
  <2>7. Life!Settle(E, F)
    BY <1>0, <1>4, <2>2, <2>3, <2>4, <2>6 DEF Life!Settle, Seen
  <2> QED BY <1>0, <2>7 DEF Life!Next
<1> QED BY <1>1, <1>2, <1>3, <1>4, OtherSteps

\* The outbox, the queues and the hosts keep the promise of JudgeLife: an
\* attempt is decided once, by an execution of that attempt or a judge error,
\* and only a rejudge of a decided solution opens it again.
THEOREM OutboxImplementsLife == Spec => ImplementsLife
<1>1. Init => NoneAhead /\ Life!Init
  <2> SUFFICES ASSUME Init PROVE NoneAhead /\ Life!Init
    OBVIOUS
  <2>1. NoneAhead
    BY DEF Init, NoneAhead
  <2>2. Life!Rows = Items
    BY DEF Life!Rows, Items
  <2>3. Seen = [i \in Items |-> "absent"]
    BY DEF Init, Seen
  <2> QED BY <2>1, <2>2, <2>3 DEF Init, Life!Init, Seen
<1>2. IInv /\ NoneAhead /\ [Next]_vars => NoneAhead' /\ [Life!Next]_(Life!life)
  BY NoneAheadStep, LifeStep
<1> QED BY Invariance, <1>1, <1>2, PTL DEF Spec, ImplementsLife, Life!Spec

-----------------------------------------------------------------------------
(* SpareBound.  An invocation that found spare capacity and has not sent    *)
(* its row yet counts like a row: whoever counts sees fewer rows than       *)
(* spareInFlight, and afterwards an invocation only turns into its row.     *)

Loaded == {i \in Items \ NewSubmissions : Pending(i) /\ dispatched[i]}
Chosen == {b \in Bridges :
  pc[b] = "spare" \/ (pc[b] \in {"send", "sent"} /\ bridgeRow[b] \notin NewSubmissions)}
SpareInv == Cardinality(Loaded) + Cardinality(Chosen) < SpareInFlight + Cardinality(Bridges)

\* A row joins the load only by the commit of its send.
LEMMA LoadedStep ==
  ASSUME IInv, [Next]_vars, NEW i \in Loaded'
  PROVE  i \in Loaded \/ \E b \in Bridges : Commit(b) /\ bridgeRow[b] = i /\ pc[b] = "sent"
<1>1. i \in Items /\ i \notin NewSubmissions' /\ Pending(i)' /\ dispatched'[i]
  BY DEF Loaded, NewSubmissions, Items
<1>2. CASE dispatched[i]
  <2>1. Kept(i) \/ Started(i)
    BY <1>1, <1>2, RowStep DEF Inserted, Reopened, Removed, Ended, Pending, IInv, Issued
  <2> QED BY <1>1, <1>2, <2>1 DEF Kept, Started, Loaded, NewSubmissions, Rejudged, Pending
<1> QED BY <1>1, <1>2, DispatchedStep

\* An invocation joins those that found spare capacity by counting only.
LEMMA ChosenStep ==
  ASSUME IInv, [Next]_vars, NEW b \in Chosen'
  PROVE  b \in Chosen \/ (CountInFlight(b) /\ ~(InFlight >= SpareInFlight))
<1> DEFINE Goal == b \in Chosen \/ (CountInFlight(b) /\ ~(InFlight >= SpareInFlight))
<1>0. /\ TypeOK /\ IInv' /\ b \in Bridges /\ NoItem \notin Items
      /\ pc'[b] = "spare" \/ (pc'[b] \in {"send", "sent"} /\ bridgeRow'[b] \notin NewSubmissions')
  BY TypeStep, IssuedStep, HeldStep, RowStaysStep, SendsStep, ResultStep, AnswersStep, SentIsCarriedStep,
     TablesAssumption DEF IInv, Chosen, NewSubmissions
<1>1. CASE pc'[b] = pc[b] /\ bridgeRow'[b] = bridgeRow[b] /\ bridgeTook'[b] = bridgeTook[b]
  <2>1. CASE pc[b] = "spare"
    <3>1. b \in Chosen
      BY <1>0, <2>1, Zenon DEF Chosen
    <3> QED BY <3>1
  <2>2. CASE pc[b] # "spare"
    <3>1. bridgeRow[b] # NoItem /\ bridgeRow'[b] # NoItem
      BY <1>0, <1>1, <2>2 DEF IInv, Held
    <3>2. attempt'[bridgeRow[b]] = attempt[bridgeRow[b]]
      BY <1>0, <1>1, <3>1 DEF IInv, RowStaysAsRead
    <3> QED BY <1>0, <1>1, <2>2, <3>2 DEF Chosen, NewSubmissions, Rejudged
  <2> QED BY <2>1, <2>2
<1>2. ASSUME NEW c \in Bridges, Dispatch(c) \/ ExpireCodeRuns(c) \/ Commit(c) \/ GiveUp(c) PROVE Goal
  BY <1>0, <1>1, <1>2 DEF Dispatch, ExpireCodeRuns, Commit, GiveUp, TypeOK
<1>3. ASSUME NEW c \in Bridges, NEW m \in answers, ApplyResult(c, m) PROVE Goal
  BY <1>0, <1>1, <1>3 DEF ApplyResult, TypeOK
<1>4. ASSUME NEW c \in Bridges, TakeNew(c) PROVE Goal
  <2>1. Oldest(Free(NewSubmissions)) \subseteq NewSubmissions /\ NewSubmissions' = NewSubmissions
    BY <1>4 DEF TakeNew, Oldest, Free, NewSubmissions, Rejudged, rowVars
  <2> QED BY <2>1, <1>0, <1>1, <1>4 DEF TakeNew, TypeOK
<1>5. ASSUME NEW c \in Bridges, CountInFlight(c) PROVE Goal
  BY <1>0, <1>1, <1>5 DEF CountInFlight, TypeOK
<1>6. ASSUME NEW c \in Bridges, TakeSpare(c) PROVE Goal
  <2>1. c = b => b \in Chosen
    BY <1>0, <1>6, Zenon DEF TakeSpare, Chosen
  <2>2. c # b => pc'[b] = pc[b] /\ bridgeRow'[b] = bridgeRow[b] /\ bridgeTook'[b] = bridgeTook[b]
    BY <1>0, <1>6 DEF TakeSpare, TypeOK
  <2> QED BY <1>1, <2>1, <2>2
<1>7. ASSUME NEW c \in Bridges, Send(c) PROVE Goal
  <2>1. NewSubmissions' = NewSubmissions
    BY <1>7 DEF Send, NewSubmissions, Rejudged, rowVars
  <2> QED BY <2>1, <1>0, <1>1, <1>7 DEF Send, TypeOK, Chosen
<1>8. ASSUME NEW c \in Bridges, Refuse(c) PROVE Goal
  BY <1>0, <1>1, <1>8 DEF Refuse, TypeOK
<1>9. CASE UNCHANGED bridgeVars
  BY <1>1, <1>9 DEF bridgeVars
<1> QED
  BY <1>2, <1>3, <1>4, <1>5, <1>6, <1>7, <1>8, <1>9
     DEF Next, Api, CreateRun, CreateGeneration, CreateCodeRun, Insert, Rejudge, Timers, DeadlinePasses,
         FiveMinutesPass, Failures, BridgeStep, Select, Judge, Receive, Report, Finish, Abandon, Apply,
         ApplyProgress, LoseUpdate, LoseAnswer, vars, bridgeVars

\* All sets that are counted are finite.
LEMMA CountedSets ==
  /\ IsFiniteSet(Loaded) /\ Cardinality(Loaded) \in Nat
  /\ IsFiniteSet(Chosen) /\ Cardinality(Chosen) \in Nat /\ Cardinality(Chosen) <= Cardinality(Bridges)
  /\ Cardinality(Bridges) \in Nat
  /\ InFlight \in Nat /\ Cardinality(Loaded) <= InFlight
<1>1. /\ IsFiniteSet({i \in Items : Pending(i) /\ dispatched[i]})
      /\ Loaded \subseteq {i \in Items : Pending(i) /\ dispatched[i]}
      /\ Chosen \subseteq Bridges
  BY FiniteAssumption, FS_Subset DEF Loaded, Chosen
<1> QED BY <1>1, FiniteAssumption, FS_Subset, FS_CardinalityType DEF InFlight

LEMMA SpareStep == IInv /\ SpareInv /\ [Next]_vars => SpareInv'
<1> SUFFICES ASSUME IInv, SpareInv, [Next]_vars PROVE SpareInv'
  OBVIOUS
<1>0. /\ IsFiniteSet(Loaded) /\ IsFiniteSet(Loaded') /\ IsFiniteSet(Chosen) /\ IsFiniteSet(Chosen')
      /\ Cardinality(Loaded) \in Nat /\ Cardinality(Loaded') \in Nat
      /\ Cardinality(Chosen) \in Nat /\ Cardinality(Chosen') \in Nat
      /\ Cardinality(Bridges) \in Nat /\ Cardinality(Chosen') <= Cardinality(Bridges)
      /\ SpareInFlight \in Nat
  <2>1. IsFiniteSet({i \in Items : Pending(i) /\ dispatched[i]}')
    BY FiniteAssumption, FS_Subset
  <2>2. Loaded' \subseteq Items /\ Chosen' \subseteq Bridges
    BY DEF Loaded, Chosen
  <2> QED BY <2>2, CountedSets, BoundsAssumption, FiniteAssumption, FS_Subset, FS_CardinalityType
<1>1. ASSUME NEW b \in Bridges, CountInFlight(b), ~(InFlight >= SpareInFlight) PROVE SpareInv'
  <2>1. Loaded' = Loaded
    BY <1>1 DEF CountInFlight, Loaded, NewSubmissions, Rejudged, Pending, rowVars
  <2>2. Cardinality(Loaded) < SpareInFlight
    BY <1>0, <1>1, CountedSets
  <2> QED BY <1>0, <2>1, <2>2 DEF SpareInv
<1>2. ASSUME NEW b \in Bridges, Commit(b), pc[b] = "sent", Chosen' \subseteq Chosen PROVE SpareInv'
  <2> DEFINE i == bridgeRow[b]
  <2>1. Loaded' \subseteq Loaded \cup {i}
    <3> SUFFICES ASSUME NEW j \in Loaded', j \notin Loaded PROVE j = i
      OBVIOUS
    <3>1. PICK c \in Bridges : Commit(c) /\ bridgeRow[c] = j /\ pc[c] = "sent"
      BY LoadedStep
    <3>2. c = b
      BY <3>1, <1>2 DEF Commit, IInv, TypeOK
    <3> QED BY <3>1, <3>2
  <2>2. b \notin Chosen'
    BY <1>2 DEF Commit, IInv, TypeOK, Chosen
  <2>3. CASE i \in NewSubmissions
    <3>1. NewSubmissions' = NewSubmissions
      BY <1>2 DEF Commit, NewSubmissions, Rejudged
    <3>2. i \notin Loaded'
      BY <2>3, <3>1 DEF Loaded
    <3>3. Loaded' \subseteq Loaded
      BY <2>1, <3>2
    <3>4. Cardinality(Loaded') <= Cardinality(Loaded) /\ Cardinality(Chosen') <= Cardinality(Chosen)
      BY <1>0, <1>2, <3>3, FS_Subset
    <3> QED BY <1>0, <3>4 DEF SpareInv
  <2>4. CASE i \notin NewSubmissions
    <3>1. b \in Chosen
      BY <1>2, <2>4 DEF Chosen
    <3>2. Cardinality(Loaded') <= Cardinality(Loaded) + 1
      <4> HIDE DEF i
      <4>1. IsFiniteSet(Loaded \cup {i}) /\ Cardinality(Loaded \cup {i}) <= Cardinality(Loaded) + 1
        <5>1. /\ IsFiniteSet(Loaded \cup {i})
              /\ Cardinality(Loaded \cup {i}) = IF i \in Loaded THEN Cardinality(Loaded) ELSE Cardinality(Loaded) + 1
          BY <1>0, FS_AddElement, Zenon
        <5> QED BY <1>0, <5>1
      <4>2. Cardinality(Loaded \cup {i}) \in Nat /\ Cardinality(Loaded') <= Cardinality(Loaded \cup {i})
        BY <2>1, <4>1, FS_Subset, FS_CardinalityType
      <4> QED BY <1>0, <4>1, <4>2
    <3>3. Cardinality(Chosen') <= Cardinality(Chosen) - 1
      <4>1. IsFiniteSet(Chosen \ {b}) /\ Cardinality(Chosen \ {b}) = Cardinality(Chosen) - 1
        BY <1>0, <3>1, FS_RemoveElement
      <4>2. Chosen' \subseteq Chosen \ {b}
        BY <1>2, <2>2
      <4> QED BY <4>1, <4>2, FS_Subset
    <3> QED BY <1>0, <3>2, <3>3 DEF SpareInv
  <2> QED BY <2>3, <2>4
<1>3. ASSUME Loaded' \subseteq Loaded, Chosen' \subseteq Chosen PROVE SpareInv'
  <2>1. Cardinality(Loaded') <= Cardinality(Loaded) /\ Cardinality(Chosen') <= Cardinality(Chosen)
    BY <1>0, <1>3, FS_Subset
  <2> QED BY <1>0, <2>1 DEF SpareInv
<1>4. CASE Chosen' \subseteq Chosen
  <2>1. CASE \E b \in Bridges : Commit(b) /\ pc[b] = "sent"
    BY <1>2, <1>4, <2>1
  <2>2. CASE ~\E b \in Bridges : Commit(b) /\ pc[b] = "sent"
    <3>1. Loaded' \subseteq Loaded
      BY <2>2, LoadedStep
    <3> QED BY <1>3, <1>4, <3>1
  <2> QED BY <2>1, <2>2
<1>5. CASE ~(Chosen' \subseteq Chosen)
  <2>1. PICK b \in Chosen' : CountInFlight(b) /\ ~(InFlight >= SpareInFlight)
    BY <1>5, ChosenStep
  <2>2. b \in Bridges
    BY DEF Chosen
  <2> QED BY <1>1, <2>1, <2>2
<1> QED BY <1>4, <1>5

\* Concurrent invocations count each other's work too low, but the rows sent on
\* spare capacity stay below spareInFlight plus the number of invocations.
THEOREM SpareIsBounded == Spec => []SpareBound
<1>1. Init => SpareInv
  <2> SUFFICES ASSUME Init PROVE SpareInv
    OBVIOUS
  <2>1. Loaded = {} /\ Chosen = {}
    BY DEF Init, Loaded, Chosen
  <2>2. Cardinality(Bridges) \in Nat /\ Cardinality(Bridges) # 0
    BY FiniteAssumption, FS_CardinalityType, FS_EmptySet
  <2> QED BY <2>1, <2>2, FS_EmptySet, BoundsAssumption DEF SpareInv
<1>2. IInv /\ SpareInv /\ [Next]_vars => SpareInv'
  BY SpareStep
<1>3. SpareInv => SpareBound
  BY CountedSets, BoundsAssumption DEF SpareInv, SpareBound, Loaded
<1> QED BY Invariance, <1>1, <1>2, <1>3, PTL DEF Spec

\* Reordered, repeated and delayed progress never moves an attempt back.
THEOREM ProgressNeverGoesBack == Spec => ProgressMovesForward
<1> DEFINE Forward(i) ==
      Pending(i) /\ Pending(i)' /\ attempt'[i] = attempt[i] =>
        /\ status[i] = "RUNNING" => status'[i] = "RUNNING"
        /\ Rank(progress'[i]) >= Rank(progress[i])
<1>1. ASSUME IInv, [Next]_vars, NEW i \in Items PROVE Forward(i)
  <2> SUFFICES ASSUME Pending(i), Pending(i)', attempt'[i] = attempt[i]
               PROVE  /\ status[i] = "RUNNING" => status'[i] = "RUNNING"
                      /\ Rank(progress'[i]) >= Rank(progress[i])
    OBVIOUS
  <2>0. TypeOK /\ Cases \in Nat /\ progress[i] \in Reports \cup {NoProgress}
    BY <1>1, BoundsAssumption DEF IInv, TypeOK
  <2>1. status[i] = "RUNNING" => status'[i] = "RUNNING"
    <3>1. Kept(i) \/ Started(i)
      BY <1>1, <2>0, RowStep DEF Inserted, Reopened, Removed, Ended, Pending, TypeOK
    <3> QED BY <3>1 DEF Kept, Started
  <2>2. Rank(progress[i]) \in Nat
    BY <2>0 DEF Rank, Reports, NoProgress, Preparing, Judging
  <2>3. ASSUME NEW b \in Bridges, NEW m \in updates, ApplyProgress(b, m)
        PROVE  Rank(progress'[i]) >= Rank(progress[i])
    <3>1. CASE progress'[i] = progress[i]
      BY <2>2, <3>1
    <3>2. CASE progress'[i] # progress[i]
      <4>1. progress'[i] = m.progress /\ Advances(progress[i], m.progress)
        BY <2>3, <3>2, <2>0 DEF ApplyProgress, TypeOK
      <4>2. m.progress \in Reports
        BY <2>0 DEF TypeOK, ProgressMessage
      <4>3. Rank(m.progress) \in Nat \ {0}
        BY <4>2, <2>0 DEF Rank, Reports, Preparing, Judging
      <4>4. CASE progress[i] = NoProgress
        BY <4>1, <4>3, <4>4 DEF Rank, NoProgress
      <4>5. CASE progress[i] = Preparing /\ m.progress.phase = "JUDGING"
        BY <4>1, <4>2, <4>5, <2>0 DEF Rank, Reports, Preparing, Judging
      <4>6. CASE progress[i] # NoProgress /\ progress[i] # Preparing
        <5>1. PICK n \in 0..Cases : progress[i] = Judging(n)
          BY <4>6, <2>0 DEF Reports
        <5>2. PICK k \in 0..Cases : m.progress = Judging(k)
          BY <4>1, <4>2, <4>6 DEF Advances, Reports, Preparing
        <5>3. n < k
          BY <4>1, <4>6, <5>1, <5>2 DEF Advances, Judging
        <5> QED BY <4>1, <5>1, <5>2, <5>3 DEF Rank, Judging
      <4> QED BY <4>1, <4>4, <4>5, <4>6 DEF Advances
    <3> QED BY <3>1, <3>2
  <2>4. ASSUME NEW T \in SUBSET Submissions, Rejudge(T) PROVE Rank(progress'[i]) >= Rank(progress[i])
    BY <2>4, <2>0, <2>2 DEF Rejudge, Pending, TypeOK
  <2>5. ASSUME NEW b \in Bridges, NEW m \in answers, ApplyResult(b, m)
        PROVE  Rank(progress'[i]) >= Rank(progress[i])
    BY <2>5, <2>0, <2>2 DEF ApplyResult, FinishAttempt, FinishCodeRun, Pending, TypeOK
  <2>6. ASSUME progress' = progress PROVE Rank(progress'[i]) >= Rank(progress[i])
    BY <2>2, <2>6
  <2>7. Rank(progress'[i]) >= Rank(progress[i])
    BY <1>1, <2>3, <2>4, <2>5, <2>6
       DEF Next, Api, CreateRun, CreateGeneration, CreateCodeRun, Insert, Timers, DeadlinePasses,
           FiveMinutesPass, Failures, Dispatch, ExpireCodeRuns, BridgeStep, Select, TakeNew, CountInFlight,
           TakeSpare, Send, Refuse, Commit, GiveUp, Judge, Receive, Report, Finish, Abandon, Apply,
           LoseUpdate, LoseAnswer, vars, rowVars
  <2> QED BY <2>1, <2>7
<1>2. IInv /\ [Next]_vars => [\A i \in Items : Forward(i)]_vars
  BY <1>1
<1> QED BY Invariance, <1>2, PTL DEF Spec, ProgressMovesForward

=============================================================================
