---------------------------- MODULE RollingSwitch ---------------------------
(***************************************************************************)
(* The rolling switch of the judge's environment while submissions go on.  *)
(* A controller, started by a person and resumed after a failure from what *)
(* it saved, pauses the bridge, waits until the old hosts have answered,   *)
(* stops them, gives the bridge and the API the new environment, starts    *)
(* the burst host prepared for it, and resumes.  Invocations of the bridge *)
(* and requests of the API keep the configuration they began with, and a   *)
(* row that has not been sent is bound to the new environment on sending.  *)
(*                                                                         *)
(* A row stands for one attempt; receives and progress are JudgeOutbox's.  *)
(***************************************************************************)
EXTENDS Naturals, FiniteSets, Absent

CONSTANTS
  Attempts,         \* rows of submissions and code_runs
  OldHosts, First,  \* the hosts of the old environment, and the burst host prepared with the new one
  Senders,          \* invocations of the bridge at a time
  Creators,         \* requests of the API at a time
  MaxFailedCommits, MaxResumes  \* bounds

Environments == {"old", "new"}
Requests     == [row : Attempts, runtime : Environments, copy : 0..MaxFailedCommits]
Settings     == [runtime : Environments, previous : {None, "old"}, paused : BOOLEAN]
Sending      == [with : Settings, row : Attempts \cup {None}]

ASSUME SwitchAssumption ==
  /\ First \notin OldHosts /\ None \notin Attempts \cup {"old", "new", "JE"} \cup Requests \cup Sending
  /\ MaxFailedCommits \in Nat /\ MaxResumes \in Nat

VARIABLES
  bridge,    \* configuration of the bridge: its environment, the previous one, whether sending is paused
  image,     \* the environment the API records
  sending,   \* of an invocation: the configuration it began with and the row it is sending
  creating,  \* of a request: the environment it began with
  item,     \* of a row: its status, its environment, its verdict; history: whether a commit failed after its send
  queue,     \* request messages
  machine,   \* of a host: its environment, whether it works, the message it holds
  returned,  \* result messages
  step,      \* where the controller is
  saved,     \* what its directory keeps: dispatchPaused, the receipt of switch-stop, digestSwitched, switched
  failedCommits, resumes,
  hurried    \* history: a resumed controller took for granted a pause that was not in force

switchVars == <<bridge, image, sending, creating, item, queue, machine, returned, step, saved, failedCommits, resumes, hurried>>

Machines     == OldHosts \cup {First}
NoEntry      == [status |-> "none", image |-> None, verdict |-> None, resent |-> FALSE]

SwitchInit ==
  /\ bridge = [runtime |-> "old", previous |-> None, paused |-> FALSE]
  /\ image = "old"
  /\ sending = [c \in Senders |-> None] /\ creating = [a \in Creators |-> None]
  /\ item = [i \in Attempts |-> NoEntry]
  /\ queue = {} /\ returned = {}
  /\ machine = [h \in Machines |-> [runtime |-> IF h = First THEN "new" ELSE "old",
                                    state |-> IF h = First THEN "off" ELSE "on", holds |-> None]]
  /\ step = "begin"
  /\ saved = [paused |-> FALSE, stopped |-> FALSE, digest |-> FALSE, switched |-> FALSE]
  /\ failedCommits = 0 /\ resumes = 0 /\ hurried = FALSE

-----------------------------------------------------------------------------
(* The API and the bridge.                                                 *)

\* Row i gets a status, an environment and a verdict.
SetRow(i, status, env, verdict) ==
  item' = [item EXCEPT ![i] = [status |-> status, image |-> env, verdict |-> verdict, resent |-> item[i].resent]]

BeginCreate(a) ==
  /\ creating[a] = None
  /\ creating' = [creating EXCEPT ![a] = image]
  /\ UNCHANGED <<bridge, image, sending, item, queue, machine, returned, step, saved, failedCommits, resumes, hurried>>

Create(a, i) ==
  /\ creating[a] # None /\ item[i].status = "none"
  /\ SetRow(i, "waiting", creating[a], None)
  /\ creating' = [creating EXCEPT ![a] = None]
  /\ UNCHANGED <<bridge, image, sending, queue, machine, returned, step, saved, failedCommits, resumes, hurried>>

\* dispatch and results both send; a paused invocation sends nothing.
BeginSending(c) ==
  /\ sending[c] = None /\ ~bridge.paused
  /\ sending' = [sending EXCEPT ![c] = [with |-> bridge, row |-> None]]
  /\ UNCHANGED <<bridge, image, creating, item, queue, machine, returned, step, saved, failedCommits, resumes, hurried>>

HeldBy(c) == IF sending[c] = None THEN None ELSE sending[c].row
Unheld(i) == \A c \in Senders : HeldBy(c) # i

\* The environment that row i has once configuration f has taken it.
Rebound_never(f, i) == item[i].image \* mutation: a waiting row keeps its environment
Rebound(f, i) == IF f.previous # None /\ item[i].image = f.previous THEN f.runtime ELSE item[i].image

SendRow(c, i) ==
  LET f == sending[c].with IN
  /\ sending[c] # None /\ sending[c].row = None
  /\ item[i].status = "waiting" /\ Unheld(i)
  /\ IF Rebound(f, i) = f.runtime
     THEN /\ sending' = [sending EXCEPT ![c] = [with |-> f, row |-> i]]
          /\ queue' = queue \cup {[row |-> i, runtime |-> f.runtime, copy |-> failedCommits]}
          /\ item' = item
     ELSE /\ SetRow(i, "done", item[i].image, "JE")
          /\ UNCHANGED <<sending, queue>>
  /\ UNCHANGED <<bridge, image, creating, machine, returned, step, saved, failedCommits, resumes, hurried>>

CommitRow(c) ==
  /\ HeldBy(c) # None
  /\ LET i == sending[c].row IN SetRow(i, "sent", sending[c].with.runtime, item[i].verdict)
  /\ sending' = [sending EXCEPT ![c] = [with |-> sending[c].with, row |-> None]]
  /\ UNCHANGED <<bridge, image, creating, queue, machine, returned, step, saved, failedCommits, resumes, hurried>>

\* Nothing is left to send, or an error, timeout or crash, which rolls the transaction back.
EndSending(c) ==
  /\ sending[c] # None
  /\ IF HeldBy(c) = None THEN UNCHANGED <<item, failedCommits>>
     ELSE /\ failedCommits < MaxFailedCommits
          /\ failedCommits' = failedCommits + 1
          /\ LET i == sending[c].row IN
             item' = [item EXCEPT ![i] = [status |-> item[i].status, image |-> item[i].image,
                                          verdict |-> item[i].verdict, resent |-> TRUE]]
  /\ sending' = [sending EXCEPT ![c] = None]
  /\ UNCHANGED <<bridge, image, creating, queue, machine, returned, step, saved, resumes, hurried>>

\* FinishAttempt looks at the attempt and the status, not at the environment.
StoreResult(x) ==
  /\ x \in returned /\ Unheld(x.row)
  /\ returned' = returned \ {x}
  /\ IF item[x.row].status = "done" THEN item' = item ELSE SetRow(x.row, "done", item[x.row].image, x.runtime)
  /\ UNCHANGED <<bridge, image, sending, creating, queue, machine, step, saved, failedCommits, resumes, hurried>>

-----------------------------------------------------------------------------
(* Hosts.                                                                  *)

\* A job of another environment goes back to the queue, and the worker stops for good.
ReceiveRequest(h, q) ==
  /\ machine[h].state = "on" /\ machine[h].holds = None /\ q \in queue
  /\ IF q.runtime = machine[h].runtime
     THEN queue' = queue \ {q} /\ machine' = [machine EXCEPT ![h].holds = q]
     ELSE queue' = queue /\ machine' = [machine EXCEPT ![h].state = "mismatch"]
  /\ UNCHANGED <<bridge, image, sending, creating, item, returned, step, saved, failedCommits, resumes, hurried>>

\* The result is sent, and the request is deleted unless that fails.
AnswerRequest(h) ==
  /\ machine[h].holds # None
  /\ returned' = returned \cup {[row |-> machine[h].holds.row, runtime |-> machine[h].runtime]}
  /\ queue' \in {queue, queue \cup {machine[h].holds}}
  /\ machine' = [machine EXCEPT ![h].holds = None]
  /\ UNCHANGED <<bridge, image, sending, creating, item, step, saved, failedCommits, resumes, hurried>>

-----------------------------------------------------------------------------
(* The controller.                                                         *)

\* wait_requests_idle: every dispatched row is done and no message waits or is being worked on.
RequestsIdle_rows == \A i \in Attempts : item[i].status # "sent" \* mutation: the queue is not looked at
RequestsIdle ==
  /\ \A i \in Attempts : item[i].status # "sent"
  /\ queue = {} /\ \A h \in Machines : machine[h].holds = None
NothingSending == \A c \in Senders : sending[c] = None

Controls == UNCHANGED <<sending, creating, item, returned, failedCommits>>
Configured(f) == bridge' = f /\ UNCHANGED <<image, queue, machine>>

StartSwitch ==
  /\ step = "begin"
  /\ step' = IF saved.switched THEN "rest" ELSE IF saved.digest THEN "start" ELSE IF saved.paused THEN "drain" ELSE "pause"
  /\ hurried' = (hurried \/ (step' = "drain" /\ ~(bridge.paused /\ NothingSending)))
  /\ Configured(bridge) /\ Controls /\ UNCHANGED <<saved, resumes>>

\* set_dispatch changes the configuration, then the checkpoint.
Pause ==
  \/ /\ step = "pause" /\ step' = "paused"
     /\ Configured([bridge EXCEPT !.paused = TRUE]) /\ Controls /\ UNCHANGED <<saved, resumes, hurried>>
  \/ /\ step = "paused" /\ step' = "sleep"
     /\ saved' = [saved EXCEPT !.paused = TRUE]
     /\ Configured(bridge) /\ Controls /\ UNCHANGED <<resumes, hurried>>

\* time.sleep(bridge['Timeout'] + 5): every invocation that began before the pause has ended.
Slept_never == TRUE \* mutation: no sleep
Slept == NothingSending
Sleep ==
  /\ step = "sleep" /\ Slept /\ step' = "drain"
  /\ Configured(bridge) /\ Controls /\ UNCHANGED <<saved, resumes, hurried>>

Drain ==
  /\ step = "drain" /\ (saved.stopped \/ RequestsIdle) /\ step' = "stop"
  /\ saved' = [saved EXCEPT !.stopped = TRUE]
  /\ Configured(bridge) /\ Controls /\ UNCHANGED <<resumes, hurried>>

\* The wait times out: dispatch resumes and the error ends the controller.
DrainTimesOut ==
  \/ /\ step = "drain" /\ ~saved.stopped /\ ~RequestsIdle /\ step' = "undo"
     /\ Configured([bridge EXCEPT !.paused = FALSE]) /\ Controls /\ UNCHANGED <<saved, resumes, hurried>>
  \/ /\ step = "undo" /\ step' = "down"
     /\ saved' = [saved EXCEPT !.paused = FALSE]
     /\ Configured(bridge) /\ Controls /\ UNCHANGED <<resumes, hurried>>

\* Stopped workers return the jobs they hold.
StopOld ==
  /\ step = "stop" /\ step' = "idle"
  /\ queue' = queue \cup {machine[h].holds : h \in {g \in OldHosts : machine[g].holds # None}}
  /\ machine' = [h \in Machines |-> IF h \in OldHosts THEN [runtime |-> machine[h].runtime, state |-> "off", holds |-> None] ELSE machine[h]]
  /\ Controls /\ UNCHANGED <<bridge, image, saved, resumes, hurried>>

SwitchBridge ==
  /\ step = "idle" /\ RequestsIdle
  /\ step' = IF bridge.paused THEN "api" ELSE "down"
  /\ Configured([bridge EXCEPT !.runtime = "new", !.previous = "old"]) /\ Controls /\ UNCHANGED <<saved, resumes, hurried>>

SwitchAPI ==
  \/ /\ step = "api" /\ step' = "switched"
     /\ image' = "new"
     /\ Controls /\ UNCHANGED <<bridge, queue, machine, saved, resumes, hurried>>
  \/ /\ step = "switched" /\ step' = "start"
     /\ saved' = [saved EXCEPT !.digest = TRUE]
     /\ Configured(bridge) /\ Controls /\ UNCHANGED <<resumes, hurried>>

Started(H) == machine' = [h \in Machines |-> IF h \in H THEN [runtime |-> "new", state |-> "on", holds |-> machine[h].holds] ELSE machine[h]]

\* A resumed controller finds the report of a host that it has started and leaves the host alone.
StartFirst ==
  /\ step = "start" /\ step' = "resume"
  /\ Started({First} \cap {h \in Machines : machine[h].state = "off"})
  /\ Controls /\ UNCHANGED <<bridge, image, queue, saved, resumes, hurried>>

ResumeDispatch ==
  \/ /\ step = "resume" /\ step' = "resumed"
     /\ Configured([bridge EXCEPT !.paused = FALSE]) /\ Controls /\ UNCHANGED <<saved, resumes, hurried>>
  \/ /\ step = "resumed" /\ step' = "smoke"
     /\ saved' = [saved EXCEPT !.paused = FALSE]
     /\ Configured(bridge) /\ Controls /\ UNCHANGED <<resumes, hurried>>

\* sync_settings and api_smoke have passed.
Smoked ==
  /\ step = "smoke" /\ step' = "rest"
  /\ saved' = [saved EXCEPT !.switched = TRUE]
  /\ Configured(bridge) /\ Controls /\ UNCHANGED <<resumes, hurried>>

StartRest ==
  /\ step = "rest" /\ step' = "end"
  /\ Started(OldHosts)
  /\ Controls /\ UNCHANGED <<bridge, image, queue, saved, resumes, hurried>>

\* Any call of the controller may fail; a person starts it again.
ControllerFails ==
  /\ step \notin {"begin", "down", "end"} /\ step' = "down"
  /\ Configured(bridge) /\ Controls /\ UNCHANGED <<saved, resumes, hurried>>
ResumeController ==
  /\ step = "down" /\ resumes < MaxResumes /\ step' = "begin"
  /\ resumes' = resumes + 1
  /\ Configured(bridge) /\ Controls /\ UNCHANGED <<saved, hurried>>

SwitchNext ==
  \/ \E a \in Creators : BeginCreate(a) \/ \E i \in Attempts : Create(a, i)
  \/ \E c \in Senders : BeginSending(c) \/ CommitRow(c) \/ EndSending(c) \/ \E i \in Attempts : SendRow(c, i)
  \/ \E x \in returned : StoreResult(x)
  \/ \E h \in Machines : AnswerRequest(h) \/ \E q \in queue : ReceiveRequest(h, q)
  \/ StartSwitch \/ Pause \/ Sleep \/ Drain \/ DrainTimesOut \/ StopOld \/ SwitchBridge \/ SwitchAPI
  \/ StartFirst \/ ResumeDispatch \/ Smoked \/ StartRest \/ ControllerFails \/ ResumeController
SwitchSpec == SwitchInit /\ [][SwitchNext]_switchVars

-----------------------------------------------------------------------------
SwitchTypeOK ==
  /\ bridge \in Settings /\ image \in Environments
  /\ sending \in [Senders -> {None} \cup Sending]
  /\ creating \in [Creators -> Environments \cup {None}]
  /\ item \in [Attempts -> [status : {"none", "waiting", "sent", "done"}, image : Environments \cup {None},
                             verdict : Environments \cup {"JE", None}, resent : BOOLEAN]]
  /\ queue \subseteq Requests /\ returned \subseteq [row : Attempts, runtime : Environments]
  /\ machine \in [Machines -> [runtime : Environments, state : {"on", "off", "mismatch"}, holds : {None} \cup Requests]]
  /\ step \in {"begin", "pause", "paused", "sleep", "drain", "undo", "stop", "idle", "api", "switched", "start",
               "resume", "resumed", "smoke", "rest", "end", "down"}
  /\ saved \in [paused : BOOLEAN, stopped : BOOLEAN, digest : BOOLEAN, switched : BOOLEAN]
  /\ failedCommits \in 0..MaxFailedCommits /\ resumes \in 0..MaxResumes /\ hurried \in BOOLEAN

\* A switch, however often it fails and is resumed, ends no submission as a judge
\* error, brings no host a job of another environment, and every verdict comes from
\* the environment its row names (set_dispatch, the sleep, wait_requests_idle and
\* the rebinding), but for rows whose send was not committed, and unless a resumed
\* controller relied on a pause that was not in force.
OneEnvironment ==
  hurried \/ /\ \A h \in Machines : machine[h].state # "mismatch"
             /\ \A i \in Attempts :
                  /\ item[i].verdict # "JE"
                  /\ item[i].verdict \in Environments => (item[i].verdict = item[i].image \/ item[i].resent)

=============================================================================
