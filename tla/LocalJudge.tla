----------------------------- MODULE LocalJudge -----------------------------
(***************************************************************************)
(* The local judge worker: it polls the database instead of a queue.  A    *)
(* local submission has no attempt id; what keeps a late result from       *)
(* ending a later claim is time alone.                                     *)
(*                                                                         *)
(* Every SQL statement is one action.  Overtime stands for what a claim    *)
(* may take beside JudgeTimeout: the rest of Claim, the removal of the     *)
(* container and ten seconds for Finish.                                   *)
(***************************************************************************)
EXTENDS Integers, Sequences, FiniteSets, SequencesExt, Absent

CONSTANTS
  LocalRows,     \* submissions of a local runtime
  LocalRuns,     \* code runs of a local runtime
  Workers,       \* judge-worker processes
  JudgeTimeout,  \* an hour
  Minute,        \* what Claim adds to it before it gives a claim up
  Overtime,      \* see above
  MaxAge,        \* bound of the clock
  MaxClaims      \* bound: claims of one submission

ASSUME LocalAssumption ==
  /\ {JudgeTimeout, Minute, Overtime, MaxAge, MaxClaims} \subseteq Nat
  /\ Overtime <= Minute
  /\ LocalRows \cap LocalRuns = {} /\ None \notin Nat

VARIABLES
  age,       \* clock_timestamp()
  fresh,     \* QUEUED submissions that were never rejudged, by created_at
  again,     \* QUEUED submissions by rejudged_at
  codes,     \* QUEUED code runs by created_at
  running,   \* RUNNING rows: started_at, None for any other row
  ended,     \* DONE rows: whose result it is (a claim), 0 for the JE of an expired one, None
  claims,    \* history: how often a row was claimed
  worker     \* of each worker: its step, and the row, the claim and the time of it

localVars == <<age, fresh, again, codes, running, ended, claims, worker>>

Items  == LocalRows \cup LocalRuns
Polls  == [pc |-> "expire"]
Stays(w, step) == worker' = [worker EXCEPT ![w] = step]

LocalInit ==
  /\ age = 0
  /\ fresh = <<>> /\ again = <<>> /\ codes = <<>>
  /\ running = [i \in Items |-> None]
  /\ ended = [i \in Items |-> None]
  /\ claims = [i \in Items |-> 0]
  /\ worker = [w \in Workers |-> Polls]

-----------------------------------------------------------------------------
(* The API.                                                                *)

Queued(i) == i \in ToSet(fresh) \cup ToSet(again) \cup ToSet(codes)
SubmitLocal(i) ==
  /\ claims[i] = 0 /\ ~Queued(i)
  /\ IF i \in LocalRuns THEN codes' = Append(codes, i) /\ UNCHANGED fresh
     ELSE fresh' = Append(fresh, i) /\ UNCHANGED codes
  /\ UNCHANGED <<age, again, running, ended, claims, worker>>

\* Only finished submissions go back to the queue.
Rejudgeable_running(i) == ended[i] # None \/ running[i] # None \* mutation: a running one is requeued as well
Rejudgeable(i) == ended[i] # None
RejudgeLocal(i) ==
  /\ i \in LocalRows
  /\ Rejudgeable(i) /\ claims[i] < MaxClaims
  /\ again' = Append(again, i)
  /\ running' = [running EXCEPT ![i] = None]
  /\ ended' = [ended EXCEPT ![i] = None]
  /\ UNCHANGED <<age, fresh, codes, claims, worker>>

-----------------------------------------------------------------------------
(* Claim, and ClaimCodeRun when there is no submission.                    *)

Overdue_hour(i) == running[i] < age - JudgeTimeout \* mutation: without the extra minute
Overdue(i) == running[i] < age - (JudgeTimeout + Minute)
Expire(w) ==
  LET overdue == {i \in LocalRows : running[i] # None /\ Overdue(i)} IN
  /\ worker[w].pc = "expire"
  /\ running' = [i \in Items |-> IF i \in overdue THEN None ELSE running[i]]
  /\ ended' = [i \in Items |-> IF i \in overdue THEN 0 ELSE ended[i]]
  /\ Stays(w, [pc |-> "claim"])
  /\ UNCHANGED <<age, fresh, again, codes, claims>>

Start(w, i) ==
  /\ running' = [running EXCEPT ![i] = age]
  /\ claims' = [claims EXCEPT ![i] = @ + 1]
  /\ Stays(w, [pc |-> "judge", item |-> i, claim |-> claims[i] + 1, since |-> age])

Claim(w) ==
  /\ worker[w].pc = "claim"
  /\ \/ fresh # <<>> /\ Start(w, Head(fresh)) /\ fresh' = Tail(fresh) /\ UNCHANGED again
     \/ fresh = <<>> /\ again # <<>> /\ Start(w, Head(again)) /\ again' = Tail(again) /\ UNCHANGED fresh
     \/ /\ fresh = <<>> /\ again = <<>> /\ Stays(w, [pc |-> "claimCode"])
        /\ UNCHANGED <<fresh, again, running, claims>>
  /\ UNCHANGED <<age, codes, ended>>

ClaimCodeRun(w) ==
  /\ worker[w].pc = "claimCode"
  /\ IF codes # <<>> THEN Start(w, Head(codes)) /\ codes' = Tail(codes)
     ELSE Stays(w, Polls) /\ UNCHANGED <<codes, running, claims>>
  /\ UNCHANGED <<age, fresh, again, ended>>

-----------------------------------------------------------------------------
(* Judging and saving.                                                     *)

\* Finish with an empty attempt ends whatever claim is running now.
FinishLocal(w) ==
  LET i == worker[w].item IN
  /\ worker[w].pc = "judge"
  /\ IF running[i] # None THEN running' = [running EXCEPT ![i] = None] /\ ended' = [ended EXCEPT ![i] = worker[w].claim]
     ELSE UNCHANGED <<running, ended>>
  /\ Stays(w, Polls)
  /\ UNCHANGED <<age, fresh, again, codes, claims>>

\* The process ends, the row cannot be read after the claim, or the result cannot be saved.
Drop(w) ==
  /\ worker[w].pc = "judge"
  /\ Stays(w, Polls)
  /\ UNCHANGED <<age, fresh, again, codes, running, ended, claims>>

\* The deadlines of the context and of Finish end every claim.
Passes ==
  /\ age < MaxAge
  /\ \A w \in Workers : worker[w].pc = "judge" => age < worker[w].since + JudgeTimeout + Overtime
  /\ age' = age + 1
  /\ UNCHANGED <<fresh, again, codes, running, ended, claims, worker>>

LocalNext ==
  \/ Passes
  \/ \E i \in Items : SubmitLocal(i) \/ RejudgeLocal(i)
  \/ \E w \in Workers : Expire(w) \/ Claim(w) \/ ClaimCodeRun(w) \/ FinishLocal(w) \/ Drop(w)

LocalSpec == LocalInit /\ [][LocalNext]_localVars

-----------------------------------------------------------------------------
LocalTypeOK ==
  /\ age \in 0..MaxAge
  /\ fresh \in Seq(LocalRows) /\ again \in Seq(LocalRows) /\ codes \in Seq(LocalRuns)
  /\ \A i \in Items : /\ running[i] \in 0..MaxAge \cup {None} /\ ended[i] \in Nat \cup {None} /\ claims[i] \in Nat
                      /\ Cardinality({b \in {"queued", "running", "ended"} :
                           \/ b = "queued" /\ Queued(i)
                           \/ b = "running" /\ running[i] # None
                           \/ b = "ended" /\ ended[i] # None}) <= 1
  /\ \A w \in Workers : worker[w].pc \in {"expire", "claim", "claimCode", "judge"}

\* A result is stored for the claim that produced it, never for a later one of the same row,
\* and two workers never judge one row at a time, although results carry no attempt.
ResultOfThisClaim == \A i \in Items :
  /\ ended[i] \notin {None, 0} => ended[i] = claims[i]
  /\ \A v, w \in Workers : v # w /\ worker[v].pc = "judge" /\ worker[w].pc = "judge" => worker[v].item # worker[w].item

=============================================================================
