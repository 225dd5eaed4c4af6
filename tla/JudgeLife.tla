------------------------------ MODULE JudgeLife ------------------------------
(***************************************************************************)
(* What ShareOJ promises about a judgement, without saying how: a row is   *)
(* submitted once, an issued attempt may be executed any number of times,  *)
(* the row is decided once per attempt, by one of the executions of that   *)
(* very attempt or by a judge error, and only a rejudge opens it again,    *)
(* under a fresh attempt.  JudgeOutbox implements it.                      *)
(***************************************************************************)
EXTENDS Naturals

CONSTANTS
  Solutions,   \* rows that may be rejudged
  Authoring,   \* rows that are kept and never rejudged
  Disposable,  \* rows that are deleted some time after their decision
  Verdicts, JE, NoVerdict

Rows == Solutions \cup Authoring \cup Disposable

VARIABLES
  phase,     \* "absent", "open", "decided" or "gone"
  try,       \* the attempt the row is at
  outcome,   \* its verdict once decided
  runs       \* <<row, attempt, verdict>> of all executions so far

life == <<phase, try, outcome, runs>>

Init ==
  /\ phase   = [r \in Rows |-> "absent"]
  /\ try     = [r \in Rows |-> 0]
  /\ outcome = [r \in Rows |-> NoVerdict]
  /\ runs    = {}

Submit(r) ==
  /\ phase[r] = "absent"
  /\ phase' = [phase EXCEPT ![r] = "open"]
  /\ try' = [try EXCEPT ![r] = 1]
  /\ UNCHANGED <<outcome, runs>>

\* Any issued attempt may be executed, once more or too late.
Execute(r, a, v) ==
  /\ a \in 1..try[r]
  /\ runs' = runs \cup {<<r, a, v>>}
  /\ UNCHANGED <<phase, try, outcome>>

\* What an open row may be decided with.
Decisions(r) == {JE} \cup {v \in Verdicts : <<r, try[r], v>> \in runs}

\* Open rows are decided and decided disposable rows removed, in any number.
Settle(D, G) ==
  /\ \A r \in D : phase[r] = "open"
  /\ \A r \in G : phase[r] = "decided"
  /\ phase' = [r \in Rows |-> IF r \in D THEN "decided" ELSE IF r \in G THEN "gone" ELSE phase[r]]
  /\ \A r \in Rows : IF r \in D THEN outcome'[r] \in Decisions(r) ELSE outcome'[r] = outcome[r]
  /\ UNCHANGED <<try, runs>>

Reopen(T) ==
  /\ \A r \in T : phase[r] = "decided"
  /\ phase'   = [r \in Rows |-> IF r \in T THEN "open" ELSE phase[r]]
  /\ try'     = [r \in Rows |-> IF r \in T THEN try[r] + 1 ELSE try[r]]
  /\ outcome' = [r \in Rows |-> IF r \in T THEN NoVerdict ELSE outcome[r]]
  /\ UNCHANGED runs

Next ==
  \/ \E r \in Rows : Submit(r)
  \/ \E r \in Rows, v \in Verdicts : \E a \in 1..try[r] : Execute(r, a, v)
  \/ \E D \in SUBSET Rows, G \in SUBSET Disposable : Settle(D, G)
  \/ \E T \in SUBSET Solutions : Reopen(T)

Spec == Init /\ [][Next]_life

=============================================================================
