------------------------------- MODULE Limits -------------------------------
(***************************************************************************)
(* How often an account may run code and create content, and how often an  *)
(* address or a network may ask for a confirmation email.                  *)
(*                                                                         *)
(* Several API instances serve calls side by side on one database at READ  *)
(* COMMITTED.  Runs are counted over the rows of the last minute under a    *)
(* lock of the account; creations and registrations draw from slots that   *)
(* come back one by one, stored as the time at which all are back.          *)
(***************************************************************************)
EXTENDS Integers, Sequences, FiniteSets, SequencesExt, FiniteSetsExt, Functions, Absent

CONSTANTS
  Callers,    \* API requests that may be open at a time
  Window,     \* the 60 s over which runs are counted
  RunLimit,   \* of each kind of run: 2 submissions, 3 of the others
  Burst,      \* of each slotted subject: 20 creations, 20 of a network, 3 of an address
  Every,      \* of each slotted subject: the time after which a slot is back
  Demands,    \* bound: of each behaviour, what may be asked for, each a
              \* sequence of subjects, and how many calls there are
  Timeout,    \* how long a call may last: 5 s for a registration
  MaxTime     \* bound of the clock

Kinds    == DOMAIN RunLimit
Slotted  == DOMAIN Burst
Subjects == Kinds \cup Slotted

ASSUME LimitAssumption == /\ {Window, Timeout, MaxTime} \subseteq Nat
                          /\ \A k \in Kinds : RunLimit[k] \in Nat \ {0}
                          /\ \A s \in Slotted : Burst[s] \in Nat \ {0} /\ Every[s] \in Nat /\ Every[s] > Timeout
                          /\ Kinds \cap Slotted = {}
\* A call asks for one subject, or for a network and an address.
ASSUME DemandAssumption == \A d \in Demands :
  /\ d.most \in Nat
  /\ \A a \in d.asks : (\E s \in Subjects : a = <<s>>) \/ (\E n, e \in Slotted : n # e /\ a = <<n, e>>)
ASSUME NoRowAssumption == None \notin Nat

VARIABLES
  demand,   \* what this behaviour asks for
  seconds,  \* clock_timestamp()
  served,   \* calls so far
  rows,     \* submissions and code_runs of one account: created_at in order of commit, by kind
  fullAt,   \* creation_quotas and registration_quotas: full_at by subject, None without a row
  calls,    \* the open calls
  charged,  \* history: by subject the charges that were committed: what for, and from when to when their statement ran
  promise   \* history: the last Retry-After, until when, and what had been charged by then

limitVars == <<demand, seconds, served, rows, fullAt, calls, charged, promise>>

Idle == [pc |-> "idle"]
Latest(S) == Max(S)

LimitsInit ==
  /\ demand \in Demands
  /\ seconds = 0
  /\ served = 0
  /\ rows = [k \in Kinds |-> <<>>]
  /\ fullAt = [s \in Slotted |-> None]
  /\ calls = [c \in Callers |-> Idle]
  /\ charged = [s \in Slotted |-> <<>>]
  /\ promise = None

-----------------------------------------------------------------------------
(* Runs: submissions, sample checks, authoring runs and code runs.         *)

Step(c, next) == calls' = [calls EXCEPT ![c] = next]
OnlyCalls     == UNCHANGED <<demand, seconds, served, rows, fullAt, charged, promise>>

\* A call arrives; began is the start of its transaction.
New(c, call) ==
  /\ calls[c] = Idle
  /\ served < demand.most
  /\ served' = served + 1
  /\ Step(c, call)
AskRun(c, k) ==
  /\ New(c, [pc |-> "lock", kind |-> k, began |-> seconds])
  /\ UNCHANGED <<demand, seconds, rows, fullAt, charged, promise>>

\* pg_advisory_xact_lock of the account: one call of any kind at a time.
Locked_never(c) == FALSE \* mutation: the lock is not taken
Locked(c) == \E d \in Callers \ {c} : calls[d].pc \in {"count", "insert"}
Lock(c) ==
  /\ calls[c].pc = "lock"
  /\ ~Locked(c)
  /\ Step(c, [calls[c] EXCEPT !.pc = "count"])
  /\ OnlyCalls

\* The row whose age decides: the limit-th most recent one of the same kind.
Room(k, at) ==
  \/ Len(rows[k]) < RunLimit[k]
  \/ rows[k][Len(rows[k]) + 1 - RunLimit[k]] <= at - Window
Seen(s) == IF s \in Kinds THEN Len(rows[s]) ELSE Len(charged[s])
Refuse(seen, wait) == promise' = [until |-> seconds + wait, seen |-> seen]
Count(c) ==
  LET k == calls[c].kind IN
  /\ calls[c].pc = "count"
  /\ IF Room(k, seconds) THEN Step(c, [calls[c] EXCEPT !.pc = "insert"]) /\ UNCHANGED promise
     ELSE /\ Refuse([s \in {k} |-> Seen(s)], rows[k][Len(rows[k]) + 1 - RunLimit[k]] + Window - seconds)
          /\ Step(c, Idle)
  /\ UNCHANGED <<demand, seconds, served, rows, fullAt, charged>>

\* created_at is the clock at the insertion, not the start of the transaction.
CreatedAt_begin(c) == calls[c].began \* mutation: now()
CreatedAt(c) == seconds
Insert(c) ==
  LET k == calls[c].kind IN
  /\ calls[c].pc = "insert"
  /\ rows' = [rows EXCEPT ![k] = Append(@, CreatedAt(c))]
  /\ Step(c, Idle)
  /\ UNCHANGED <<demand, seconds, served, fullAt, charged, promise>>

-----------------------------------------------------------------------------
(* Creations (one subject) and registrations (a network, then an address). *)

\* A statement locks the row it meets, the refused one as well.
Holds(d)   == IF "seen" \in DOMAIN calls[d] THEN DOMAIN calls[d].seen ELSE {}
Free(s, c) == \A d \in Callers \ {c} : s \notin Holds(d)

\* Before a registration, rows whose slots are all back are deleted; a locked row is skipped.
Expired_soon(s) == fullAt[s] # None /\ fullAt[s] <= seconds + Every[s] \* mutation: a slot is still missing
Expired(s) == fullAt[s] # None /\ fullAt[s] <= seconds
AskSlots(c, subjects) ==
  /\ New(c, [pc |-> "slot", asked |-> subjects, i |-> 1, at |-> 0, mine |-> <<>>, limited |-> 0, seen |-> <<>>, began |-> seconds])
  /\ fullAt' = IF Len(subjects) = 1 THEN fullAt
               ELSE [s \in Slotted |-> IF Free(s, c) /\ Expired(s) THEN None ELSE fullAt[s]]
  /\ UNCHANGED <<demand, seconds, rows, charged, promise>>

\* The statement that takes a slot begins, and may wait for the row.
Ask(c) ==
  /\ calls[c].pc = "slot"
  /\ calls[c].i <= Len(calls[c].asked)
  /\ Step(c, [calls[c] EXCEPT !.pc = "charge", !.at = seconds])
  /\ OnlyCalls

\* What a call notes of a subject.
Noting(f, s, x) == [t \in DOMAIN f \cup {s} |-> IF t = s THEN x ELSE f[t]]

\* INSERT ... ON CONFLICT DO UPDATE ... WHERE: what full_at becomes, judged by the row
\* that the statement finds when it no longer waits and the time at which it began.
HasSlot_extra(s, at) == fullAt[s] = None \/ fullAt[s] <= at + Burst[s] * Every[s] \* mutation: one too many
HasSlot(s, at) == fullAt[s] = None \/ fullAt[s] <= at + (Burst[s] - 1) * Every[s]
Drawn_restart(s, at) == at + Every[s] \* mutation: the slots still missing are forgotten
Drawn(s, at) == (IF fullAt[s] = None THEN at ELSE Latest({fullAt[s], at})) + Every[s]
RetryAfter(s) == Latest({1, fullAt[s] - (Burst[s] - 1) * Every[s] - seconds})

Charge(c) ==
  LET call == calls[c]
      s    == call.asked[call.i]
      next == [call EXCEPT !.pc = "slot", !.i = @ + 1, !.seen = Noting(@, s, Seen(s))] IN
  /\ call.pc = "charge"
  /\ Free(s, c)
  /\ Step(c, IF HasSlot(s, call.at)
             THEN [next EXCEPT !.mine = Noting(@, s, [by |-> call.asked, full |-> Drawn(s, call.at),
                                                   from |-> call.at, to |-> seconds])]
             ELSE [next EXCEPT !.limited = Latest({@, RetryAfter(s)})])
  /\ OnlyCalls

\* Every subject has been asked.  Nothing is charged when one had no slot left.
Charges_each(c) == DOMAIN calls[c].mine \* mutation: one subject is charged although the other is exhausted
Charges(c) == IF calls[c].limited = 0 THEN DOMAIN calls[c].mine ELSE {}
Close(c) ==
  LET call == calls[c] IN
  /\ call.pc = "slot"
  /\ call.i > Len(call.asked)
  /\ fullAt' = [s \in Slotted |-> IF s \in Charges(c) THEN call.mine[s].full ELSE fullAt[s]]
  /\ charged' = [s \in Slotted |-> IF s \in Charges(c) THEN Append(charged[s], call.mine[s]) ELSE charged[s]]
  /\ Step(c, Idle)
  /\ IF call.limited = 0 THEN UNCHANGED promise ELSE Refuse(call.seen, call.limited)
  /\ UNCHANGED <<demand, seconds, served, rows>>

\* A creation conflicts, a statement fails or the instance ends: the transaction is rolled back.
Fail(c) ==
  /\ calls[c] # Idle
  /\ Step(c, Idle)
  /\ OnlyCalls

Second ==
  /\ seconds < MaxTime
  /\ \A c \in Callers : calls[c].pc \notin {"idle"} => seconds < calls[c].began + Timeout
  /\ seconds' = seconds + 1
  /\ UNCHANGED <<demand, served, rows, fullAt, calls, charged, promise>>

Serve(c) ==
  \/ \E k \in Kinds : <<k>> \in demand.asks /\ AskRun(c, k)
  \/ \E subjects \in demand.asks : subjects[1] \in Slotted /\ AskSlots(c, subjects)
  \/ Lock(c) \/ Count(c) \/ Insert(c)
  \/ Ask(c) \/ Charge(c) \/ Close(c) \/ Fail(c)
LimitsNext == Second \/ \E c \in Callers : Serve(c)

LimitsSpec == LimitsInit /\ [][LimitsNext]_limitVars

-----------------------------------------------------------------------------
LimitsTypeOK ==
  /\ demand \in Demands /\ seconds \in 0..MaxTime /\ served \in 0..demand.most
  /\ \A k \in Kinds : rows[k] \in Seq(0..MaxTime)
  /\ \A s \in Slotted : /\ fullAt[s] = None \/ fullAt[s] \in 1..(MaxTime + Burst[s] * Every[s])
                        /\ \A i \in DOMAIN charged[s] : charged[s][i].from <= charged[s][i].to
  /\ \A c \in Callers : calls[c].pc \in {"idle", "lock", "count", "insert", "slot", "charge"}

\* No minute holds more runs of one kind than its limit, and no stretch of time more charges than
\* a burst and the slots that came back in it, however the calls of the API instances interleave.
RunsWithin == \A k \in Kinds : \A i \in DOMAIN rows[k] :
  i + RunLimit[k] \in DOMAIN rows[k] => rows[k][i + RunLimit[k]] - rows[k][i] >= Window
ChargesWithin == \A s \in Slotted : \A i, j \in DOMAIN charged[s] :
  i < j => (j - i + 1 - Burst[s]) * (Every[s] - Timeout) <= Latest({0, charged[s][j].to - charged[s][i].from})

\* A network is charged as often for an address as the address is for the network: never one without the other.
ChargesBy(s, asked) == {i \in DOMAIN charged[s] : charged[s][i].by = asked}
ChargedTogether == \A pair \in {asked \in demand.asks : Len(asked) = 2} :
  Cardinality(ChargesBy(pair[1], pair)) = Cardinality(ChargesBy(pair[2], pair))

\* Retry-After is the truth: at that time a call that meets nobody new is not refused.
RetryAfterHolds ==
  promise # None /\ seconds >= promise.until =>
    \A s \in DOMAIN promise.seen :
      (\A t \in DOMAIN promise.seen : Seen(t) = promise.seen[t])
        => IF s \in Kinds THEN Room(s, seconds) ELSE HasSlot(s, seconds)

WithinLimits == RunsWithin /\ ChargesWithin /\ ChargedTogether /\ RetryAfterHolds

=============================================================================
