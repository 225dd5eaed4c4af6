--------------------------- MODULE Service_proofs ---------------------------
(***************************************************************************)
(* What holds of a part holds of Service: a behaviour of Service moves one *)
(* part by its own steps and leaves the others as they are.                *)
(*                                                                         *)
(* The parts without a proof module of their own come first: the claims of *)
(* the local judge worker, test files, scoring and the rolling switch.     *)
(***************************************************************************)
EXTENDS Service, Limits_proofs, HostPool_proofs, FiniteSetTheorems, WellFoundedInduction, TLAPS

-----------------------------------------------------------------------------
(***************************************************************************)
(* Theorems about the local judge worker, for every number of workers and  *)
(* rows and every deadline: time alone keeps a late result from ending a   *)
(* later claim.  LocalIInv is the inductive invariant they rest on.        *)
(***************************************************************************)

Steps  == [pc : {"expire", "claim", "claimCode"}]
Claims == [pc : {"judge"}, item : Items, claim : Nat, since : Nat]

LocalTypes ==
  /\ age \in Nat
  /\ fresh \in Seq(LocalRows) /\ again \in Seq(LocalRows) /\ codes \in Seq(LocalRuns)
  /\ running \in [Items -> Nat \cup {None}]
  /\ ended \in [Items -> Nat \cup {None}]
  /\ claims \in [Items -> Nat]
  /\ worker \in [Workers -> Steps \cup Claims]

\* A row stands in one queue, once, or is running, or has ended.
InOnePlace ==
  /\ IsInjective(fresh) /\ IsInjective(again) /\ IsInjective(codes)
  /\ ToSet(fresh) \cap ToSet(again) = {}
  /\ \A i \in Items : Queued(i) \/ claims[i] = 0 => running[i] = None /\ ended[i] = None
  /\ \A i \in Items : running[i] # None => ended[i] = None

\* While a worker judges, the row still runs for its claim, and the deadline is not over: Claim
\* gives a row up only a minute after the deadline, and no claim lasts that long.
ClaimIsHeld ==
  \A w \in Workers : worker[w].pc = "judge" =>
    /\ running[worker[w].item] = worker[w].since
    /\ claims[worker[w].item] = worker[w].claim
    /\ age <= worker[w].since + JudgeTimeout + Overtime

LocalIInv == LocalTypes /\ InOnePlace /\ ClaimIsHeld /\ ResultOfThisClaim

-----------------------------------------------------------------------------
(* Queues.                                                                 *)

\* Taking the head of a queue that holds no row twice removes that row.
LEMMA TakeHead ==
  ASSUME NEW S, NEW s \in Seq(S), s # <<>>, IsInjective(s)
  PROVE  /\ Head(s) \in S /\ Head(s) \in ToSet(s)
         /\ Tail(s) \in Seq(S) /\ IsInjective(Tail(s))
         /\ ToSet(Tail(s)) = ToSet(s) \ {Head(s)}
<1>1. /\ Len(s) \in Nat \ {0} /\ DOMAIN s = 1..Len(s) /\ Head(s) = s[1]
      /\ Tail(s) \in Seq(S) /\ Len(Tail(s)) = Len(s) - 1 /\ DOMAIN Tail(s) = 1..(Len(s) - 1)
      /\ \A n \in 1..(Len(s) - 1) : Tail(s)[n] = s[n + 1]
  OBVIOUS
<1>2. \A m, n \in 1..Len(s) : s[m] = s[n] => m = n
  BY <1>1 DEF IsInjective
<1>3. IsInjective(Tail(s))
  <2> SUFFICES ASSUME NEW m \in 1..(Len(s) - 1), NEW n \in 1..(Len(s) - 1), Tail(s)[m] = Tail(s)[n]
               PROVE  m = n
    BY <1>1 DEF IsInjective
  <2>1. s[m + 1] = s[n + 1] /\ m + 1 \in 1..Len(s) /\ n + 1 \in 1..Len(s)
    BY <1>1
  <2>2. m + 1 = n + 1
    BY <2>1, <1>2
  <2> QED BY <2>2
<1>4. \A x : x \in ToSet(Tail(s)) => x \in ToSet(s) \ {Head(s)}
  <2> SUFFICES ASSUME NEW n \in 1..(Len(s) - 1)
               PROVE  Tail(s)[n] \in ToSet(s) \ {Head(s)}
    BY <1>1 DEF ToSet
  <2>1. Tail(s)[n] = s[n + 1] /\ n + 1 \in 1..Len(s) /\ n + 1 # 1 /\ 1 \in 1..Len(s)
    BY <1>1
  <2>2. s[n + 1] # s[1]
    BY <2>1, <1>2
  <2> QED BY <2>1, <2>2, <1>1 DEF ToSet
<1>5. \A x : x \in ToSet(s) \ {Head(s)} => x \in ToSet(Tail(s))
  <2> SUFFICES ASSUME NEW n \in 1..Len(s), s[n] # Head(s)
               PROVE  s[n] \in ToSet(Tail(s))
    BY <1>1 DEF ToSet
  <2>1. n - 1 \in 1..(Len(s) - 1)
    BY <1>1
  <2>2. Tail(s)[n - 1] = s[n]
    BY <1>1, <2>1
  <2> QED BY <2>1, <2>2, <1>1 DEF ToSet
<1>6. Head(s) \in S /\ Head(s) \in ToSet(s)
  BY <1>1 DEF ToSet
<1> QED BY <1>1, <1>3, <1>4, <1>5, <1>6

-----------------------------------------------------------------------------
(* The queues and the workers in the states of LocalIInv.                  *)

\* What waits in a queue is a row of its kind.
LEMMA QueuedItems ==
  ASSUME LocalTypes
  PROVE  /\ ToSet(fresh) \subseteq LocalRows /\ ToSet(again) \subseteq LocalRows
         /\ ToSet(codes) \subseteq LocalRuns
         /\ Items = LocalRows \cup LocalRuns /\ None \notin Nat /\ LocalRows \cap LocalRuns = {}
<1>1. \A S : \A s \in Seq(S) : ToSet(s) \subseteq S
  BY DEF ToSet
<1> QED BY <1>1, LocalAssumption DEF LocalTypes, Items

\* The record of a worker that judges, and its row: it is running, so it is not queued.
LEMMA JudgingWorker ==
  ASSUME LocalIInv, NEW w \in Workers, worker[w].pc = "judge"
  PROVE  /\ worker[w] \in Claims /\ worker[w].item \in Items /\ worker[w].claim \in Nat /\ worker[w].since \in Nat
         /\ running[worker[w].item] = worker[w].since /\ claims[worker[w].item] = worker[w].claim
         /\ running[worker[w].item] # None /\ ended[worker[w].item] = None
         /\ claims[worker[w].item] # 0 /\ ~Queued(worker[w].item)
<1>1. worker[w] \in Steps \cup Claims /\ None \notin Nat
  BY QueuedItems DEF LocalIInv, LocalTypes
<1>2. worker[w] \in Claims
  BY <1>1 DEF Steps, Claims
<1>3. worker[w].item \in Items /\ worker[w].claim \in Nat /\ worker[w].since \in Nat
  BY <1>2 DEF Claims
<1>4. running[worker[w].item] = worker[w].since /\ claims[worker[w].item] = worker[w].claim
  BY DEF LocalIInv, ClaimIsHeld
<1>5. running[worker[w].item] # None
  BY <1>1, <1>3, <1>4
<1> QED BY <1>2, <1>3, <1>4, <1>5 DEF LocalIInv, InOnePlace

\* A claim of a row that was waiting: what Claim and ClaimCodeRun have in common.
LEMMA StartPreserves ==
  ASSUME LocalIInv, NEW w \in Workers, worker[w].pc # "judge",
         NEW i \in Items, Queued(i), Start(w, i), UNCHANGED <<age, ended>>,
         fresh' \in Seq(LocalRows), again' \in Seq(LocalRows), codes' \in Seq(LocalRuns),
         IsInjective(fresh)', IsInjective(again)', IsInjective(codes)',
         ToSet(fresh)' \cap ToSet(again)' = {},
         \A j \in Items : Queued(j)' => Queued(j) /\ j # i
  PROVE  LocalIInv'
<1>1. running[i] = None /\ ended[i] = None
  BY DEF LocalIInv, InOnePlace
<1>2. /\ running' = [running EXCEPT ![i] = age] /\ claims' = [claims EXCEPT ![i] = @ + 1]
      /\ worker' = [worker EXCEPT ![w] = [pc |-> "judge", item |-> i, claim |-> claims[i] + 1, since |-> age]]
  BY DEF Start, Stays
<1>3. age \in Nat /\ claims[i] \in Nat /\ None \notin Nat /\ JudgeTimeout + Overtime \in Nat
      /\ JudgeTimeout \in Nat /\ Overtime \in Nat
  BY QueuedItems, LocalAssumption DEF LocalIInv, LocalTypes
<1>4. \A v \in Workers : v # w /\ worker[v].pc = "judge" => worker[v].item # i
  BY JudgingWorker
<1>5. LocalTypes'
  <2>1. worker'[w] \in Claims
    BY <1>2, <1>3 DEF LocalIInv, LocalTypes, Claims
  <2>2. worker' \in [Workers -> Steps \cup Claims]
    BY <1>2, <2>1 DEF LocalIInv, LocalTypes
  <2> QED BY <1>2, <1>3, <2>2 DEF LocalIInv, LocalTypes
<1>6. InOnePlace'
  <2>1. \A j \in Items : Queued(j)' \/ claims'[j] = 0 => running'[j] = None /\ ended'[j] = None
    <3> SUFFICES ASSUME NEW j \in Items, Queued(j)' \/ claims'[j] = 0
                 PROVE  running'[j] = None /\ ended'[j] = None
      OBVIOUS
    <3>1. j # i
      BY <1>2, <1>3 DEF LocalIInv, LocalTypes
    <3>2. Queued(j) \/ claims[j] = 0
      BY <1>2, <3>1 DEF LocalIInv, LocalTypes
    <3>3. running[j] = None /\ ended[j] = None
      BY <3>2 DEF LocalIInv, InOnePlace
    <3> QED BY <3>1, <3>3, <1>2 DEF LocalIInv, LocalTypes
  <2>2. \A j \in Items : running'[j] # None => ended'[j] = None
    BY <1>1, <1>2 DEF LocalIInv, LocalTypes, InOnePlace
  <2> QED BY <2>1, <2>2 DEF InOnePlace
<1>7. ClaimIsHeld'
  <2> SUFFICES ASSUME NEW v \in Workers, worker'[v].pc = "judge"
               PROVE  /\ running'[worker'[v].item] = worker'[v].since
                      /\ claims'[worker'[v].item] = worker'[v].claim
                      /\ age' <= worker'[v].since + JudgeTimeout + Overtime
    BY DEF ClaimIsHeld
  <2>1. CASE v = w
    <3>1. worker'[v].item = i /\ worker'[v].claim = claims[i] + 1 /\ worker'[v].since = age
      BY <2>1, <1>2 DEF LocalIInv, LocalTypes
    <3>2. running'[i] = age /\ claims'[i] = claims[i] + 1
      BY <1>2 DEF LocalIInv, LocalTypes
    <3>3. age <= age + JudgeTimeout + Overtime
      BY <1>3
    <3> QED BY <3>1, <3>2, <3>3
  <2>2. CASE v # w
    <3>1. worker'[v] = worker[v]
      BY <2>2, <1>2 DEF LocalIInv, LocalTypes
    <3>2. worker[v].item # i /\ worker[v].item \in Items
      BY <2>2, <3>1, <1>4, JudgingWorker
    <3>3. running'[worker[v].item] = running[worker[v].item] /\ claims'[worker[v].item] = claims[worker[v].item]
      BY <3>2, <1>2 DEF LocalIInv, LocalTypes
    <3> QED BY <3>1, <3>3 DEF LocalIInv, ClaimIsHeld
  <2> QED BY <2>1, <2>2
<1>8. ResultOfThisClaim'
  <2>1. \A j \in Items : ended'[j] \notin {None, 0} => ended'[j] = claims'[j]
    BY <1>1, <1>2 DEF LocalIInv, LocalTypes, ResultOfThisClaim
  <2>2. \A u, v \in Workers : u # v /\ worker'[u].pc = "judge" /\ worker'[v].pc = "judge" =>
          worker'[u].item # worker'[v].item
    <3>1. worker'[w].item = i /\ \A v \in Workers : v # w => worker'[v] = worker[v]
      BY <1>2 DEF LocalIInv, LocalTypes
    <3> QED BY <3>1, <1>4 DEF LocalIInv, ResultOfThisClaim
  <2> QED BY <2>1, <2>2, QueuedItems DEF ResultOfThisClaim, LocalIInv
<1> QED BY <1>5, <1>6, <1>7, <1>8 DEF LocalIInv

\* A worker that goes on to another statement, or stops judging, without touching a row.
LEMMA NextStep ==
  ASSUME LocalIInv, NEW w \in Workers, NEW p \in {"expire", "claim", "claimCode"},
         Stays(w, [pc |-> p]), UNCHANGED <<age, fresh, again, codes, running, ended, claims>>
  PROVE  LocalIInv'
<1>1. worker' = [worker EXCEPT ![w] = [pc |-> p]] /\ [pc |-> p] \in Steps
  BY DEF Stays, Steps
<1>2. \A v \in Workers : worker'[v].pc = "judge" => worker'[v] = worker[v]
  BY <1>1 DEF LocalIInv, LocalTypes
<1>3. LocalTypes'
  BY <1>1 DEF LocalIInv, LocalTypes
<1>4. InOnePlace'
  BY DEF LocalIInv, InOnePlace, Queued
<1>5. ClaimIsHeld' /\ ResultOfThisClaim'
  BY <1>2 DEF LocalIInv, ClaimIsHeld, ResultOfThisClaim
<1> QED BY <1>3, <1>4, <1>5 DEF LocalIInv

-----------------------------------------------------------------------------
(* The statements, one by one.                                             *)

\* A new row joins the end of its queue.
LEMMA SubmitPreserves ==
  ASSUME LocalIInv, NEW i \in Items, SubmitLocal(i)
  PROVE  LocalIInv'
<1>1. /\ claims[i] = 0 /\ ~Queued(i) /\ running[i] = None /\ ended[i] = None
      /\ UNCHANGED <<age, again, running, ended, claims, worker>>
  BY DEF SubmitLocal, LocalIInv, InOnePlace
<1>2. /\ fresh' \in Seq(LocalRows) /\ codes' \in Seq(LocalRuns)
      /\ IsInjective(fresh)' /\ IsInjective(codes)'
      /\ ToSet(fresh)' \cap ToSet(again) = {}
      /\ ToSet(fresh)' \cup ToSet(codes)' = ToSet(fresh) \cup ToSet(codes) \cup {i}
  <2>1. CASE i \in LocalRuns
    <3>1. codes' = Append(codes, i) /\ fresh' = fresh /\ i \notin ToSet(codes)
      BY <1>1, <2>1 DEF SubmitLocal, Queued
    <3>2. /\ Append(codes, i) \in Seq(LocalRuns) /\ IsInjective(Append(codes, i))
          /\ ToSet(Append(codes, i)) = ToSet(codes) \cup {i}
      BY <2>1, <3>1, AddLast DEF LocalIInv, LocalTypes, InOnePlace
    <3> QED BY <3>1, <3>2 DEF LocalIInv, LocalTypes, InOnePlace
  <2>2. CASE i \notin LocalRuns
    <3>1. fresh' = Append(fresh, i) /\ codes' = codes /\ i \in LocalRows /\ i \notin ToSet(fresh) /\ i \notin ToSet(again)
      BY <1>1, <2>2 DEF SubmitLocal, Queued, Items
    <3>2. /\ Append(fresh, i) \in Seq(LocalRows) /\ IsInjective(Append(fresh, i))
          /\ ToSet(Append(fresh, i)) = ToSet(fresh) \cup {i}
      BY <3>1, AddLast DEF LocalIInv, LocalTypes, InOnePlace
    <3> QED BY <3>1, <3>2 DEF LocalIInv, LocalTypes, InOnePlace
  <2> QED BY <2>1, <2>2
<1>3. \A j : Queued(j)' <=> Queued(j) \/ j = i
  BY <1>1, <1>2 DEF Queued
<1>4. LocalTypes'
  BY <1>1, <1>2 DEF LocalIInv, LocalTypes
<1>5. InOnePlace'
  BY <1>1, <1>2, <1>3 DEF LocalIInv, InOnePlace
<1>6. ClaimIsHeld' /\ ResultOfThisClaim'
  BY <1>1 DEF LocalIInv, ClaimIsHeld, ResultOfThisClaim
<1> QED BY <1>4, <1>5, <1>6 DEF LocalIInv

\* Only an ended row is rejudged, so no worker judges it and no queue holds it.
LEMMA RejudgePreserves ==
  ASSUME LocalIInv, NEW i \in Items, RejudgeLocal(i)
  PROVE  LocalIInv'
<1>1. /\ i \in LocalRows /\ ended[i] # None /\ again' = Append(again, i)
      /\ running' = [running EXCEPT ![i] = None] /\ ended' = [ended EXCEPT ![i] = None]
      /\ UNCHANGED <<age, fresh, codes, claims, worker>>
  BY DEF RejudgeLocal, Rejudgeable
<1>2. ~Queued(i) /\ claims[i] # 0
  BY <1>1 DEF LocalIInv, InOnePlace
<1>3. /\ again' \in Seq(LocalRows) /\ IsInjective(again)' /\ ToSet(again)' = ToSet(again) \cup {i}
  BY <1>1, <1>2, AddLast DEF Queued, LocalIInv, LocalTypes, InOnePlace
<1>4. \A j : Queued(j)' <=> Queued(j) \/ j = i
  BY <1>1, <1>3 DEF Queued
<1>5. \A w \in Workers : worker[w].pc = "judge" => worker[w].item # i /\ worker[w].item \in Items
  BY <1>1, JudgingWorker
<1>6. LocalTypes'
  BY <1>1, <1>3 DEF LocalIInv, LocalTypes
<1>7. InOnePlace'
  <2>1. ToSet(fresh)' \cap ToSet(again)' = {}
    BY <1>1, <1>2, <1>3 DEF Queued, LocalIInv, InOnePlace
  <2>2. \A j \in Items : Queued(j)' \/ claims'[j] = 0 => running'[j] = None /\ ended'[j] = None
    BY <1>1, <1>4 DEF LocalIInv, LocalTypes, InOnePlace
  <2>3. \A j \in Items : running'[j] # None => ended'[j] = None
    BY <1>1 DEF LocalIInv, LocalTypes, InOnePlace
  <2> QED BY <1>1, <1>3, <2>1, <2>2, <2>3 DEF LocalIInv, InOnePlace
<1>8. ClaimIsHeld'
  BY <1>1, <1>5 DEF LocalIInv, LocalTypes, ClaimIsHeld
<1>9. ResultOfThisClaim'
  BY <1>1 DEF LocalIInv, LocalTypes, ResultOfThisClaim
<1> QED BY <1>6, <1>7, <1>8, <1>9 DEF LocalIInv

\* A claim that is held is younger than the deadline and the minute: giving up overdue rows
\* ends none of them.
LEMMA ExpirePreserves ==
  ASSUME LocalIInv, NEW w \in Workers, Expire(w)
  PROVE  LocalIInv'
<1> DEFINE overdue == {i \in LocalRows : running[i] # None /\ Overdue(i)}
<1>1. /\ worker[w].pc = "expire"
      /\ running' = [i \in Items |-> IF i \in overdue THEN None ELSE running[i]]
      /\ ended' = [i \in Items |-> IF i \in overdue THEN 0 ELSE ended[i]]
      /\ worker' = [worker EXCEPT ![w] = [pc |-> "claim"]]
      /\ UNCHANGED <<age, fresh, again, codes, claims>>
  BY DEF Expire, Stays
<1>2. \A v \in Workers : worker[v].pc = "judge" => worker[v].item \in Items \ overdue
  <2> SUFFICES ASSUME NEW v \in Workers, worker[v].pc = "judge", worker[v].item \in overdue
               PROVE  FALSE
    BY JudgingWorker
  <2>1. running[worker[v].item] = worker[v].since /\ worker[v].since \in Nat
    BY JudgingWorker
  <2>2. worker[v].since < age - (JudgeTimeout + Minute)
    BY <2>1 DEF Overdue
  <2>3. age <= worker[v].since + JudgeTimeout + Overtime
    BY DEF LocalIInv, ClaimIsHeld
  <2>4. JudgeTimeout \in Nat /\ Minute \in Nat /\ Overtime \in Nat /\ Overtime <= Minute /\ age \in Nat
    BY LocalAssumption DEF LocalIInv, LocalTypes
  <2> QED BY <2>1, <2>2, <2>3, <2>4
<1>3. \A v \in Workers : worker'[v].pc = "judge" => v # w /\ worker'[v] = worker[v]
  BY <1>1 DEF LocalIInv, LocalTypes
<1>4. LocalTypes'
  <2>1. [pc |-> "claim"] \in Steps
    BY DEF Steps
  <2> QED BY <1>1, <2>1 DEF LocalIInv, LocalTypes
<1>5. \A i \in overdue : i \in Items /\ ~Queued(i) /\ claims[i] # 0
  BY DEF LocalIInv, InOnePlace, Items
<1>6. InOnePlace'
  <2>1. \A j \in Items : Queued(j)' \/ claims'[j] = 0 => running'[j] = None /\ ended'[j] = None
    BY <1>1, <1>5 DEF LocalIInv, InOnePlace, Queued
  <2>2. \A j \in Items : running'[j] # None => ended'[j] = None
    BY <1>1 DEF LocalIInv, InOnePlace
  <2> QED BY <1>1, <2>1, <2>2 DEF LocalIInv, InOnePlace
<1>7. ClaimIsHeld'
  BY <1>1, <1>2, <1>3 DEF LocalIInv, ClaimIsHeld
<1>8. ResultOfThisClaim'
  BY <1>1, <1>3 DEF LocalIInv, ResultOfThisClaim
<1> QED BY <1>4, <1>6, <1>7, <1>8 DEF LocalIInv

\* Claim takes the head of a queue, or turns to the code runs.
LEMMA ClaimPreserves ==
  ASSUME LocalIInv, NEW w \in Workers, Claim(w)
  PROVE  LocalIInv'
<1>1. worker[w].pc # "judge" /\ UNCHANGED <<age, codes, ended>>
  BY DEF Claim
<1>2. CASE fresh # <<>> /\ Start(w, Head(fresh)) /\ fresh' = Tail(fresh) /\ UNCHANGED again
  <2>1. /\ Head(fresh) \in LocalRows /\ Head(fresh) \in ToSet(fresh)
        /\ fresh' \in Seq(LocalRows) /\ IsInjective(fresh)'
        /\ ToSet(fresh)' = ToSet(fresh) \ {Head(fresh)}
    BY <1>2, TakeHead DEF LocalIInv, LocalTypes, InOnePlace
  <2>2. Head(fresh) \notin ToSet(again) /\ Head(fresh) \notin ToSet(codes)
    BY <2>1, QueuedItems DEF LocalIInv, InOnePlace
  <2>3. Head(fresh) \in Items /\ Queued(Head(fresh))
    BY <2>1 DEF Items, Queued
  <2>4. \A j \in Items : Queued(j)' => Queued(j) /\ j # Head(fresh)
    BY <1>1, <1>2, <2>1, <2>2 DEF Queued
  <2>5. again' \in Seq(LocalRows) /\ codes' \in Seq(LocalRuns) /\ IsInjective(again)' /\ IsInjective(codes)'
        /\ ToSet(fresh)' \cap ToSet(again)' = {}
    BY <1>1, <1>2, <2>1 DEF LocalIInv, LocalTypes, InOnePlace
  <2> QED BY <1>1, <1>2, <2>1, <2>3, <2>4, <2>5, StartPreserves
<1>3. CASE fresh = <<>> /\ again # <<>> /\ Start(w, Head(again)) /\ again' = Tail(again) /\ UNCHANGED fresh
  <2>1. /\ Head(again) \in LocalRows /\ Head(again) \in ToSet(again)
        /\ again' \in Seq(LocalRows) /\ IsInjective(again)'
        /\ ToSet(again)' = ToSet(again) \ {Head(again)}
    BY <1>3, TakeHead DEF LocalIInv, LocalTypes, InOnePlace
  <2>2. Head(again) \notin ToSet(fresh) /\ Head(again) \notin ToSet(codes)
    BY <2>1, QueuedItems DEF LocalIInv, InOnePlace
  <2>3. Head(again) \in Items /\ Queued(Head(again))
    BY <2>1 DEF Items, Queued
  <2>4. \A j \in Items : Queued(j)' => Queued(j) /\ j # Head(again)
    BY <1>1, <1>3, <2>1, <2>2 DEF Queued
  <2>5. fresh' \in Seq(LocalRows) /\ codes' \in Seq(LocalRuns) /\ IsInjective(fresh)' /\ IsInjective(codes)'
        /\ ToSet(fresh)' \cap ToSet(again)' = {}
    BY <1>1, <1>3, <2>1 DEF LocalIInv, LocalTypes, InOnePlace
  <2> QED BY <1>1, <1>3, <2>1, <2>3, <2>4, <2>5, StartPreserves
<1>4. CASE Stays(w, [pc |-> "claimCode"]) /\ UNCHANGED <<fresh, again, running, claims>>
  BY <1>1, <1>4, NextStep
<1> QED BY <1>2, <1>3, <1>4 DEF Claim

\* ClaimCodeRun does the same for the code runs.
LEMMA ClaimCodeRunPreserves ==
  ASSUME LocalIInv, NEW w \in Workers, ClaimCodeRun(w)
  PROVE  LocalIInv'
<1>1. worker[w].pc # "judge" /\ UNCHANGED <<age, fresh, again, ended>>
  BY DEF ClaimCodeRun
<1>2. CASE codes # <<>>
  <2>1. Start(w, Head(codes)) /\ codes' = Tail(codes)
    BY <1>2 DEF ClaimCodeRun
  <2>2. /\ Head(codes) \in LocalRuns /\ Head(codes) \in ToSet(codes)
        /\ codes' \in Seq(LocalRuns) /\ IsInjective(codes)'
        /\ ToSet(codes)' = ToSet(codes) \ {Head(codes)}
    BY <1>2, <2>1, TakeHead DEF LocalIInv, LocalTypes, InOnePlace
  <2>3. Head(codes) \notin ToSet(fresh) /\ Head(codes) \notin ToSet(again)
    BY <2>2, QueuedItems DEF LocalIInv
  <2>4. Head(codes) \in Items /\ Queued(Head(codes))
    BY <2>2 DEF Items, Queued
  <2>5. \A j \in Items : Queued(j)' => Queued(j) /\ j # Head(codes)
    BY <1>1, <2>2, <2>3 DEF Queued
  <2>6. fresh' \in Seq(LocalRows) /\ again' \in Seq(LocalRows) /\ IsInjective(fresh)' /\ IsInjective(again)'
        /\ ToSet(fresh)' \cap ToSet(again)' = {}
    BY <1>1 DEF LocalIInv, LocalTypes, InOnePlace
  <2> QED BY <1>1, <2>1, <2>2, <2>4, <2>5, <2>6, StartPreserves
<1>3. CASE codes = <<>>
  <2>1. Stays(w, [pc |-> "expire"]) /\ UNCHANGED <<codes, running, claims>>
    BY <1>3 DEF ClaimCodeRun, Polls
  <2> QED BY <1>1, <2>1, NextStep
<1> QED BY <1>2, <1>3

\* The claim that ends is the one the row runs for, and no other worker judges the row.
LEMMA FinishPreserves ==
  ASSUME LocalIInv, NEW w \in Workers, FinishLocal(w)
  PROVE  LocalIInv'
<1> DEFINE i == worker[w].item
<1>1. worker[w].pc = "judge"
  BY DEF FinishLocal
<1>2. /\ i \in Items /\ worker[w].claim \in Nat /\ claims[i] = worker[w].claim
      /\ running[i] # None /\ claims[i] # 0 /\ ~Queued(i)
  BY <1>1, JudgingWorker
<1>3. /\ running' = [running EXCEPT ![i] = None] /\ ended' = [ended EXCEPT ![i] = worker[w].claim]
      /\ worker' = [worker EXCEPT ![w] = [pc |-> "expire"]]
      /\ UNCHANGED <<age, fresh, again, codes, claims>>
  BY <1>2 DEF FinishLocal, Stays, Polls
<1>4. \A v \in Workers : worker'[v].pc = "judge" =>
        /\ worker[v].pc = "judge" /\ worker'[v] = worker[v] /\ worker[v].item # i /\ worker[v].item \in Items
  <2> SUFFICES ASSUME NEW v \in Workers, worker'[v].pc = "judge"
               PROVE  /\ worker[v].pc = "judge" /\ worker'[v] = worker[v]
                      /\ worker[v].item # i /\ worker[v].item \in Items
    OBVIOUS
  <2>1. v # w /\ worker'[v] = worker[v]
    BY <1>3 DEF LocalIInv, LocalTypes
  <2> QED BY <1>1, <2>1, JudgingWorker DEF LocalIInv, ResultOfThisClaim
<1>5. LocalTypes'
  <2>1. [pc |-> "expire"] \in Steps
    BY DEF Steps
  <2> QED BY <1>2, <1>3, <2>1 DEF LocalIInv, LocalTypes
<1>6. InOnePlace'
  <2>1. \A j \in Items : Queued(j)' \/ claims'[j] = 0 => running'[j] = None /\ ended'[j] = None
    BY <1>2, <1>3 DEF LocalIInv, LocalTypes, InOnePlace, Queued
  <2>2. \A j \in Items : running'[j] # None => ended'[j] = None
    BY <1>3 DEF LocalIInv, LocalTypes, InOnePlace
  <2> QED BY <1>3, <2>1, <2>2 DEF LocalIInv, InOnePlace
<1>7. ClaimIsHeld'
  BY <1>3, <1>4 DEF LocalIInv, LocalTypes, ClaimIsHeld
<1>8. ResultOfThisClaim'
  <2>1. \A j \in Items : ended'[j] \notin {None, 0} => ended'[j] = claims'[j]
    BY <1>2, <1>3 DEF LocalIInv, LocalTypes, ResultOfThisClaim
  <2> QED BY <1>4, <2>1 DEF LocalIInv, ResultOfThisClaim
<1> QED BY <1>5, <1>6, <1>7, <1>8 DEF LocalIInv

\* Time passes only while every claim is within its deadline.
LEMMA PassesPreserves ==
  ASSUME LocalIInv, Passes
  PROVE  LocalIInv'
<1>1. /\ age' = age + 1 /\ UNCHANGED <<fresh, again, codes, running, ended, claims, worker>>
      /\ \A w \in Workers : worker[w].pc = "judge" => age < worker[w].since + JudgeTimeout + Overtime
  BY DEF Passes
<1>2. LocalTypes'
  BY <1>1 DEF LocalIInv, LocalTypes
<1>3. ClaimIsHeld'
  <2> SUFFICES ASSUME NEW w \in Workers, worker[w].pc = "judge"
               PROVE  age + 1 <= worker[w].since + JudgeTimeout + Overtime
    BY <1>1 DEF LocalIInv, ClaimIsHeld
  <2>1. worker[w].since \in Nat /\ age \in Nat /\ JudgeTimeout \in Nat /\ Overtime \in Nat
    BY JudgingWorker, LocalAssumption DEF LocalIInv, LocalTypes
  <2> QED BY <1>1, <2>1
<1>4. InOnePlace' /\ ResultOfThisClaim'
  BY <1>1 DEF LocalIInv, InOnePlace, Queued, ResultOfThisClaim
<1> QED BY <1>2, <1>3, <1>4 DEF LocalIInv

-----------------------------------------------------------------------------
(* The theorems.                                                           *)

\* The worker starts with empty queues and nothing claimed.
LEMMA LocalInitHolds == LocalInit => LocalIInv
<1> SUFFICES ASSUME LocalInit PROVE LocalIInv
  OBVIOUS
<1>1. Polls \in Steps /\ Polls.pc # "judge"
  BY DEF Polls, Steps
<1>2. \A S : <<>> \in Seq(S) /\ IsInjective(<<>>) /\ ToSet(<<>>) = {}
  BY DEF IsInjective, ToSet
<1>3. LocalTypes
  BY <1>1, <1>2 DEF LocalInit, LocalTypes
<1>4. InOnePlace
  BY <1>2 DEF LocalInit, InOnePlace
<1>5. \A w \in Workers : worker[w].pc # "judge"
  BY <1>1 DEF LocalInit
<1>6. ClaimIsHeld /\ ResultOfThisClaim
  BY <1>5 DEF LocalInit, ClaimIsHeld, ResultOfThisClaim
<1> QED BY <1>3, <1>4, <1>6 DEF LocalIInv

\* Every statement of the worker and of the API preserves LocalIInv.
LEMMA LocalStepHolds == LocalIInv /\ [LocalNext]_localVars => LocalIInv'
<1> SUFFICES ASSUME LocalIInv, [LocalNext]_localVars PROVE LocalIInv'
  OBVIOUS
<1>1. CASE Passes
  BY <1>1, PassesPreserves
<1>2. ASSUME NEW i \in Items, SubmitLocal(i) PROVE LocalIInv'
  BY <1>2, SubmitPreserves
<1>3. ASSUME NEW i \in Items, RejudgeLocal(i) PROVE LocalIInv'
  BY <1>3, RejudgePreserves
<1>4. ASSUME NEW w \in Workers, Expire(w) PROVE LocalIInv'
  BY <1>4, ExpirePreserves
<1>5. ASSUME NEW w \in Workers, Claim(w) PROVE LocalIInv'
  BY <1>5, ClaimPreserves
<1>6. ASSUME NEW w \in Workers, ClaimCodeRun(w) PROVE LocalIInv'
  BY <1>6, ClaimCodeRunPreserves
<1>7. ASSUME NEW w \in Workers, FinishLocal(w) PROVE LocalIInv'
  BY <1>7, FinishPreserves
<1>8. ASSUME NEW w \in Workers, Drop(w) PROVE LocalIInv'
  <2>1. Stays(w, [pc |-> "expire"]) /\ UNCHANGED <<age, fresh, again, codes, running, ended, claims>>
    BY <1>8 DEF Drop, Polls
  <2> QED BY <2>1, NextStep
<1>9. CASE UNCHANGED localVars
  BY <1>9 DEF localVars, LocalIInv, LocalTypes, InOnePlace, Queued, ClaimIsHeld, ResultOfThisClaim
<1> QED BY <1>1, <1>2, <1>3, <1>4, <1>5, <1>6, <1>7, <1>8, <1>9 DEF LocalNext

\* LocalIInv holds in every state: rows stand in one place, and a row that a worker judges still
\* runs for the worker's claim, within the deadline.
THEOREM LocalInvariance == LocalSpec => []LocalIInv
BY LocalInitHolds, LocalStepHolds, PTL DEF LocalSpec

\* Whatever the deadline, the overtime up to a minute, the workers and the rows: a result that
\* carries no attempt id is stored only for the claim that produced it, and no row has two judges.
THEOREM LocalResultsOfTheirClaims == LocalSpec => []ResultOfThisClaim
<1>1. LocalIInv => ResultOfThisClaim
  BY DEF LocalIInv
<1> QED BY <1>1, LocalInvariance, PTL

-----------------------------------------------------------------------------
(***************************************************************************)
(* Test files stay usable, for every number of files, versions, calls and  *)
(* jobs: a version that has been verified and tagged is out of the reach   *)
(* of the lifecycle rule and of later uploads, and a ready row never       *)
(* changes.                                                                *)
(***************************************************************************)

Objects == [tag : {"pending", "ready", "gone"}, good : BOOLEAN]
Entries == [version : Nat \cup {None}, upload : Nat \cup {None}]
Calls   == {NoCall} \cup [pc : {"get"}, file : Files] \cup [pc : {"tag", "update"}, file : Files, version : Nat]
Drafts  == [version : Nat, files : SUBSET Files]
IsJob(job) ==
  /\ job = [version |-> job.version, files |-> job.files, generates |-> job.generates, found |-> job.found]
  /\ job.version \in Nat /\ job.files \in SUBSET Files

FileTypes ==
  /\ storage \in {"s3", "local"}
  /\ entry \in [Files -> {None} \cup Entries]
  /\ objects \in [Files -> Seq(Objects)]
  /\ latest \in [Files -> Nat \cup {None}]
  /\ completes \in [Completers -> Calls]
  /\ draft \in Drafts /\ asking \in {None} \cup Drafts
  /\ \A job \in jobs : IsJob(job)
  /\ output \in {None} \cup Outputs

\* Verified bytes that no lifecycle removal reaches.
Verified(f, v) == v \in DOMAIN objects[f] /\ objects[f][v].good /\ (objects[f][v].tag = "ready" \/ storage = "local")

\* Local files keep the tag they begin with, so none is ever taken away.
LocalStays == storage = "local" => \A f \in Files : \A v \in DOMAIN objects[f] : objects[f][v].tag = "pending"

\* What the calls of Complete have verified, and what they have tagged.
CallsKnow == \A c \in Completers :
  /\ completes[c].pc # "idle" => entry[completes[c].file] \in Entries
  /\ completes[c].pc = "tag" =>
       completes[c].version \in DOMAIN objects[completes[c].file] /\ objects[completes[c].file][completes[c].version].good
  /\ completes[c].pc = "update" => Verified(completes[c].file, completes[c].version)

RowsAreVerified == \A f \in Files : Ready(f) => Verified(f, entry[f].version)

\* A generated file has its object before it has its row.
OutputsAreNew ==
  /\ \A f \in Outputs : objects[f] = <<>> => entry[f] = None
  /\ output # None => entry[output] = None /\ objects[output] # <<>>

DraftIsReady  == \A f \in draft.files : Ready(f)
AskingIsOlder == asking # None => /\ asking.version <= draft.version
                                  /\ asking.version = draft.version => asking.files = draft.files
JobIsReady(job) == /\ \A f \in job.files : Ready(f)
                   /\ job.found # None => \A f \in job.files : Verified(f, job.found[f])
JobsAreReady  == \A job \in jobs : JobIsReady(job)
JobsAreOlder  == \A job \in jobs : /\ job.version <= draft.version
                                   /\ job.version = draft.version => job.files = draft.files

FilesIInv == /\ FileTypes /\ LocalStays /\ CallsKnow /\ RowsAreVerified /\ OutputsAreNew
             /\ DraftIsReady /\ AskingIsOlder /\ JobsAreReady /\ JobsAreOlder

-----------------------------------------------------------------------------
\* What the two parts of FilesStayUsable say follows from the invariant.
LEMMA FilesIInvImplies == FilesIInv => FilesStayUsable
<1> SUFFICES ASSUME FilesIInv PROVE FilesStayUsable
  OBVIOUS
<1>1. ASSUME NEW f \in Files, NEW v, Verified(f, v)
      PROVE  Version(f, v) /\ objects[f][v].good /\ (objects[f][v].tag = "ready" \/ storage = "local")
  BY <1>1 DEF Verified, Version, FilesIInv, LocalStays
<1>2. BytesStay
  BY <1>1 DEF BytesStay, FilesIInv, RowsAreVerified
<1>3. JobsAreJudgeable
  <2>1. \A f \in draft.files : Ready(f)
    BY DEF FilesIInv, DraftIsReady
  <2>2. ASSUME NEW job \in jobs
        PROVE  /\ \A f \in job.files : Ready(f)
               /\ job.found # None => \A f \in job.files : Version(f, job.found[f]) /\ objects[f][job.found[f]].good
               /\ job.version = draft.version => job.files = draft.files
    <3>1. job.files \subseteq Files
      BY DEF FilesIInv, FileTypes, IsJob
    <3>2. JobIsReady(job)
      BY DEF FilesIInv, JobsAreReady
    <3> QED BY <1>1, <3>1, <3>2 DEF FilesIInv, JobIsReady, JobsAreOlder
  <2> QED BY <2>1, <2>2 DEF JobsAreJudgeable
<1> QED BY <1>2, <1>3 DEF FilesStayUsable

\* Rows, drafts, requests and jobs stay as they are while ready files stay ready and verified
\* versions stay verified.
LEMMA KeepJobs ==
  ASSUME FilesIInv, UNCHANGED <<draft, asking, jobs>>,
         \A f \in Files : Ready(f) => Ready(f)' /\ entry'[f].version = entry[f].version,
         \A f \in Files : \A v : Verified(f, v) => Verified(f, v)'
  PROVE  DraftIsReady' /\ AskingIsOlder' /\ JobsAreReady' /\ JobsAreOlder'
<1>1. draft.files \subseteq Files /\ \A job \in jobs : job.files \subseteq Files
  BY DEF FilesIInv, FileTypes, IsJob, Drafts
<1>2. DraftIsReady'
  BY <1>1 DEF FilesIInv, DraftIsReady
<1>3. AskingIsOlder' /\ JobsAreOlder'
  BY DEF FilesIInv, AskingIsOlder, JobsAreOlder
<1>4. JobsAreReady'
  <2> SUFFICES ASSUME NEW job \in jobs PROVE JobIsReady(job)'
    BY DEF JobsAreReady
  <2>1. JobIsReady(job)
    BY DEF FilesIInv, JobsAreReady
  <2> QED BY <2>1, <1>1 DEF JobIsReady
<1> QED BY <1>2, <1>3, <1>4

\* What a call of Complete knows of its file.
LEMMA KnownCall ==
  ASSUME FilesIInv, NEW c \in Completers, completes[c].pc # "idle"
  PROVE  /\ completes[c].file \in Files /\ entry[completes[c].file] \in Entries
         /\ completes[c].pc \in {"get", "tag", "update"}
         /\ completes[c].pc # "get" => completes[c] \in [pc : {"tag", "update"}, file : Files, version : Nat]
BY DEF FilesIInv, FileTypes, CallsKnow, Calls, NoCall

\* Steps that keep rows: versions that are verified, or verified by a call, stay so.
LEMMA KeepRows ==
  ASSUME FilesIInv, FileTypes', LocalStays', OutputsAreNew', UNCHANGED <<entry, completes, draft, asking, jobs>>,
         \A f \in Files : \A v : Verified(f, v) => Verified(f, v)',
         \A f \in Files : \A v : v \in DOMAIN objects[f] /\ objects[f][v].good => v \in DOMAIN objects'[f] /\ objects'[f][v].good
  PROVE  FilesIInv'
<1>1. CallsKnow'
  <2> SUFFICES ASSUME NEW c \in Completers
               PROVE  /\ completes[c].pc # "idle" => entry[completes[c].file] \in Entries
                      /\ completes[c].pc = "tag" =>
                           /\ completes[c].version \in DOMAIN objects'[completes[c].file]
                           /\ objects'[completes[c].file][completes[c].version].good
                      /\ completes[c].pc = "update" => Verified(completes[c].file, completes[c].version)'
    BY DEF CallsKnow
  <2>1. CASE completes[c].pc = "idle"
    BY <2>1
  <2>2. CASE completes[c].pc # "idle"
    BY <2>2, KnownCall DEF FilesIInv, CallsKnow
  <2> QED BY <2>1, <2>2
<1>2. \A f \in Files : Ready(f) => Ready(f)' /\ entry'[f].version = entry[f].version
  BY DEF Ready
<1>3. RowsAreVerified'
  BY DEF FilesIInv, RowsAreVerified, Ready
<1> QED BY <1>1, <1>2, <1>3, KeepJobs DEF FilesIInv

\* Steps of a call of Complete that touch no row and no object.
LEMMA KeepObjects ==
  ASSUME FilesIInv, NEW c \in Completers, NEW call \in Calls, CallAt(c, call),
         UNCHANGED <<storage, entry, objects, latest, draft, asking, jobs, output>>,
         call.pc # "idle" => entry[call.file] \in Entries,
         call.pc = "tag" => call.version \in DOMAIN objects[call.file] /\ objects[call.file][call.version].good,
         call.pc = "update" => Verified(call.file, call.version)
  PROVE  FilesIInv'
<1>1. completes' = [completes EXCEPT ![c] = call]
  BY DEF CallAt
<1>2. FileTypes'
  BY <1>1 DEF FilesIInv, FileTypes
<1>3. \A f, v : Verified(f, v)' <=> Verified(f, v)
  BY DEF Verified
<1>4. \A d \in Completers : completes'[d] = IF d = c THEN call ELSE completes[d]
  BY <1>1 DEF FilesIInv, FileTypes
<1>5. CallsKnow'
  BY <1>3, <1>4 DEF FilesIInv, CallsKnow
<1>6. LocalStays' /\ RowsAreVerified' /\ OutputsAreNew'
  BY <1>3 DEF FilesIInv, LocalStays, RowsAreVerified, Ready, OutputsAreNew
<1>7. DraftIsReady' /\ AskingIsOlder' /\ JobsAreReady' /\ JobsAreOlder'
  BY <1>3, KeepJobs DEF Ready
<1> QED BY <1>2, <1>5, <1>6, <1>7 DEF FilesIInv

-----------------------------------------------------------------------------
(* Uploading.                                                              *)

\* A new version, pending, of a file that is not a saved output.
LEMMA PutStep ==
  ASSUME FilesIInv, NEW f \in Files, NEW good \in BOOLEAN, Put(f, good), UNCHANGED storage
  PROVE  /\ objects' \in [Files -> Seq(Objects)] /\ latest' \in [Files -> Nat \cup {None}]
         /\ objects'[f] # <<>> /\ \A g \in Files : g # f => objects'[g] = objects[g]
         /\ LocalStays'
         /\ \A g \in Files : \A v : Verified(g, v) => Verified(g, v)'
         /\ \A g \in Files : \A v : v \in DOMAIN objects[g] /\ objects[g][v].good => v \in DOMAIN objects'[g] /\ objects'[g][v].good
<1> DEFINE object == [tag |-> "pending", good |-> good]
           n == Len(objects[f])
<1>1. object \in Objects /\ object.tag = "pending" /\ objects[f] \in Seq(Objects) /\ n \in Nat
  BY DEF Objects, FilesIInv, FileTypes
<1>2. /\ objects' = [objects EXCEPT ![f] = Append(objects[f], object)]
      /\ latest' = [latest EXCEPT ![f] = Len(objects'[f])]
  BY DEF Put
<1> HIDE DEF object
<1>3. /\ Append(objects[f], object) \in Seq(Objects) /\ DOMAIN Append(objects[f], object) = 1..(n + 1)
      /\ DOMAIN objects[f] = 1..n
      /\ Append(objects[f], object)[n + 1] = object
      /\ \A v \in 1..n : Append(objects[f], object)[v] = objects[f][v]
  BY <1>1
<1>4. objects'[f] = Append(objects[f], object) /\ \A g \in Files : g # f => objects'[g] = objects[g]
  BY <1>2 DEF FilesIInv, FileTypes
<1>5. objects' \in [Files -> Seq(Objects)] /\ latest' \in [Files -> Nat \cup {None}]
  BY <1>2, <1>3, <1>4 DEF FilesIInv, FileTypes
<1>6. objects'[f] # <<>>
  BY <1>1, <1>4
<1>7. \A g \in Files : \A v \in DOMAIN objects[g] : v \in DOMAIN objects'[g] /\ objects'[g][v] = objects[g][v]
  BY <1>1, <1>3, <1>4
<1>8. LocalStays'
  <2> SUFFICES ASSUME storage = "local", NEW g \in Files, NEW v \in DOMAIN objects'[g]
               PROVE  objects'[g][v].tag = "pending"
    BY DEF LocalStays
  <2>1. CASE v \in DOMAIN objects[g]
    BY <2>1, <1>7 DEF FilesIInv, LocalStays
  <2>2. CASE v \notin DOMAIN objects[g]
    <3>1. g = f /\ v = n + 1
      BY <2>2, <1>1, <1>3, <1>4
    <3> QED BY <3>1, <1>1, <1>3, <1>4
  <2> QED BY <2>1, <2>2
<1> QED BY <1>4, <1>5, <1>6, <1>7, <1>8 DEF Verified

\* A row is inserted for a file that has none: nothing names it yet.
LEMMA BeginStep ==
  ASSUME FilesIInv, NEW f \in Files, BeginUpload(f)
  PROVE  FilesIInv'
<1>1. /\ f \in Uploads /\ entry[f] = None
      /\ UNCHANGED <<storage, objects, latest, completes, draft, asking, jobs, output>>
  BY DEF BeginUpload
<1>2. PICK row \in {None, [version |-> None, upload |-> None]} : entry' = [entry EXCEPT ![f] = row]
  BY DEF BeginUpload
<1>3. row \in {None} \cup Entries /\ ([version |-> None, upload |-> None]).version = None
  BY DEF Entries
<1>4. entry'[f] = row /\ \A g \in Files : g # f => entry'[g] = entry[g]
  BY <1>2 DEF FilesIInv, FileTypes
<1>5. FileTypes'
  BY <1>1, <1>2, <1>3 DEF FilesIInv, FileTypes
<1>6. ~Ready(f) /\ ~Ready(f)'
  BY <1>1, <1>3, <1>4 DEF Ready
<1>7. \A g, v : Verified(g, v)' <=> Verified(g, v)
  BY <1>1 DEF Verified
<1>8. CallsKnow'
  <2>1. ASSUME NEW c \in Completers, completes[c].pc # "idle" PROVE entry'[completes[c].file] \in Entries
    <3>1. completes[c].file \in Files /\ entry[completes[c].file] \in Entries
      BY <2>1, KnownCall
    <3>2. CASE completes[c].file = f
      BY <3>1, <3>2, <1>1, <1>2, <1>4 DEF Entries
    <3> QED BY <3>1, <3>2, <1>4
  <2> QED BY <2>1, <1>1, <1>7 DEF FilesIInv, CallsKnow
<1>9. \A g \in Files : Ready(g) => Ready(g)' /\ entry'[g].version = entry[g].version
  BY <1>4, <1>6 DEF Ready
<1>10. RowsAreVerified'
  <2> SUFFICES ASSUME NEW g \in Files, Ready(g)' PROVE Verified(g, entry[g].version)'
    BY DEF RowsAreVerified
  <2>1. g # f /\ entry'[g] = entry[g]
    BY <1>4, <1>6
  <2>2. Verified(g, entry[g].version)
    BY <2>1 DEF FilesIInv, RowsAreVerified, Ready
  <2> QED BY <2>1, <2>2, <1>1 DEF Verified
<1>11. OutputsAreNew'
  <2>1. f \notin Outputs
    BY <1>1, FileAssumption
  <2>2. output # None => output \in Outputs /\ output \in Files
    BY DEF FilesIInv, FileTypes, Files
  <2> QED BY <1>1, <1>4, <2>1, <2>2 DEF FilesIInv, OutputsAreNew, Files
<1>12. LocalStays'
  BY <1>1 DEF FilesIInv, LocalStays
<1> QED BY <1>1, <1>5, <1>7, <1>8, <1>9, <1>10, <1>11, <1>12, KeepJobs DEF FilesIInv

\* A browser uploads a version, or a generation saves its output under a fresh id.
LEMMA UploadStep ==
  ASSUME FilesIInv, NEW f \in Files, Upload(f) \/ SaveOutput(f)
  PROVE  FilesIInv'
<1>1. PICK good \in BOOLEAN : Put(f, good)
  BY DEF Upload, SaveOutput
<1>2. UNCHANGED <<storage, entry, completes, draft, asking, jobs>>
  BY DEF Upload, SaveOutput
<1>3. /\ objects' \in [Files -> Seq(Objects)] /\ latest' \in [Files -> Nat \cup {None}]
      /\ objects'[f] # <<>> /\ \A g \in Files : g # f => objects'[g] = objects[g]
      /\ LocalStays'
      /\ \A g \in Files : \A v : Verified(g, v) => Verified(g, v)'
      /\ \A g \in Files : \A v : v \in DOMAIN objects[g] /\ objects[g][v].good => v \in DOMAIN objects'[g] /\ objects'[g][v].good
  BY <1>1, <1>2, PutStep
<1>4. CASE Upload(f)
  <2>1. output' = output /\ f \in Uploads /\ f \notin Outputs
    BY <1>4, FileAssumption DEF Upload
  <2>2. FileTypes'
    BY <1>2, <1>3, <2>1 DEF FilesIInv, FileTypes
  <2>3. output # None => output \in Outputs
    BY DEF FilesIInv, FileTypes
  <2>4. OutputsAreNew'
    BY <1>2, <1>3, <2>1, <2>3 DEF FilesIInv, OutputsAreNew, Files
  <2> QED BY <1>2, <1>3, <2>2, <2>4, KeepRows
<1>5. CASE SaveOutput(f)
  <2>1. output' = f /\ f \in Outputs /\ objects[f] = <<>>
    BY <1>5 DEF SaveOutput
  <2>2. FileTypes'
    BY <1>2, <1>3, <2>1 DEF FilesIInv, FileTypes
  <2>3. OutputsAreNew'
    BY <1>2, <1>3, <2>1 DEF FilesIInv, OutputsAreNew, Files
  <2> QED BY <1>2, <1>3, <2>2, <2>3, KeepRows
<1> QED BY <1>4, <1>5

\* The lifecycle rule takes pending versions of S3 only; what is verified is ready there.
LEMMA LifecycleStep ==
  ASSUME FilesIInv, NEW f \in Files, Hide(f) \/ Reclaim(f)
  PROVE  FilesIInv'
<1>1. storage = "s3" /\ UNCHANGED <<storage, entry, completes, draft, asking, jobs, output>>
  BY DEF Hide, Reclaim
<1>2. CASE Hide(f)
  <2>1. latest' = [latest EXCEPT ![f] = None] /\ UNCHANGED objects
    BY <1>2 DEF Hide
  <2>2. FileTypes' /\ LocalStays' /\ OutputsAreNew'
    BY <1>1, <2>1 DEF FilesIInv, FileTypes, LocalStays, OutputsAreNew
  <2>3. \A g, v : Verified(g, v) => Verified(g, v)'
    BY <1>1, <2>1 DEF Verified
  <2> QED BY <1>1, <2>1, <2>2, <2>3, KeepRows
<1>3. CASE Reclaim(f)
  <2>1. PICK v \in DOMAIN objects[f] : objects[f][v].tag = "pending" /\ objects' = [objects EXCEPT ![f][v].tag = "gone"]
    BY <1>3 DEF Reclaim
  <2>2. objects[f] \in Seq(Objects) /\ objects[f][v] \in Objects /\ latest' = latest
    BY <1>3, <2>1 DEF FilesIInv, FileTypes, Reclaim
  <2> DEFINE gone == [objects[f][v] EXCEPT !.tag = "gone"]
  <2>3. gone \in Objects /\ gone.good = objects[f][v].good
    BY <2>2 DEF Objects
  <2>4. objects' = [objects EXCEPT ![f] = [objects[f] EXCEPT ![v] = gone]]
    BY <2>1
  <2> HIDE DEF gone
  <2>5. [objects[f] EXCEPT ![v] = gone] \in Seq(Objects)
    BY <2>1, <2>2, <2>3
  <2>6. /\ objects' \in [Files -> Seq(Objects)] /\ \A g \in Files : g # f => objects'[g] = objects[g]
        /\ objects'[f] = [objects[f] EXCEPT ![v] = gone]
    BY <2>4, <2>5 DEF FilesIInv, FileTypes
  <2>7. /\ DOMAIN objects'[f] = DOMAIN objects[f] /\ objects'[f][v] = gone
        /\ \A w \in DOMAIN objects[f] : w # v => objects'[f][w] = objects[f][w]
    BY <2>1, <2>2, <2>6
  <2>8. \A g \in Files : \A w : Verified(g, w) => Verified(g, w)'
    BY <1>1, <2>1, <2>6, <2>7 DEF Verified
  <2>9. \A g \in Files : \A w : w \in DOMAIN objects[g] /\ objects[g][w].good => w \in DOMAIN objects'[g] /\ objects'[g][w].good
    BY <2>3, <2>6, <2>7
  <2>10. objects[f] # <<>> /\ objects'[f] # <<>>
    BY <2>1, <2>2, <2>7
  <2>11. FileTypes' /\ LocalStays'
    BY <1>1, <2>2, <2>6 DEF FilesIInv, FileTypes, LocalStays
  <2>12. OutputsAreNew'
    <3>1. output # None => output \in Files
      BY DEF FilesIInv, FileTypes, Files
    <3> QED BY <1>1, <2>6, <2>10, <3>1 DEF FilesIInv, OutputsAreNew, Files
  <2> QED BY <1>1, <2>8, <2>9, <2>11, <2>12, KeepRows
<1> QED BY <1>2, <1>3

-----------------------------------------------------------------------------
(* Complete.                                                               *)

\* Reading the row, and giving up, change nothing but the call; reading the object verifies it.
LEMMA CallStep ==
  ASSUME FilesIInv, NEW c \in Completers,
         (\E f \in Files : CompleteRow(c, f)) \/ CompleteGet(c) \/ CompleteFails(c)
  PROVE  FilesIInv'
<1>1. NoCall \in Calls /\ NoCall.pc = "idle"
  BY DEF NoCall, Calls
<1>2. UNCHANGED <<storage, entry, objects, latest, draft, asking, jobs, output>>
  BY DEF CompleteRow, CompleteGet, CompleteFails
<1>3. ASSUME NEW f \in Files, CompleteRow(c, f) PROVE FilesIInv'
  <2> DEFINE call == [pc |-> "get", file |-> f]
  <2>1. call \in Calls /\ call.pc = "get" /\ call.file = f
    BY DEF Calls
  <2>2. CallAt(c, call) /\ entry[f] # None
    BY <1>3 DEF CompleteRow
  <2>3. entry[f] \in Entries
    BY <2>2 DEF FilesIInv, FileTypes
  <2> HIDE DEF call
  <2> QED BY <1>2, <2>1, <2>2, <2>3, KeepObjects
<1>4. CASE CompleteGet(c)
  <2> DEFINE f == completes[c].file
             v == Fetched(f)
             call == [pc |-> "tag", file |-> f, version |-> v]
  <2>1. completes[c].pc = "get"
    BY <1>4 DEF CompleteGet
  <2>2. f \in Files /\ entry[f] \in Entries
    BY <2>1, KnownCall
  <2>3. CASE v # None /\ Version(f, v) /\ objects[f][v].good
    <3>1. v \in DOMAIN objects[f] /\ objects[f] \in Seq(Objects)
      BY <2>2, <2>3 DEF Version, FilesIInv, FileTypes
    <3>2. v \in Nat
      BY <3>1
    <3>3. call \in Calls /\ call.pc = "tag" /\ call.file = f /\ call.version = v
      BY <2>2, <3>2 DEF Calls
    <3>4. CallAt(c, call)
      BY <1>4, <2>3 DEF CompleteGet
    <3> HIDE DEF call, v
    <3> QED BY <1>2, <2>2, <2>3, <3>1, <3>3, <3>4, KeepObjects
  <2>4. CASE ~(v # None /\ Version(f, v) /\ objects[f][v].good)
    <3>1. CallAt(c, NoCall)
      BY <1>4, <2>4 DEF CompleteGet
    <3> QED BY <1>1, <1>2, <3>1, KeepObjects
  <2> QED BY <2>3, <2>4
<1>5. CASE CompleteFails(c)
  BY <1>1, <1>2, <1>5, KeepObjects DEF CompleteFails
<1> QED BY <1>3, <1>4, <1>5

\* The version that was verified is tagged: from now on it is verified.
LEMMA TagStep ==
  ASSUME FilesIInv, NEW c \in Completers, CompleteTag(c)
  PROVE  FilesIInv'
<1> DEFINE f == completes[c].file
           v == completes[c].version
           tagged == [objects[f][v] EXCEPT !.tag = "ready"]
           call == [completes[c] EXCEPT !.pc = "update"]
<1>1. completes[c].pc = "tag" /\ UNCHANGED <<storage, entry, latest, draft, asking, jobs, output>>
  BY DEF CompleteTag
<1>2. /\ f \in Files /\ entry[f] \in Entries /\ v \in Nat
      /\ completes[c] \in [pc : {"tag", "update"}, file : Files, version : Nat]
      /\ v \in DOMAIN objects[f] /\ objects[f][v].good
  BY <1>1, KnownCall DEF FilesIInv, CallsKnow
<1>3. objects[f] \in Seq(Objects) /\ objects[f][v] \in Objects
  BY <1>2 DEF FilesIInv, FileTypes
<1>4. CASE ~Version(f, v)
  <2>1. CallAt(c, NoCall) /\ UNCHANGED objects
    BY <1>4 DEF CompleteTag, Tagged
  <2>2. NoCall \in Calls /\ NoCall.pc = "idle"
    BY DEF NoCall, Calls
  <2> QED BY <1>1, <2>1, <2>2, KeepObjects
<1>5. CASE Version(f, v)
  <2>1. completes' = [completes EXCEPT ![c] = call]
    BY <1>5 DEF CompleteTag, Tagged, CallAt
  <2>2. call \in Calls /\ call.pc = "update" /\ call.file = f /\ call.version = v
    BY <1>2 DEF Calls
  <2>3. CASE storage # "s3"
    <3>1. storage = "local" /\ UNCHANGED objects
      BY <1>5, <2>3 DEF CompleteTag, Tagged, FilesIInv, FileTypes
    <3>2. Verified(f, v)
      BY <1>2, <3>1 DEF Verified
    <3>3. CallAt(c, call)
      BY <2>1 DEF CallAt
    <3> HIDE DEF call, f, v
    <3> QED BY <1>1, <1>2, <2>2, <3>1, <3>2, <3>3, KeepObjects
  <2>4. CASE storage = "s3"
    <3>1. objects' = [objects EXCEPT ![f] = [objects[f] EXCEPT ![v] = tagged]]
      BY <1>5, <2>4 DEF CompleteTag, Tagged
    <3>2. tagged \in Objects /\ tagged.good = objects[f][v].good /\ tagged.tag = "ready"
      BY <1>3 DEF Objects
    <3> HIDE DEF tagged, call, f, v
    <3>3. [objects[f] EXCEPT ![v] = tagged] \in Seq(Objects)
      BY <1>2, <1>3, <3>2
    <3>4. /\ objects' \in [Files -> Seq(Objects)] /\ \A g \in Files : g # f => objects'[g] = objects[g]
          /\ objects'[f] = [objects[f] EXCEPT ![v] = tagged]
      BY <1>2, <3>1, <3>3 DEF FilesIInv, FileTypes
    <3>5. /\ DOMAIN objects'[f] = DOMAIN objects[f] /\ objects'[f][v] = tagged
          /\ \A w \in DOMAIN objects[f] : w # v => objects'[f][w] = objects[f][w]
      BY <1>2, <1>3, <3>4
    <3>6. \A g \in Files : \A w : Verified(g, w) => Verified(g, w)'
      BY <1>1, <3>2, <3>4, <3>5 DEF Verified
    <3>7. \A g \in Files : \A w : w \in DOMAIN objects[g] /\ objects[g][w].good => w \in DOMAIN objects'[g] /\ objects'[g][w].good
      BY <3>2, <3>4, <3>5
    <3>8. v \in DOMAIN objects'[f] /\ objects'[f][v].good /\ objects'[f][v].tag = "ready"
      BY <1>2, <3>2, <3>5 DEF f, v
    <3>9. \A d \in Completers : completes'[d] = IF d = c THEN call ELSE completes[d]
      BY <2>1 DEF FilesIInv, FileTypes
    <3>10. FileTypes' /\ LocalStays'
      BY <1>1, <2>1, <2>2, <2>4, <3>4 DEF FilesIInv, FileTypes, LocalStays
    <3>11. CallsKnow'
      <4> SUFFICES ASSUME NEW d \in Completers
                   PROVE  /\ completes'[d].pc # "idle" => entry'[completes'[d].file] \in Entries
                          /\ completes'[d].pc = "tag" =>
                               /\ completes'[d].version \in DOMAIN objects'[completes'[d].file]
                               /\ objects'[completes'[d].file][completes'[d].version].good
                          /\ completes'[d].pc = "update" => Verified(completes[d].file, completes[d].version)'
        BY DEF CallsKnow
      <4>1. CASE d = c
        <5>1. completes'[d] = call
          BY <4>1, <3>9
        <5> QED BY <5>1, <1>1, <1>2, <2>2, <3>8 DEF Verified
      <4>2. CASE d # c /\ completes[d].pc = "idle"
        BY <4>2, <3>9
      <4>3. CASE d # c /\ completes[d].pc # "idle"
        <5>1. completes[d].file \in Files /\ entry[completes[d].file] \in Entries /\ completes'[d] = completes[d]
          BY <4>3, <3>9, KnownCall
        <5>2. completes[d].pc = "update" => Verified(completes[d].file, completes[d].version)
          BY DEF FilesIInv, CallsKnow
        <5>3. completes[d].pc = "update" =>
                /\ completes[d].version \in DOMAIN objects'[completes[d].file]
                /\ objects'[completes[d].file][completes[d].version].good
                /\ objects'[completes[d].file][completes[d].version].tag = "ready" \/ storage' = "local"
          BY <5>1, <5>2, <3>6 DEF Verified
        <5>4. completes[d].pc = "tag" =>
                /\ completes[d].version \in DOMAIN objects'[completes[d].file]
                /\ objects'[completes[d].file][completes[d].version].good
          BY <5>1, <3>7 DEF FilesIInv, CallsKnow
        <5> QED BY <1>1, <5>1, <5>3, <5>4 DEF Verified
      <4> QED BY <4>1, <4>2, <4>3
    <3>12. RowsAreVerified'
      BY <1>1, <3>6 DEF FilesIInv, RowsAreVerified, Ready, Verified
    <3>13. OutputsAreNew'
      <4>1. objects[f] # <<>> /\ objects'[f] # <<>>
        BY <1>2, <1>3, <3>5
      <4>2. output # None => output \in Files
        BY DEF FilesIInv, FileTypes, Files
      <4> QED BY <1>1, <3>4, <4>1, <4>2 DEF FilesIInv, OutputsAreNew, Files
    <3> QED BY <1>1, <3>6, <3>10, <3>11, <3>12, <3>13, KeepJobs DEF FilesIInv, Ready
  <2> QED BY <2>3, <2>4
<1> QED BY <1>4, <1>5

\* A file that is not ready yet becomes ready at a verified version; a ready one keeps its version.
LEMMA UpdateStep ==
  ASSUME FilesIInv, NEW c \in Completers, CompleteUpdate(c)
  PROVE  FilesIInv'
<1> DEFINE f == completes[c].file
           v == completes[c].version
           row == [entry[f] EXCEPT !.version = v]
<1>1. /\ completes[c].pc = "update" /\ completes' = [completes EXCEPT ![c] = NoCall]
      /\ UNCHANGED <<storage, objects, latest, draft, asking, jobs, output>>
  BY DEF CompleteUpdate, CallAt
<1>2. f \in Files /\ entry[f] \in Entries /\ v \in Nat /\ Verified(f, v)
  BY <1>1, KnownCall DEF FilesIInv, CallsKnow
<1>3. NoCall \in Calls /\ NoCall.pc = "idle"
  BY DEF NoCall, Calls
<1>4. row \in Entries /\ row.version = v
  BY <1>2 DEF Entries
<1>5. CASE Ready(f)
  <2>1. entry' = entry /\ CallAt(c, NoCall)
    BY <1>5 DEF CompleteUpdate
  <2> QED BY <1>1, <1>3, <2>1, KeepObjects
<1>6. CASE ~Ready(f)
  <2>1. entry' = [entry EXCEPT ![f] = row]
    BY <1>6 DEF CompleteUpdate
  <2> HIDE DEF row
  <2>2. entry'[f] = row /\ \A g \in Files : g # f => entry'[g] = entry[g]
    BY <1>2, <2>1 DEF FilesIInv, FileTypes
  <2>3. FileTypes' /\ LocalStays'
    BY <1>1, <1>3, <1>4, <2>1 DEF FilesIInv, FileTypes, LocalStays
  <2>4. \A g, w : Verified(g, w)' <=> Verified(g, w)
    BY <1>1 DEF Verified
  <2>5. \A g \in Files : Ready(g) => Ready(g)' /\ entry'[g].version = entry[g].version
    BY <1>6, <2>2 DEF Ready
  <2>6. RowsAreVerified'
    <3> SUFFICES ASSUME NEW g \in Files, Ready(g)'
                 PROVE  Verified(g, entry[g].version)'
      BY DEF RowsAreVerified
    <3>1. CASE g = f
      BY <3>1, <1>1, <1>2, <1>4, <2>2 DEF Verified
    <3>2. CASE g # f
      <4>1. Ready(g) /\ entry'[g] = entry[g]
        BY <3>2, <2>2 DEF Ready
      <4>2. Verified(g, entry[g].version)
        BY <4>1 DEF FilesIInv, RowsAreVerified
      <4> QED BY <4>1, <4>2, <1>1 DEF Verified
    <3> QED BY <3>1, <3>2
  <2>7. \A d \in Completers : completes'[d] = IF d = c THEN NoCall ELSE completes[d]
    BY <1>1 DEF FilesIInv, FileTypes
  <2>8. CallsKnow'
    <3> SUFFICES ASSUME NEW d \in Completers, completes'[d].pc # "idle"
                 PROVE  /\ entry'[completes'[d].file] \in Entries
                        /\ completes'[d].pc = "tag" =>
                             /\ completes'[d].version \in DOMAIN objects'[completes'[d].file]
                             /\ objects'[completes'[d].file][completes'[d].version].good
                        /\ completes'[d].pc = "update" => Verified(completes[d].file, completes[d].version)'
      BY DEF CallsKnow
    <3>1. d # c /\ completes'[d] = completes[d]
      BY <1>3, <2>7
    <3>2. completes[d].file \in Files /\ entry[completes[d].file] \in Entries
      BY <3>1, KnownCall
    <3>3. entry'[completes[d].file] \in Entries
      BY <3>2, <1>4, <2>2
    <3>4. completes[d].pc = "update" => Verified(completes[d].file, completes[d].version)
      BY DEF FilesIInv, CallsKnow
    <3> QED BY <1>1, <3>1, <3>3, <3>4 DEF FilesIInv, CallsKnow, Verified
  <2>9. OutputsAreNew'
    <3>1. objects[f] # <<>>
      BY <1>2 DEF Verified, FilesIInv, FileTypes
    <3>2. output # None => output # f /\ output \in Files
      <4>1. output # None => output \in Files
        BY DEF FilesIInv, FileTypes, Files
      <4>2. entry[f] # None
        BY <1>2, FileAssumption DEF Entries
      <4> QED BY <4>1, <4>2 DEF FilesIInv, OutputsAreNew
    <3> QED BY <1>1, <2>2, <3>1, <3>2 DEF FilesIInv, OutputsAreNew, Files
  <2> QED BY <1>1, <2>3, <2>4, <2>5, <2>6, <2>8, <2>9, KeepJobs DEF FilesIInv
<1> QED BY <1>5, <1>6

-----------------------------------------------------------------------------
(* Drafts, jobs and generations.                                           *)

\* A draft takes ready files under a new version; what was read before is older.
LEMMA SaveStep ==
  ASSUME FilesIInv, NEW files \in SUBSET Files, SaveFiles(files)
  PROVE  FilesIInv'
<1>1. /\ draft' = [version |-> draft.version + 1, files |-> files] /\ \A f \in files : Ready(f)
      /\ UNCHANGED <<storage, entry, objects, latest, completes, asking, jobs, output>>
  BY DEF SaveFiles, Allowed
<1>2. draft.version \in Nat /\ draft' \in Drafts /\ draft'.version = draft.version + 1 /\ draft'.files = files
  BY <1>1 DEF FilesIInv, FileTypes, Drafts
<1>3. FileTypes' /\ LocalStays' /\ CallsKnow' /\ RowsAreVerified' /\ OutputsAreNew'
  BY <1>1, <1>2 DEF FilesIInv, FileTypes, LocalStays, CallsKnow, RowsAreVerified, OutputsAreNew, Ready, Verified
<1>4. DraftIsReady'
  BY <1>1, <1>2 DEF DraftIsReady, Ready
<1>5. JobsAreReady'
  BY <1>1 DEF FilesIInv, JobsAreReady, JobIsReady, Ready, Verified
<1>6. AskingIsOlder'
  BY <1>1, <1>2 DEF FilesIInv, FileTypes, AskingIsOlder, Drafts
<1>7. JobsAreOlder'
  <2> SUFFICES ASSUME NEW job \in jobs
               PROVE  job.version <= draft.version + 1 /\ job.version # draft.version + 1
    BY <1>1, <1>2 DEF JobsAreOlder
  <2> QED BY <1>2 DEF FilesIInv, FileTypes, IsJob, JobsAreOlder
<1> QED BY <1>3, <1>4, <1>5, <1>6, <1>7 DEF FilesIInv

\* A job that names ready files, and those of the draft when it has the draft's version.
LEMMA KeepFiles ==
  ASSUME FilesIInv, NEW job, IsJob(job), JobIsReady(job),
         job.version <= draft.version, job.version = draft.version => job.files = draft.files,
         jobs' \subseteq jobs \cup {job},
         asking' \in {None} \cup {asking} \cup {draft},
         UNCHANGED <<storage, entry, objects, latest, completes, draft, output>>
  PROVE  FilesIInv'
<1>1. FileTypes' /\ LocalStays' /\ CallsKnow' /\ RowsAreVerified' /\ OutputsAreNew' /\ DraftIsReady'
  BY DEF FilesIInv, FileTypes, LocalStays, CallsKnow, RowsAreVerified, OutputsAreNew, DraftIsReady, Ready, Verified
<1>2. AskingIsOlder'
  BY DEF FilesIInv, FileTypes, AskingIsOlder, Drafts
<1>3. JobsAreReady'
  <2>1. \A j \in jobs' : JobIsReady(j)
    BY DEF FilesIInv, JobsAreReady
  <2> QED BY <2>1 DEF JobsAreReady, JobIsReady, Ready, Verified
<1>4. JobsAreOlder'
  BY DEF FilesIInv, JobsAreOlder
<1> QED BY <1>1, <1>2, <1>3, <1>4 DEF FilesIInv

\* A new job of the draft as it is.
LEMMA NewJobStep ==
  ASSUME FilesIInv, NEW generates,
         jobs' \subseteq jobs \cup {[version |-> draft.version, files |-> draft.files, generates |-> generates, found |-> None]},
         asking' \in {None} \cup {asking} \cup {draft},
         UNCHANGED <<storage, entry, objects, latest, completes, draft, output>>
  PROVE  FilesIInv'
<1> DEFINE job == [version |-> draft.version, files |-> draft.files, generates |-> generates, found |-> None]
<1>1. draft.version \in Nat /\ draft.files \in SUBSET Files
  BY DEF FilesIInv, FileTypes, Drafts
<1>2. /\ job.version = draft.version /\ job.files = draft.files /\ job.found = None
      /\ IsJob(job) /\ jobs' \subseteq jobs \cup {job}
  BY <1>1 DEF IsJob
<1> HIDE DEF job
<1>3. JobIsReady(job)
  BY <1>2 DEF JobIsReady, FilesIInv, DraftIsReady
<1>4. job.version <= draft.version
  BY <1>1, <1>2
<1> QED BY <1>2, <1>3, <1>4, KeepFiles

\* A submission, a generation, and the location of a job's files.
LEMMA JobStep ==
  ASSUME FilesIInv, SubmitJob \/ AskGeneration \/ CreateGenerationJob \/ (\E job \in jobs : Resolve(job))
  PROVE  FilesIInv'
<1>1. UNCHANGED <<storage, entry, objects, latest, completes, draft, output>>
  BY DEF SubmitJob, AskGeneration, CreateGenerationJob, Resolve
<1>2. CASE SubmitJob
  <2>1. /\ jobs' \subseteq jobs \cup {[version |-> draft.version, files |-> draft.files, generates |-> FALSE, found |-> None]}
        /\ asking' = asking
    BY <1>2 DEF SubmitJob, NewJob
  <2> QED BY <1>1, <2>1, NewJobStep
<1>3. CASE AskGeneration
  BY <1>1, <1>3, NewJobStep DEF AskGeneration
<1>4. CASE CreateGenerationJob
  <2>1. asking # None /\ asking' = None
    BY <1>4 DEF CreateGenerationJob
  <2>2. jobs' \subseteq jobs \cup {[version |-> draft.version, files |-> draft.files, generates |-> TRUE, found |-> None]}
    BY <1>4, <2>1 DEF CreateGenerationJob, NewJob, Pinned, FilesIInv, AskingIsOlder
  <2> QED BY <1>1, <2>1, <2>2, NewJobStep
<1>5. ASSUME NEW old \in jobs, Resolve(old) PROVE FilesIInv'
  <2> DEFINE at == [f \in old.files |-> entry[f].version]
             job == [old EXCEPT !.found = at]
  <2>1. /\ jobs' = (jobs \ {old}) \cup {job} /\ asking' = asking
        /\ \A f \in old.files : Ready(f)
    BY <1>5 DEF Resolve
  <2>2. IsJob(old) /\ JobIsReady(old) /\ old.version <= draft.version
        /\ (old.version = draft.version => old.files = draft.files)
    BY DEF FilesIInv, FileTypes, JobsAreReady, JobsAreOlder
  <2>3. /\ job = [version |-> old.version, files |-> old.files, generates |-> old.generates, found |-> at]
        /\ job.version = old.version /\ job.files = old.files /\ job.found = at
    BY <2>2 DEF IsJob
  <2>4. \A f \in old.files : at[f] = entry[f].version /\ f \in Files
    BY <2>2 DEF IsJob
  <2> HIDE DEF at, job
  <2>5. IsJob(job)
    BY <2>2, <2>3 DEF IsJob
  <2>6. JobIsReady(job)
    BY <2>1, <2>3, <2>4 DEF JobIsReady, FilesIInv, RowsAreVerified
  <2> QED BY <1>1, <2>1, <2>2, <2>3, <2>5, <2>6, KeepFiles
<1> QED BY <1>2, <1>3, <1>4, <1>5

\* The saved output gets its row, which no draft and no job can have named.
LEMMA FinishStep ==
  ASSUME FilesIInv, FinishGeneration
  PROVE  FilesIInv'
<1> DEFINE row == [version |-> None, upload |-> Len(objects[output])]
<1>1. output \in Files /\ output \in Outputs /\ entry[output] = None /\ objects[output] # <<>> /\ ~Ready(output)
  BY DEF FinishGeneration, FilesIInv, FileTypes, OutputsAreNew, Files, Ready
<1>2. row \in Entries /\ row.version = None
  <2>1. Len(objects[output]) \in Nat
    BY <1>1 DEF FilesIInv, FileTypes
  <2> QED BY <2>1 DEF Entries
<1>3. /\ entry' = [entry EXCEPT ![output] = row] \/ entry' = entry
      /\ output' = None /\ UNCHANGED <<storage, objects, latest, completes, draft, asking, jobs>>
  BY DEF FinishGeneration
<1> HIDE DEF row
<1>4. /\ \A g \in Files : g # output => entry'[g] = entry[g]
      /\ entry'[output] = row \/ entry'[output] = entry[output]
  BY <1>1, <1>3 DEF FilesIInv, FileTypes
<1>5. ~(entry'[output] # None /\ entry'[output].version # None)
  BY <1>1, <1>2, <1>4
<1>6. FileTypes' /\ LocalStays'
  BY <1>1, <1>2, <1>3 DEF FilesIInv, FileTypes, LocalStays
<1>7. \A g, v : Verified(g, v)' <=> Verified(g, v)
  BY <1>3 DEF Verified
<1>8. \A g \in Files : Ready(g) => Ready(g)' /\ entry'[g].version = entry[g].version
  BY <1>1, <1>4 DEF Ready
<1>9. RowsAreVerified'
  <2> SUFFICES ASSUME NEW g \in Files, Ready(g)'
               PROVE  Verified(g, entry[g].version)'
    BY DEF RowsAreVerified
  <2>1. g # output /\ entry'[g] = entry[g] /\ Ready(g)
    BY <1>4, <1>5 DEF Ready
  <2>2. Verified(g, entry[g].version)
    BY <2>1 DEF FilesIInv, RowsAreVerified
  <2> QED BY <2>1, <2>2, <1>3 DEF Verified
<1>10. CallsKnow'
  <2>1. ASSUME NEW c \in Completers, completes[c].pc # "idle" PROVE entry'[completes[c].file] \in Entries
    BY <2>1, <1>2, <1>4, KnownCall
  <2> QED BY <2>1, <1>3, <1>7 DEF FilesIInv, CallsKnow
<1>11. OutputsAreNew'
  BY <1>1, <1>3, <1>4 DEF FilesIInv, OutputsAreNew, Files
<1> QED BY <1>3, <1>6, <1>7, <1>8, <1>9, <1>10, <1>11, KeepJobs DEF FilesIInv

-----------------------------------------------------------------------------
\* There is no file, no call and no job at the start.
LEMMA FilesInitHolds == FilesInit => FilesIInv
<1> SUFFICES ASSUME FilesInit PROVE FilesIInv
  OBVIOUS
<1>1. NoCall \in Calls /\ NoCall.pc = "idle"
  BY DEF NoCall, Calls
<1>2. FileTypes
  BY <1>1, FileAssumption DEF FilesInit, FileTypes, Drafts
<1>3. LocalStays /\ CallsKnow /\ RowsAreVerified /\ OutputsAreNew
  BY <1>1 DEF FilesInit, LocalStays, CallsKnow, RowsAreVerified, OutputsAreNew, Ready, Files
<1>4. DraftIsReady /\ AskingIsOlder /\ JobsAreReady /\ JobsAreOlder
  BY DEF FilesInit, DraftIsReady, AskingIsOlder, JobsAreReady, JobsAreOlder
<1> QED BY <1>2, <1>3, <1>4 DEF FilesIInv

\* Every step preserves FilesIInv.
LEMMA FilesStepHolds == FilesIInv /\ [FilesNext]_fileVars => FilesIInv'
<1> SUFFICES ASSUME FilesIInv, [FilesNext]_fileVars PROVE FilesIInv'
  OBVIOUS
<1>1. ASSUME NEW f \in Files, BeginUpload(f) PROVE FilesIInv'
  BY <1>1, BeginStep
<1>2. ASSUME NEW f \in Files, Upload(f) \/ SaveOutput(f) PROVE FilesIInv'
  BY <1>2, UploadStep
<1>3. ASSUME NEW f \in Files, Hide(f) \/ Reclaim(f) PROVE FilesIInv'
  BY <1>3, LifecycleStep
<1>4. ASSUME NEW c \in Completers, (\E f \in Files : CompleteRow(c, f)) \/ CompleteGet(c) \/ CompleteFails(c) PROVE FilesIInv'
  BY <1>4, CallStep
<1>5. ASSUME NEW c \in Completers, CompleteTag(c) PROVE FilesIInv'
  BY <1>5, TagStep
<1>6. ASSUME NEW c \in Completers, CompleteUpdate(c) PROVE FilesIInv'
  BY <1>6, UpdateStep
<1>7. ASSUME NEW files \in SUBSET Files, SaveFiles(files) PROVE FilesIInv'
  BY <1>7, SaveStep
<1>8. CASE SubmitJob \/ AskGeneration \/ CreateGenerationJob \/ (\E job \in jobs : Resolve(job))
  BY <1>8, JobStep
<1>9. CASE FinishGeneration
  BY <1>9, FinishStep
<1>10. CASE UNCHANGED fileVars
  <2>1. FileTypes' /\ LocalStays' /\ CallsKnow' /\ RowsAreVerified' /\ OutputsAreNew'
    BY <1>10 DEF fileVars, FilesIInv, FileTypes, LocalStays, CallsKnow, RowsAreVerified, OutputsAreNew, Ready, Verified
  <2>2. DraftIsReady' /\ AskingIsOlder' /\ JobsAreReady' /\ JobsAreOlder'
    BY <1>10, KeepJobs DEF fileVars, Ready, Verified
  <2> QED BY <2>1, <2>2 DEF FilesIInv
<1> QED BY <1>1, <1>2, <1>3, <1>4, <1>5, <1>6, <1>7, <1>8, <1>9, <1>10 DEF FilesNext

\* With any number of files, versions, repeated uploads, open calls and jobs: what is ready keeps
\* its bytes, and what drafts and jobs name can be judged.
THEOREM FilesAlwaysUsable == FilesSpec => []FilesStayUsable
BY FilesInitHolds, FilesStepHolds, FilesIInvImplies, PTL DEF FilesSpec

-----------------------------------------------------------------------------
(***************************************************************************)
(* Scores follow the cases, for every job and every course of its cases.   *)
(* ScoringIInv says of each case why it was or was not skipped, in the     *)
(* words of the API's own rules, and of the result that it is one of the   *)
(* three that a host sends.                                                *)
(***************************************************************************)

ScoringTypes ==
  /\ task \in Jobs /\ truth \in [Cases -> Ends]
  /\ judged \in Seq(CaseVerdicts) /\ Len(judged) <= Len(task.cases)

\* A case that ran has the verdict of its run.
RunsCount == \A i \in DOMAIN judged : judged[i] # "SKIPPED" => judged[i] = Verdict(truth[i])

\* Of a scored execution the cases are skipped that judgedAsScored lets it skip, and all of these.
SkipsOfGroups == Scored => \A i \in DOMAIN judged :
  /\ Ended(judged, i) => judged[i] = "SKIPPED"
  /\ judged[i] = "SKIPPED" /\ ~Ended(judged, i) => late
  /\ BudgetGone(judged, i) => judged[i] = "SKIPPED"

\* Of another the rest is skipped after two that took too long.
SlowBefore(cases, i) == {j \in 1..(i - 1) : cases[j] = "TLE"}
SkipsOfRest == ~Scored => \A i \in DOMAIN judged : judged[i] = "SKIPPED" =>
  /\ ~task.sample /\ Cardinality(SlowBefore(judged, i)) >= 2
  /\ \A j \in i..Len(judged) : judged[j] = "SKIPPED"

\* The result that was sent, and what became of it.
ScoresSent ==
  IF ~Scored THEN {None}
  ELSE IF task.mode = "groups" THEN {Scores(GroupScores(judged))}
  ELSE {Scores(s) : s \in Possible(task)}
Sent(result) ==
  \/ result = Failed
  \/ result = Result("CE", <<>>, IF Scored THEN Scores([g \in Groups |-> 0]) ELSE None)
  \/ Len(judged) = Len(task.cases) /\ \E s \in ScoresSent : result = Result(Overall(judged), judged, s)
ReportFits ==
  /\ phase \in {"compile", "cases", "sent", "ended"}
  /\ phase \in {"sent", "ended"} => Sent(report)
  /\ stored = IF phase = "ended" THEN Answer ELSE None

ScoringIInv == ScoringTypes /\ RunsCount /\ SkipsOfGroups /\ SkipsOfRest /\ ReportFits

-----------------------------------------------------------------------------
\* The verdict is AC exactly if no case has another, and never SKIPPED.
LEMMA OverallFacts ==
  ASSUME NEW cases \in Seq(CaseVerdicts)
  PROVE  /\ Overall(cases) \in CaseVerdicts \ {"SKIPPED"}
         /\ Overall(cases) = "AC" <=> \A i \in DOMAIN cases : cases[i] \in {"AC", "SKIPPED"}
<1> DEFINE bad == {i \in DOMAIN cases : cases[i] \notin {"AC", "SKIPPED"}}
<1>1. Overall(cases) = IF bad = {} THEN "AC" ELSE cases[Min(bad)]
  BY DEF Overall
<1>2. CASE bad = {}
  <2>1. \A i \in DOMAIN cases : cases[i] \in {"AC", "SKIPPED"}
    BY <1>2
  <2> QED BY <1>1, <1>2, <2>1 DEF CaseVerdicts
<1>3. CASE bad # {}
  <2>1. bad \subseteq Nat
    OBVIOUS
  <2>2. Min(bad) \in bad
    BY <1>3, <2>1, LeastCase
  <2>3. Min(bad) \in DOMAIN cases /\ cases[Min(bad)] \notin {"AC", "SKIPPED"}
    BY <2>2
  <2>4. Overall(cases) = cases[Min(bad)] /\ cases[Min(bad)] \in CaseVerdicts
    BY <1>1, <1>3, <2>3
  <2> QED BY <2>3, <2>4
<1> QED BY <1>2, <1>3

\* A case that runs is accepted exactly if it comes to what is right, and is not skipped.
LEMMA VerdictFacts ==
  ASSUME NEW end \in Ends
  PROVE  /\ Verdict(end) \in CaseVerdicts \ {"SKIPPED"}
         /\ (Verdict(end) = "AC" <=> end = "right")
<1>1. end \in AllEnds
  BY ScoringAssumption
<1> QED BY <1>1 DEF AllEnds, Verdict, Metrics, CaseVerdicts

-----------------------------------------------------------------------------
\* Two of anything are not none.
LEMMA TwoAreSome ==
  ASSUME NEW S, Cardinality(S) >= 2
  PROVE  \E x \in S : TRUE
<1> SUFFICES ASSUME S = {} PROVE FALSE
  OBVIOUS
<1> QED BY FS_EmptySet

\* The cases of group g before case i that took too long.
SlowOf(cases, i, g) == {j \in 1..(i - 1) : cases[j] = "TLE" /\ g \in task.cases[j]}
LEMMA SlowsAre ==
  ASSUME NEW cases, NEW i, NEW g
  PROVE  Slows(cases, i, g) = Cardinality(SlowOf(cases, i, g))
BY DEF Slows, SlowOf

\* A case before which its groups ended comes after one that took too long.
LEMMA EndedAfterSlow ==
  ASSUME NEW cases, NEW i \in Nat, Ended(cases, i)
  PROVE  /\ task.cases[i] # {}
         /\ \A g \in task.cases[i] : \E j \in 1..(i - 1) : cases[j] = "TLE" /\ g \in task.cases[j]
<1>1. \A g \in task.cases[i] : \E j \in SlowOf(cases, i, g) : TRUE
  BY SlowsAre, TwoAreSome DEF Ended
<1> QED BY <1>1 DEF Ended, SlowOf

\* Another case changes nothing of what is said of the cases so far and of the next.
LEMMA OneMoreCase ==
  ASSUME NEW cases \in Seq(CaseVerdicts), NEW v \in CaseVerdicts, NEW more, more = Append(cases, v)
  PROVE  /\ more \in Seq(CaseVerdicts) /\ Len(more) = Len(cases) + 1 /\ more[Len(cases) + 1] = v
         /\ \A i \in 1..Len(cases) : more[i] = cases[i]
         /\ \A i \in 1..(Len(cases) + 1) : /\ Ended(more, i) = Ended(cases, i)
                                           /\ BudgetGone(more, i) = BudgetGone(cases, i)
                                           /\ SlowBefore(more, i) = SlowBefore(cases, i)
<1>1. /\ more \in Seq(CaseVerdicts) /\ Len(more) = Len(cases) + 1 /\ more[Len(cases) + 1] = v
      /\ \A i \in 1..Len(cases) : more[i] = cases[i]
  OBVIOUS
<1>2. \A i \in 1..(Len(cases) + 1) : \A g : SlowOf(more, i, g) = SlowOf(cases, i, g)
  BY <1>1 DEF SlowOf
<1>3. \A i \in 1..(Len(cases) + 1) : Ended(more, i) = Ended(cases, i)
  BY <1>2, SlowsAre DEF Ended
<1>4. \A i \in 1..(Len(cases) + 1) : BudgetGone(more, i) = BudgetGone(cases, i)
  BY <1>1, <1>3 DEF BudgetGone
<1>5. \A i \in 1..(Len(cases) + 1) : SlowBefore(more, i) = SlowBefore(cases, i)
  BY <1>1 DEF SlowBefore
<1> QED BY <1>1, <1>3, <1>4, <1>5

\* What the host counts before a case is what the API counts.
LEMMA HostCounts ==
  ASSUME judged \in Seq(CaseVerdicts)
  PROVE  /\ Stopped(Len(judged) + 1) = Ended(judged, Len(judged) + 1)
         /\ Over <=> ~Scored /\ ~task.sample /\ Cardinality(SlowBefore(judged, Len(judged) + 1)) >= 2
<1>1. DOMAIN judged = 1..(Len(judged) + 1 - 1)
  OBVIOUS
<1>2. \A g : Slow(g) = Slows(judged, Len(judged) + 1, g)
  BY <1>1 DEF Slow, Slows
<1> QED BY <1>1, <1>2 DEF Stopped, Ended, Over, SlowBefore

\* There are more cases that took too long before a later case.
LEMMA SlowLater ==
  ASSUME judged \in Seq(CaseVerdicts), NEW i \in 1..(Len(judged) + 1)
  PROVE  /\ IsFiniteSet(SlowBefore(judged, i)) /\ Cardinality(SlowBefore(judged, i)) \in Nat
         /\ Cardinality(SlowBefore(judged, i)) <= Cardinality(SlowBefore(judged, Len(judged) + 1))
<1>1. IsFiniteSet(1..Len(judged)) 
  BY FS_Interval
<1>2. SlowBefore(judged, Len(judged) + 1) \in SUBSET (1..Len(judged))
  BY DEF SlowBefore
<1>3. IsFiniteSet(SlowBefore(judged, Len(judged) + 1))
  BY <1>1, <1>2, FS_Subset
<1>4. SlowBefore(judged, i) \in SUBSET SlowBefore(judged, Len(judged) + 1)
  BY DEF SlowBefore
<1>5. IsFiniteSet(SlowBefore(judged, i))
      /\ Cardinality(SlowBefore(judged, i)) <= Cardinality(SlowBefore(judged, Len(judged) + 1))
  BY <1>3, <1>4, FS_Subset
<1> QED BY <1>5, FS_CardinalityType


\* The next case is skipped if its groups ended, and otherwise if time did, or the whole if two
\* took too long.
LEMMA CaseAdded ==
  ASSUME ScoringIInv, phase = "cases", Len(judged) + 1 \in Cases, NEW v \in CaseVerdicts,
         judged' = Append(judged, v), UNCHANGED <<task, truth, phase, late, report, stored>>,
         v # "SKIPPED" => v = Verdict(truth[Len(judged) + 1]),
         v = "SKIPPED" <=> IF Scored THEN late \/ Ended(judged, Len(judged) + 1) ELSE Over
  PROVE  ScoringIInv'
<1>1. PICK n : n = Len(judged)
  OBVIOUS
<1>2. judged \in Seq(CaseVerdicts) /\ n \in Nat /\ DOMAIN judged = 1..n /\ task.cases \in Seq(SUBSET DOMAIN task.points)
  <2>1. judged \in Seq(CaseVerdicts) /\ task \in Jobs
    BY DEF ScoringIInv, ScoringTypes
  <2>2. task.cases \in Seq(SUBSET DOMAIN task.points)
    BY <2>1, ScoringAssumption
  <2> QED BY <1>1, <2>1, <2>2
<1>3. PICK more : more = Append(judged, v)
  OBVIOUS
<1>4. /\ more \in Seq(CaseVerdicts) /\ Len(more) = n + 1 /\ more[n + 1] = v /\ DOMAIN more = 1..(n + 1)
      /\ \A i \in 1..n : more[i] = judged[i]
      /\ \A i \in 1..(n + 1) : /\ Ended(more, i) = Ended(judged, i)
                               /\ BudgetGone(more, i) = BudgetGone(judged, i)
                               /\ SlowBefore(more, i) = SlowBefore(judged, i)
  <2>0. judged \in Seq(CaseVerdicts)
    BY <1>2
  <2>1. /\ more \in Seq(CaseVerdicts) /\ Len(more) = n + 1 /\ more[n + 1] = v
        /\ \A i \in 1..n : more[i] = judged[i]
    BY <1>1, <1>3, <2>0
  <2>3. \A i \in 1..(Len(judged) + 1) : Ended(more, i) = Ended(judged, i)
    BY <1>3, <2>0, OneMoreCase
  <2>4. \A i \in 1..(Len(judged) + 1) : BudgetGone(more, i) = BudgetGone(judged, i)
    BY <1>3, <2>0, OneMoreCase
  <2>5. \A i \in 1..(Len(judged) + 1) : SlowBefore(more, i) = SlowBefore(judged, i)
    BY <1>3, <2>0, OneMoreCase
  <2>2. DOMAIN more = 1..(n + 1)
    BY <2>1
  <2> QED BY <1>1, <2>1, <2>2, <2>3, <2>4, <2>5
<1>5. judged' = more /\ (Scored' <=> Scored)
  BY <1>3 DEF Scored
<1>6. \A i : Ended(judged, i)' = Ended(more, i) /\ BudgetGone(judged, i)' = BudgetGone(more, i)
             /\ SlowBefore(judged, i)' = SlowBefore(more, i)
  <2>1. \A i, g : Slows(judged, i, g)' = Slows(more, i, g)
    BY <1>5 DEF Slows
  <2>2. \A i : Ended(judged, i)' = Ended(more, i)
    BY <1>5, <2>1 DEF Ended
  <2>3. \A i : BudgetGone(judged, i)' = BudgetGone(more, i)
    BY <1>5, <2>2 DEF BudgetGone
  <2>4. \A i : SlowBefore(judged, i)' = SlowBefore(more, i)
    BY <1>5 DEF SlowBefore
  <2> QED BY <2>2, <2>3, <2>4
<1>7. ScoringTypes'
  <2>1. n + 1 <= Len(task.cases)
    BY <1>1, <1>2 DEF Cases
  <2>2. task' \in Jobs /\ truth' \in [Cases' -> Ends]
    BY DEF ScoringIInv, ScoringTypes, Cases
  <2> QED BY <1>4, <1>5, <2>1, <2>2 DEF ScoringTypes
<1>8. RunsCount'
  BY <1>1, <1>2, <1>4, <1>5 DEF ScoringIInv, RunsCount
<1>9. SkipsOfGroups'
  <2> SUFFICES ASSUME Scored, NEW i \in 1..(n + 1)
               PROVE  /\ Ended(judged, i) => more[i] = "SKIPPED"
                      /\ more[i] = "SKIPPED" /\ ~Ended(judged, i) => late
                      /\ BudgetGone(judged, i) => more[i] = "SKIPPED"
    BY <1>4, <1>5, <1>6 DEF SkipsOfGroups
  <2>1. CASE i \in 1..n
    BY <1>2, <1>4, <2>1 DEF ScoringIInv, SkipsOfGroups
  <2>2. CASE i = n + 1
    <3>1. BudgetGone(judged, n + 1) => late
      BY <1>2 DEF BudgetGone, ScoringIInv, SkipsOfGroups
    <3> QED BY <1>1, <1>4, <2>2, <3>1
  <2> QED BY <1>2, <2>1, <2>2
<1>10. SkipsOfRest'
  <2> SUFFICES ASSUME ~Scored, NEW i \in 1..(n + 1), more[i] = "SKIPPED"
               PROVE  /\ ~task.sample /\ Cardinality(SlowBefore(judged, i)) >= 2
                      /\ \A j \in i..(n + 1) : more[j] = "SKIPPED"
    BY <1>4, <1>5, <1>6 DEF SkipsOfRest
  <2>1. v = "SKIPPED" <=> Cardinality(SlowBefore(judged, n + 1)) >= 2 /\ ~task.sample
    BY <1>1, <1>2, HostCounts
  <2>2. CASE i \in 1..n
    <3>1. judged[i] = "SKIPPED"
      BY <1>4, <2>2
    <3>2. ~task.sample /\ Cardinality(SlowBefore(judged, i)) >= 2 /\ \A j \in i..n : judged[j] = "SKIPPED"
      BY <1>1, <1>2, <2>2, <3>1 DEF ScoringIInv, SkipsOfRest
    <3>3. more[n + 1] = "SKIPPED"
      BY <1>1, <1>2, <1>4, <2>1, <2>2, <3>2, SlowLater
    <3>4. \A j \in i..n : more[j] = "SKIPPED"
      BY <1>4, <2>2, <3>2
    <3> QED BY <1>2, <3>2, <3>3, <3>4
  <2>3. CASE i = n + 1
    <3>1. ~task.sample /\ Cardinality(SlowBefore(judged, n + 1)) >= 2
      BY <1>4, <2>1, <2>3
    <3> QED BY <1>2, <1>4, <2>3, <3>1
  <2> QED BY <1>2, <2>2, <2>3
<1>11. ReportFits'
  BY DEF ScoringIInv, ReportFits
<1> QED BY <1>7, <1>8, <1>9, <1>10, <1>11 DEF ScoringIInv


\* What may be sent depends on the job and the verdicts alone.
LEMMA SentStays ==
  ASSUME UNCHANGED <<task, judged>>, NEW r, Sent(r)
  PROVE  Sent(r)'
<1>1. Failed' = Failed
  BY DEF Failed, Result
<1>2. \A s : Scores(s)' = Scores(s)
  BY DEF Scores
<1>3. \A s : Result(Overall(judged), judged, s)' = Result(Overall(judged), judged, s)
  BY DEF Result, Overall
<1>4. (Scored' <=> Scored) /\ Groups' = Groups
  BY DEF Scored, Groups
<1>5. GroupScores(judged)' = GroupScores(judged)
  BY DEF GroupScores, Members, Groups, Cases
<1>6. ScoresSent' = ScoresSent
  BY <1>2, <1>4, <1>5 DEF ScoresSent
<1>7. Result("CE", <<>>, IF Scored THEN Scores([g \in Groups |-> 0]) ELSE None)'
        = Result("CE", <<>>, IF Scored THEN Scores([g \in Groups |-> 0]) ELSE None)
  BY <1>2, <1>4 DEF Result
<1> QED BY <1>1, <1>3, <1>6, <1>7 DEF Sent

\* So does what the API makes of a result.
LEMMA AnswerStays ==
  ASSUME UNCHANGED <<task, report>>
  PROVE  Answer' = Answer
BY DEF Answer, ScoreResult, ValidResult, ValidScore, ValidSkips, Overall, JudgedAsScored, BudgetGone,
       Ended, Slows, Earned, AllAccepted, Members, Groups, Cases, Failed, Result

\* A step that judges no case leaves what is said of the cases; time that is over stays so.
LEMMA CasesKept ==
  ASSUME ScoringIInv, UNCHANGED <<task, truth, judged>>, late => late'
  PROVE  ScoringTypes' /\ RunsCount' /\ SkipsOfGroups' /\ SkipsOfRest'
<1>1. ScoringTypes' /\ RunsCount'
  BY DEF ScoringIInv, ScoringTypes, Cases, RunsCount
<1>2. (Scored' <=> Scored) /\ \A i : Ended(judged, i)' = Ended(judged, i)
  BY DEF Scored, Ended, Slows
<1>3. \A i : BudgetGone(judged, i)' = BudgetGone(judged, i)
  BY <1>2 DEF BudgetGone
<1>4. \A i : SlowBefore(judged, i)' = SlowBefore(judged, i)
  BY DEF SlowBefore
<1>5. SkipsOfGroups' /\ SkipsOfRest'
  BY <1>2, <1>3, <1>4 DEF ScoringIInv, SkipsOfGroups, SkipsOfRest
<1> QED BY <1>1, <1>5

\* A result is sent once.
LEMMA SendHolds ==
  ASSUME ScoringIInv, NEW r, Sent(r), phase # "ended", Send(r), UNCHANGED <<task, truth, judged, late, stored>>
  PROVE  ScoringIInv'
<1>1. Sent(r)' /\ phase' = "sent" /\ report' = r
  BY SentStays DEF Send
<1>2. Sent(report)'
  BY <1>1 DEF Sent
<1>3. ReportFits'
  BY <1>1, <1>2 DEF ScoringIInv, ReportFits
<1> QED BY <1>3, CasesKept DEF ScoringIInv

\* The host has sent nothing yet, and still sends nothing.
LEMMA NothingSent ==
  ASSUME ScoringIInv, phase \in {"compile", "cases"}, phase' = "cases", stored' = stored
  PROVE  ReportFits'
BY DEF ScoringIInv, ReportFits

-----------------------------------------------------------------------------
\* An execution starts without verdicts.
LEMMA ScoringInitHolds == ScoringInit => ScoringIInv
<1> SUFFICES ASSUME ScoringInit PROVE ScoringIInv
  OBVIOUS
<1>1. judged = <<>> /\ Len(judged) = 0 /\ DOMAIN judged = {} /\ judged \in Seq(CaseVerdicts)
  BY DEF ScoringInit
<1>2. task \in Jobs /\ truth \in [Cases -> Ends] /\ phase = "compile" /\ stored = None
  BY DEF ScoringInit
<1>3. Len(task.cases) \in Nat
  BY <1>2, ScoringAssumption
<1>4. ScoringTypes
  BY <1>1, <1>2, <1>3 DEF ScoringTypes
<1>5. RunsCount /\ SkipsOfGroups /\ SkipsOfRest
  BY <1>1 DEF RunsCount, SkipsOfGroups, SkipsOfRest
<1>6. ReportFits
  BY <1>2 DEF ReportFits
<1> QED BY <1>4, <1>5, <1>6 DEF ScoringIInv

\* Each step of the host and of the API preserves ScoringIInv.
LEMMA CompilePreserves ==
  ASSUME ScoringIInv, Compile
  PROVE  ScoringIInv'
<1>1. phase = "compile" /\ UNCHANGED <<task, truth, judged, late, stored>>
  BY DEF Compile
<1>2. CASE phase' = "cases"
  BY <1>1, <1>2, CasesKept, NothingSent DEF ScoringIInv
<1>3. ASSUME NEW r, Sent(r), Send(r) PROVE ScoringIInv'
  BY <1>1, <1>3, SendHolds
<1>4. Sent(Failed) /\ Sent(Result("CE", <<>>, IF Scored THEN Scores([g \in Groups |-> 0]) ELSE None))
  BY DEF Sent
<1> QED BY <1>2, <1>3, <1>4 DEF Compile

LEMMA RunCasePreserves ==
  ASSUME ScoringIInv, NEW i \in Cases, RunCase(i)
  PROVE  ScoringIInv'
<1>1. phase = "cases" /\ i = Len(judged) + 1 /\ UNCHANGED <<task, truth, late, stored>>
  BY DEF RunCase, At
<1>2. CASE truth[i] = "lost" \/ (late /\ ~Scored)
  <2>1. Send(Failed) /\ UNCHANGED judged
    BY <1>2 DEF RunCase
  <2>2. Sent(Failed)
    BY DEF Sent
  <2> QED BY <1>1, <2>1, <2>2, SendHolds
<1>3. CASE ~(truth[i] = "lost" \/ (late /\ ~Scored))
  <2> DEFINE v == Verdict(truth[i])
  <2>1. judged' = Append(judged, v) /\ UNCHANGED <<phase, report>>
    BY <1>3 DEF RunCase
  <2>2. truth[i] \in Ends /\ judged \in Seq(CaseVerdicts)
    BY DEF ScoringIInv, ScoringTypes
  <2>3. v \in CaseVerdicts /\ v # "SKIPPED"
    BY <2>2, VerdictFacts
  <2>4. ~(IF Scored THEN late \/ Ended(judged, i) ELSE Over)
    BY <1>1, <2>2, HostCounts DEF RunCase
  <2> HIDE DEF v
  <2>5. v = Verdict(truth[Len(judged) + 1])
    BY <1>1 DEF v
  <2> QED BY <1>1, <2>1, <2>3, <2>4, <2>5, CaseAdded
<1> QED BY <1>2, <1>3

LEMMA SkipPreserves ==
  ASSUME ScoringIInv, NEW i \in Cases, Skip(i)
  PROVE  ScoringIInv'
<1>1. phase = "cases" /\ i = Len(judged) + 1 /\ judged' = Append(judged, "SKIPPED")
      /\ UNCHANGED <<task, truth, phase, late, report, stored>>
  BY DEF Skip, At
<1>2. judged \in Seq(CaseVerdicts) /\ "SKIPPED" \in CaseVerdicts
  BY DEF ScoringIInv, ScoringTypes, CaseVerdicts
<1>3. IF Scored THEN late \/ Ended(judged, i) ELSE Over
  BY <1>1, <1>2, HostCounts DEF Skip
<1> QED BY <1>1, <1>2, <1>3, CaseAdded

LEMMA ScorePreserves ==
  ASSUME ScoringIInv, Score
  PROVE  ScoringIInv'
<1>1. phase = "cases" /\ Len(judged) = Len(task.cases) /\ UNCHANGED <<task, truth, judged, late, stored>>
  BY DEF Score
<1>2. Sent(Failed) /\ \A s \in ScoresSent : Sent(Result(Overall(judged), judged, s))
  BY <1>1 DEF Sent
<1>3. CASE ~Scored /\ Send(Result(Overall(judged), judged, None))
  <2>1. None \in ScoresSent
    BY <1>3 DEF ScoresSent
  <2> QED BY <1>1, <1>2, <1>3, <2>1, SendHolds
<1>4. CASE Scored /\ task.mode = "groups" /\ Send(Result(Overall(judged), judged, Scores(GroupScores(judged))))
  <2>1. Scores(GroupScores(judged)) \in ScoresSent
    BY <1>4 DEF ScoresSent
  <2> QED BY <1>1, <1>2, <1>4, <2>1, SendHolds
<1>5. ASSUME Scored, task.mode = "aggregate", NEW s \in Possible(task),
             Send(Result(Overall(judged), judged, Scores(s)))
      PROVE  ScoringIInv'
  <2>1. Scores(s) \in ScoresSent
    BY <1>5 DEF ScoresSent
  <2> QED BY <1>1, <1>2, <1>5, <2>1, SendHolds
<1>6. CASE Send(Failed)
  BY <1>1, <1>2, <1>6, SendHolds
<1> QED BY <1>3, <1>4, <1>5, <1>6 DEF Score

LEMMA StorePreserves ==
  ASSUME ScoringIInv, Store
  PROVE  ScoringIInv'
<1>1. phase = "sent" /\ phase' = "ended" /\ stored' = Answer /\ UNCHANGED <<task, truth, judged, late, report>>
  BY DEF Store
<1>2. PICK r : r = report
  OBVIOUS
<1>3. Sent(report)'
  <2>1. Sent(r)'
    BY <1>1, <1>2, SentStays DEF ScoringIInv, ReportFits
  <2> QED BY <1>1, <1>2, <2>1 DEF Sent
<1>4. Answer' = Answer
  BY <1>1, AnswerStays
<1>5. ReportFits'
  BY <1>1, <1>3, <1>4 DEF ReportFits
<1> QED BY <1>1, <1>5, CasesKept DEF ScoringIInv

LEMMA ScoringStepHolds == ScoringIInv /\ [ScoringNext]_scoringVars => ScoringIInv'
<1> SUFFICES ASSUME ScoringIInv, [ScoringNext]_scoringVars PROVE ScoringIInv'
  OBVIOUS
<1>1. CASE Compile
  BY <1>1, CompilePreserves
<1>2. CASE Late
  <2>1. phase = "cases" /\ late' = TRUE /\ UNCHANGED <<task, truth, phase, judged, report, stored>>
    BY <1>2 DEF Late
  <2> QED BY <2>1, CasesKept, NothingSent DEF ScoringIInv
<1>3. CASE Score
  BY <1>3, ScorePreserves
<1>4. CASE Store
  BY <1>4, StorePreserves
<1>5. ASSUME NEW i \in Cases, Skip(i) PROVE ScoringIInv'
  BY <1>5, SkipPreserves
<1>6. ASSUME NEW i \in Cases, RunCase(i) PROVE ScoringIInv'
  BY <1>6, RunCasePreserves
<1>7. CASE UNCHANGED scoringVars
  <2>1. UNCHANGED <<task, truth, phase, judged, late, report, stored>>
    BY <1>7 DEF scoringVars
  <2>2. PICK r : r = report
    OBVIOUS
  <2>3. phase \in {"sent", "ended"} => Sent(report)'
    <3>1. phase \in {"sent", "ended"} => Sent(r)'
      BY <2>1, <2>2, SentStays DEF ScoringIInv, ReportFits
    <3> QED BY <2>1, <2>2, <3>1 DEF Sent
  <2>4. Answer' = Answer
    BY <2>1, AnswerStays
  <2>5. ReportFits'
    BY <2>1, <2>3, <2>4 DEF ScoringIInv, ReportFits
  <2> QED BY <2>1, <2>5, CasesKept DEF ScoringIInv
<1> QED BY <1>1, <1>2, <1>3, <1>4, <1>5, <1>6, <1>7 DEF ScoringNext

-----------------------------------------------------------------------------
\* What a job asks for, and the shape of the scores that are sent.
LEMMA JobFacts ==
  ASSUME ScoringTypes
  PROVE  /\ task \in Jobs /\ task.points \in Seq(Nat) /\ task.cases \in Seq(SUBSET Groups)
         /\ Len(task.cases) \in Nat \ {0} /\ Cases = 1..Len(task.cases) /\ Groups = 1..Len(task.points)
         /\ judged \in Seq(CaseVerdicts) /\ DOMAIN judged = 1..Len(judged) /\ DOMAIN judged \subseteq Cases
         /\ \A i \in Cases : truth[i] \in Ends
         /\ task.mode # None => Groups # {} /\ Total(task.points) >= 1
<1>1. task \in Jobs /\ truth \in [Cases -> Ends] /\ judged \in Seq(CaseVerdicts) /\ Len(judged) <= Len(task.cases)
  BY DEF ScoringTypes
<1>2. /\ task.points \in Seq(Nat) /\ task.cases \in Seq(SUBSET DOMAIN task.points) /\ task.cases # <<>>
      /\ (task.mode # None) <=> (task.points # <<>>)
      /\ task.mode # None => Total(task.points) >= 1
  <2>1. PICK j \in Jobs : j = task
    BY <1>1
  <2>2. /\ j.points \in Seq(Nat) /\ j.cases \in Seq(SUBSET DOMAIN j.points) /\ j.cases # <<>>
        /\ (j.mode # None) <=> (j.points # <<>>)
        /\ j.mode # None => Total(j.points) >= 1
    BY ScoringAssumption
  <2> QED BY <2>1, <2>2
<1>3. Len(task.cases) \in Nat \ {0} /\ DOMAIN task.cases = 1..Len(task.cases)
  BY <1>2
<1>4. DOMAIN task.points = 1..Len(task.points) /\ (task.points # <<>> => DOMAIN task.points # {})
  <2>1. \A q \in Seq(Nat) : DOMAIN q = 1..Len(q) /\ (q # <<>> => 1 \in DOMAIN q)
    OBVIOUS
  <2>2. task.points \in Seq(Nat)
    BY <1>2
  <2> QED BY <2>1, <2>2
<1>5. DOMAIN judged = 1..Len(judged) /\ 1..Len(judged) \subseteq 1..Len(task.cases)
  BY <1>1, <1>3
<1>6. Cases = 1..Len(task.cases) /\ Groups = 1..Len(task.points)
  BY <1>3, <1>4 DEF Cases, Groups
<1>7. task.cases \in Seq(SUBSET Groups)
  BY <1>2 DEF Groups
<1>8. task.mode # None => Groups # {} /\ Total(task.points) >= 1
  BY <1>2, <1>4 DEF Groups
<1>9. \A i \in Cases : truth[i] \in Ends
  BY <1>1
<1>10. task.points \in Seq(Nat)
  BY <1>2
<1>11. DOMAIN judged \subseteq Cases
  BY <1>5, <1>6
<1>12. DOMAIN judged = 1..Len(judged)
  BY <1>5
<1> QED BY <1>1, <1>3, <1>6, <1>7, <1>8, <1>9, <1>10, <1>11, <1>12, Zenon

LEMMA PossibleScores ==
  ASSUME ScoringTypes, NEW s \in Possible(task)
  PROVE  /\ Scores(s) # None /\ Len(s) = Len(task.points) /\ DOMAIN s = Groups
         /\ \A g \in Groups : s[g] \in 0..task.points[g]
         /\ Scores(s).groups = s /\ Scores(s).most = task.points
         /\ Scores(s).score = Total(s) /\ Scores(s).max = Total(task.points)
<1>1. Scores(s) # None
  BY JobFacts, ScoreAssumption DEF Scores
<1>2. PICK n : n = Len(task.points) /\ n \in Nat /\ Groups = 1..n /\ \A g \in 1..n : task.points[g] \in Nat
  <2>1. task.points \in Seq(Nat) /\ Groups = 1..Len(task.points)
    BY JobFacts
  <2>2. Len(task.points) \in Nat /\ \A g \in 1..Len(task.points) : task.points[g] \in Nat
    BY <2>1
  <2> QED BY <2>1, <2>2
<1>3. s \in [1..n -> UNION {0..task.points[g] : g \in 1..n}] /\ \A g \in 1..n : s[g] <= task.points[g]
  BY <1>2 DEF Possible, Groups
<1>4. \A g \in 1..n : s[g] \in 0..task.points[g]
  <2> TAKE g \in 1..n
  <2>1. PICK h \in 1..n : s[g] \in 0..task.points[h]
    BY <1>3
  <2> QED BY <1>2, <1>3, <2>1
<1>5. Len(s) = n /\ DOMAIN s = 1..n
  BY <1>2, <1>3
<1>6. /\ Scores(s).groups = s /\ Scores(s).most = task.points
      /\ Scores(s).score = Total(s) /\ Scores(s).max = Total(task.points)
  BY DEF Scores, ScoresOf
<1> QED BY <1>1, <1>2, <1>4, <1>5, <1>6

\* No points, and the points of some groups, are possible.
LEMMA ScoresArePossible ==
  ASSUME ScoringTypes
  PROVE  [g \in Groups |-> 0] \in Possible(task) /\ GroupScores(judged) \in Possible(task)
<1>1. Groups = DOMAIN task.points /\ \A g \in Groups : task.points[g] \in Nat
  BY JobFacts DEF Groups
<1>2. ASSUME NEW s, s = [g \in Groups |-> s[g]], \A g \in Groups : s[g] \in {0, task.points[g]}
      PROVE  s \in Possible(task)
  <2>1. \A g \in Groups : s[g] \in 0..task.points[g]
    BY <1>1, <1>2
  <2>2. s \in [DOMAIN task.points -> UNION {0..task.points[g] : g \in DOMAIN task.points}]
    BY <1>1, <1>2, <2>1
  <2>3. \A g \in DOMAIN task.points : s[g] <= task.points[g]
    BY <1>1, <2>1
  <2> QED BY <2>2, <2>3 DEF Possible
<1>3. [g \in Groups |-> 0] \in Possible(task)
  <2>1. PICK s : s = [g \in Groups |-> 0]
    OBVIOUS
  <2> QED BY <1>2, <2>1
<1>4. GroupScores(judged) \in Possible(task)
  <2>1. PICK s : s = GroupScores(judged)
    OBVIOUS
  <2>2. s = [g \in Groups |-> s[g]] /\ \A g \in Groups : s[g] \in {0, task.points[g]}
    BY <2>1 DEF GroupScores
  <2> QED BY <1>2, <2>1, <2>2
<1> QED BY <1>3, <1>4


\* The fields of a result.
LEMMA ResultFields ==
  ASSUME NEW verdict, NEW cases, NEW scores
  PROVE  /\ Result(verdict, cases, scores).verdict = verdict /\ Result(verdict, cases, scores).cases = cases
         /\ Result(verdict, cases, scores).scores = scores /\ Result(verdict, cases, scores).total = Len(task.cases)
         /\ cases = <<>> => Result(verdict, cases, scores).passed = 0
<1>1. cases = <<>> => {i \in DOMAIN cases : cases[i] = "AC"} = {}
  OBVIOUS
<1> QED BY <1>1, FS_EmptySet DEF Result

\* The API stores what a host of this release sends, by the shape of the result.
LEMMA FailureIsAccepted ==
  ASSUME report = Failed
  PROVE  ScoreResult(report) = "accepted" /\ ValidResult(report)
<1>1. report.verdict = "JE" /\ report.cases = <<>> /\ report.scores = None /\ report.passed = 0
  BY ResultFields DEF Failed
<1> QED BY <1>1 DEF ScoreResult, ValidResult

\* Scores that are sent pass the checks that do not look at the cases.
LEMMA ScoresAreValid ==
  ASSUME ScoringTypes, task.mode # None, NEW s \in Possible(task), NEW r, r.scores = Scores(s), r.verdict # "JE",
         r.verdict = "CE" => \A g \in Groups : s[g] = 0
  PROVE  /\ ValidScore(r) /\ Len(r.scores.groups) = Len(task.points) /\ r.scores.most = task.points
         /\ r.scores.max = Total(task.points)
         /\ r.verdict = "CE" => \A g \in Groups : r.scores.groups[g] = 0
<1>1. /\ DOMAIN s = Groups /\ \A g \in Groups : s[g] \in 0..task.points[g]
  BY PossibleScores
<1>2. /\ r.scores.groups = s /\ r.scores.most = task.points /\ r.scores.score = Total(s)
      /\ r.scores.max = Total(task.points) /\ Len(s) = Len(task.points)
  BY PossibleScores
<1>3. Groups # {} /\ Total(task.points) >= 1
  BY JobFacts
<1>4. s # <<>>
  <2>1. DOMAIN <<>> = {}
    OBVIOUS
  <2> QED BY <1>1, <1>3, <2>1
<1>5. ValidScore(r)
  BY <1>1, <1>2, <1>3, <1>4 DEF ValidScore
<1> QED BY <1>1, <1>2, <1>5

LEMMA ErrorIsAccepted ==
  ASSUME ScoringTypes, ~task.older,
         report = Result("CE", <<>>, IF Scored THEN Scores([g \in Groups |-> 0]) ELSE None)
  PROVE  ScoreResult(report) = "accepted" /\ ValidResult(report)
<1>1. PICK s : s = [g \in Groups |-> 0] /\ s \in Possible(task)
  BY ScoresArePossible
<1>2. report.verdict = "CE" /\ report.cases = <<>> /\ report.passed = 0
  BY ResultFields
<1>3. report.scores = IF Scored THEN Scores(s) ELSE None
  BY <1>1, ResultFields
<1>4. CASE task.mode = None
  <2>1. report.scores = None
    BY <1>3, <1>4 DEF Scored
  <2> QED BY <1>2, <1>4, <2>1 DEF ScoreResult, ValidResult
<1>5. CASE task.mode # None
  <2>1. report.scores = Scores(s) /\ Scores(s) # None
    BY <1>1, <1>3, <1>5, PossibleScores DEF Scored
  <2>2. /\ ValidScore(report) /\ Len(report.scores.groups) = Len(task.points) /\ report.scores.most = task.points
        /\ report.scores.max = Total(task.points) /\ \A g \in Groups : report.scores.groups[g] = 0
    <3>1. \A g \in Groups : s[g] = 0
      BY <1>1
    <3> QED BY <1>1, <1>2, <1>5, <2>1, <3>1, ScoresAreValid
  <2> QED BY <1>2, <1>5, <2>1, <2>2 DEF ScoreResult, ValidResult
<1> QED BY <1>4, <1>5

\* The scores of a result that was judged.
LEMMA SentScores ==
  ASSUME ScoringTypes, NEW s \in ScoresSent
  PROVE  /\ ~Scored => s = None
         /\ Scored => \E p \in Possible(task) : s = Scores(p) /\ (task.mode = "groups" => p = GroupScores(judged))
<1>1. ~Scored => s = None
  BY DEF ScoresSent
<1>2. ASSUME Scored, task.mode = "groups"
      PROVE  GroupScores(judged) \in Possible(task) /\ s = Scores(GroupScores(judged))
  BY <1>2, ScoresArePossible DEF ScoresSent
<1>3. ASSUME Scored, task.mode # "groups" PROVE \E p \in Possible(task) : s = Scores(p)
  BY <1>3 DEF ScoresSent
<1> QED BY <1>1, <1>2, <1>3

LEMMA JudgedIsAccepted ==
  ASSUME ScoringIInv, ~task.older, Len(judged) = Len(task.cases), NEW s \in ScoresSent,
         report = Result(Overall(judged), judged, s)
  PROVE  ScoreResult(report) = "accepted" /\ ValidResult(report)
<1>1. /\ report.verdict = Overall(judged) /\ report.cases = judged /\ report.scores = s
      /\ report.total = Len(task.cases)
  BY ResultFields
<1>2. ScoringTypes /\ judged \in Seq(CaseVerdicts) /\ DOMAIN judged = 1..Len(judged) /\ Len(judged) > 0
  BY JobFacts DEF ScoringIInv
<1>3. report.verdict \notin {"JE", "CE"}
  BY <1>1, <1>2, OverallFacts DEF CaseVerdicts
<1>4. CASE task.mode = None
  <2>1. ~Scored /\ s = None
    BY <1>2, <1>4, SentScores DEF Scored
  <2>2. ValidSkips(report)
    BY <1>1, <2>1 DEF ValidSkips, ScoringIInv, SkipsOfRest, SlowBefore
  <2> QED BY <1>1, <1>2, <1>3, <1>4, <2>1, <2>2 DEF ScoreResult, ValidResult
<1>5. CASE task.mode # None
  <2>1. Scored
    BY <1>5 DEF Scored
  <2>2. PICK p \in Possible(task) : s = Scores(p) /\ (task.mode = "groups" => p = GroupScores(judged))
    BY <1>2, <2>1, SentScores
  <2>3. report.scores = Scores(p) /\ Scores(p) # None /\ report.scores.groups = p
    BY <1>1, <1>2, <2>2, PossibleScores
  <2>4. /\ ValidScore(report) /\ Len(report.scores.groups) = Len(task.points) /\ report.scores.most = task.points
        /\ report.scores.max = Total(task.points)
    BY <1>2, <1>3, <1>5, <2>3, ScoresAreValid
  <2>5. ValidSkips(report)
    BY <2>3 DEF ValidSkips
  <2>6. JudgedAsScored(judged)
    BY <2>1 DEF JudgedAsScored, ScoringIInv, SkipsOfGroups
  <2>7. task.mode = "groups" => p = Earned(judged)
    BY <2>2 DEF GroupScores, Earned, AllAccepted
  <2>8. ScoreResult(report) = "accepted"
    BY <1>1, <1>3, <1>5, <2>3, <2>4, <2>6, <2>7 DEF ScoreResult
  <2> QED BY <1>1, <1>2, <1>3, <2>4, <2>5, <2>8 DEF ValidResult
<1> QED BY <1>4, <1>5


-----------------------------------------------------------------------------
\* Once all cases are through, a case is accepted exactly if it is right, unless it was skipped;
\* and skipped cases come after one that took too long, with each of their groups, or after the time.
LEMMA CasesThrough ==
  ASSUME ScoringIInv, Len(judged) = Len(task.cases), NEW i \in Cases
  PROVE  /\ judged[i] \in CaseVerdicts
         /\ judged[i] = "AC" => truth[i] = "right"
         /\ truth[i] = "right" => judged[i] \in {"AC", "SKIPPED"}
         /\ judged[i] = "SKIPPED" =>
              \/ Scored /\ late
              \/ /\ \E j \in Cases : judged[j] = "TLE"
                 /\ Scored => \A g \in task.cases[i] : \E j \in Members(g) : judged[j] = "TLE"
<1>1. /\ ScoringTypes /\ judged \in Seq(CaseVerdicts) /\ i \in DOMAIN judged /\ truth[i] \in Ends
      /\ Cases = 1..Len(task.cases) /\ Len(task.cases) \in Nat
  BY JobFacts DEF ScoringIInv
<1>2. judged[i] \in CaseVerdicts
  BY <1>1
<1>3. judged[i] # "SKIPPED" => judged[i] = Verdict(truth[i])
  BY <1>1 DEF ScoringIInv, RunsCount
<1>4. judged[i] = "AC" <=> judged[i] # "SKIPPED" /\ truth[i] = "right"
  BY <1>1, <1>3, VerdictFacts
<1>5. ASSUME judged[i] = "SKIPPED", ~Scored PROVE \E j \in Cases : judged[j] = "TLE"
  <2>1. Cardinality(SlowBefore(judged, i)) >= 2
    BY <1>1, <1>5 DEF ScoringIInv, SkipsOfRest
  <2>2. PICK j \in SlowBefore(judged, i) : TRUE
    BY <2>1, TwoAreSome
  <2>3. j \in 1..(i - 1) /\ judged[j] = "TLE"
    BY <2>2 DEF SlowBefore
  <2> QED BY <1>1, <2>3
<1>6. ASSUME judged[i] = "SKIPPED", Scored, ~late
      PROVE  /\ \E j \in Cases : judged[j] = "TLE"
             /\ \A g \in task.cases[i] : \E j \in Members(g) : judged[j] = "TLE"
  <2>1. Ended(judged, i)
    BY <1>1, <1>6 DEF ScoringIInv, SkipsOfGroups
  <2>2. task.cases[i] # {} /\ \A g \in task.cases[i] : \E j \in 1..(i - 1) : judged[j] = "TLE" /\ g \in task.cases[j]
    BY <1>1, <2>1, EndedAfterSlow
  <2>3. \A j \in 1..(i - 1) : j \in Cases
    BY <1>1
  <2> QED BY <2>2, <2>3 DEF Members
<1> QED BY <1>2, <1>4, <1>5, <1>6

\* What is stored of a judged result is what the host sent, from all cases.
LEMMA JudgedIsSent ==
  ASSUME ScoringIInv, Judged
  PROVE  /\ Len(judged) = Len(task.cases) /\ stored.cases = judged /\ stored.verdict = Overall(judged)
         /\ task.mode # None => Scored
         /\ task.mode = "groups" => stored.scores.groups = GroupScores(judged)
<1>1. ScoringTypes /\ phase = "ended" /\ stored = Answer /\ Sent(report)
  BY DEF ScoringIInv, ReportFits, Judged
<1>2. Failed.verdict = "JE"
  BY ResultFields DEF Failed
<1>3. stored = report /\ ScoreResult(report) = "accepted"
  BY <1>1, <1>2 DEF Answer, Judged
<1>4. \A x : Result("CE", <<>>, x).verdict = "CE"
  BY ResultFields
<1>5. Len(judged) = Len(task.cases) /\ \E s \in ScoresSent : report = Result(Overall(judged), judged, s)
  BY <1>1, <1>2, <1>3, <1>4 DEF Sent, Judged
<1>6. PICK s \in ScoresSent : report = Result(Overall(judged), judged, s)
  BY <1>5
<1>7. stored.cases = judged /\ stored.verdict = Overall(judged) /\ stored.scores = s
  BY <1>3, <1>6, ResultFields
<1>8. task.mode # None => Scored
  <2> SUFFICES ASSUME task.mode # None, ~Scored PROVE FALSE
    OBVIOUS
  <2>1. report.scores = None /\ report.verdict # "JE"
    BY <1>1, <1>3, <1>7, SentScores DEF Judged
  <2>2. ScoreResult(report) = "unscored"
    BY <2>1 DEF ScoreResult
  <2> QED BY <1>3, <2>2
<1>9. ASSUME task.mode = "groups" PROVE stored.scores.groups = GroupScores(judged)
  <2>1. Scored
    BY <1>8, <1>9, ScoringAssumption
  <2>2. PICK p \in Possible(task) : s = Scores(p) /\ p = GroupScores(judged)
    BY <1>1, <1>9, <2>1, SentScores
  <2> QED BY <1>1, <1>7, <2>2, PossibleScores
<1> QED BY <1>5, <1>7, <1>8, <1>9

\* The groups' scores are those of running every case, unless the time ran out.
LEMMA GroupsAreFree ==
  ASSUME ScoringIInv, Judged, task.mode = "groups", NEW g \in Groups
  PROVE  /\ stored.scores.groups[g] = task.points[g] \/ stored.scores.groups[g] = 0
         /\ task.points[g] > 0 => /\ stored.scores.groups[g] > 0 => Right(g)
                                  /\ ~late /\ Right(g) => stored.scores.groups[g] > 0
<1>1. Len(judged) = Len(task.cases) /\ task.mode # None
  BY JudgedIsSent, ScoringAssumption
<1>2. Scored /\ stored.scores.groups = GroupScores(judged)
  BY <1>1, JudgedIsSent
<1>3. stored.scores.groups[g]
        = IF Members(g) # {} /\ \A i \in Members(g) : judged[i] = "AC" THEN task.points[g] ELSE 0
  BY <1>2 DEF GroupScores
<1>4. \A i \in Members(g) : i \in Cases /\ g \in task.cases[i]
  BY DEF Members
<1>5. (\A i \in Members(g) : judged[i] = "AC") => \A i \in Members(g) : truth[i] = "right"
  BY <1>1, <1>4, CasesThrough
<1>6. ASSUME ~late, Right(g) PROVE \A i \in Members(g) : judged[i] = "AC"
  <2>1. \A i \in Members(g) : judged[i] \in {"AC", "SKIPPED"}
    BY <1>1, <1>4, <1>6, CasesThrough DEF Right
  <2>2. \A i \in Members(g) : judged[i] = "SKIPPED" => \E j \in Members(g) : judged[j] = "TLE"
    BY <1>1, <1>2, <1>4, <1>6, CasesThrough
  <2> QED BY <2>1, <2>2
<1> QED BY <1>3, <1>5, <1>6 DEF Right

\* So is the verdict, and an accepted result has only cases that are right or came too late.
LEMMA VerdictIsFree ==
  ASSUME ScoringIInv, Judged
  PROVE  /\ (~late \/ task.mode = None) => (stored.verdict = "AC" <=> \A i \in Cases : truth[i] = "right")
         /\ stored.verdict = "AC" => \A i \in Cases : truth[i] # "right" => late /\ stored.cases[i] = "SKIPPED"
<1>1. /\ Len(judged) = Len(task.cases) /\ stored.cases = judged /\ stored.verdict = Overall(judged)
      /\ task.mode # None => Scored
  BY JudgedIsSent
<1>2. judged \in Seq(CaseVerdicts) /\ DOMAIN judged = Cases
  BY <1>1, JobFacts DEF ScoringIInv
<1>3. stored.verdict = "AC" <=> \A i \in Cases : judged[i] \in {"AC", "SKIPPED"}
  BY <1>1, <1>2, OverallFacts
<1>4. \A i \in Cases : truth[i] = "right" => judged[i] \in {"AC", "SKIPPED"}
  BY <1>1, CasesThrough
<1>5. ASSUME stored.verdict = "AC", NEW i \in Cases, truth[i] # "right"
      PROVE  Scored /\ late /\ judged[i] = "SKIPPED"
  <2>1. judged[i] = "SKIPPED"
    BY <1>1, <1>3, <1>5, CasesThrough
  <2>2. ~ \E j \in Cases : judged[j] = "TLE"
    BY <1>3, <1>5
  <2> QED BY <1>1, <2>1, <2>2, CasesThrough
<1>6. task.mode = None => ~Scored
  BY DEF Scored
<1> QED BY <1>1, <1>3, <1>4, <1>5, <1>6

LEMMA ScoresFollow == ScoringIInv => ScoresFollowTheCases
<1> SUFFICES ASSUME ScoringIInv PROVE ScoresFollowTheCases
  OBVIOUS
<1>1. HostsAreAccepted
  <2> SUFFICES ASSUME phase = "ended", ~task.older PROVE Answer = report
    BY DEF HostsAreAccepted, ScoringIInv, ReportFits
  <2>1. Sent(report) /\ ScoringTypes
    BY DEF ScoringIInv, ReportFits
  <2>2. ScoreResult(report) = "accepted" /\ ValidResult(report)
    BY <2>1, FailureIsAccepted, ErrorIsAccepted, JudgedIsAccepted DEF Sent
  <2> QED BY <2>2 DEF Answer
<1>2. SkippingIsFree
  BY GroupsAreFree, VerdictIsFree DEF SkippingIsFree
<1> QED BY <1>1, <1>2 DEF ScoresFollowTheCases

\* Whatever the job, the cases and the time they take: the API stores the result of a host of this
\* release as it was sent, and what is skipped changes neither the verdict nor a group's score,
\* unless the time ran out.
THEOREM ScoresAlwaysFollow == ScoringSpec => []ScoresFollowTheCases
<1>1. ScoringSpec => []ScoringIInv
  BY ScoringInitHolds, ScoringStepHolds, PTL DEF ScoringSpec
<1> QED BY <1>1, ScoresFollow, PTL

-----------------------------------------------------------------------------
\* What is sent and stored is a result, once it is.
ReportWaits == late \in BOOLEAN /\ (phase \in {"compile", "cases"} => report = None)

LEMMA ResultIsTyped ==
  ASSUME ScoringTypes, NEW verdict \in (CaseVerdicts \ {"SKIPPED"}) \cup {"CE", "JE"}, NEW cases \in Seq(CaseVerdicts),
         NEW scores, scores = None \/ \E s \in Possible(task) : scores = Scores(s)
  PROVE  Result(verdict, cases, scores) \in Results
<1>1. Cardinality({i \in DOMAIN cases : cases[i] = "AC"}) \in Nat
  <2>1. IsFiniteSet(1..Len(cases)) /\ DOMAIN cases = 1..Len(cases)
    BY FS_Interval
  <2>2. {i \in DOMAIN cases : cases[i] = "AC"} \in SUBSET (1..Len(cases))
    BY <2>1
  <2>3. IsFiniteSet({i \in DOMAIN cases : cases[i] = "AC"})
    BY <2>1, <2>2, FS_Subset
  <2> QED BY <2>3, FS_CardinalityType
<1>2. Len(task.cases) \in Nat
  BY JobFacts
<1>3. scores \in {None} \cup UNION {{ScoresOf(j, s) : s \in Possible(j)} : j \in Jobs}
  <2>1. task \in Jobs
    BY DEF ScoringTypes
  <2> QED BY <2>1 DEF Scores
<1> QED BY <1>1, <1>2, <1>3 DEF Result, Results

LEMMA SentIsTyped ==
  ASSUME ScoringTypes, NEW result, Sent(result)
  PROVE  result \in Results
<1>1. <<>> \in Seq(CaseVerdicts) /\ judged \in Seq(CaseVerdicts)
  BY DEF ScoringTypes
<1>2. Failed \in Results
  <2>1. "JE" \in (CaseVerdicts \ {"SKIPPED"}) \cup {"CE", "JE"}
    OBVIOUS
  <2> QED BY <1>1, <2>1, ResultIsTyped DEF Failed
<1>3. ASSUME NEW scores, scores = IF Scored THEN Scores([g \in Groups |-> 0]) ELSE None
      PROVE  Result("CE", <<>>, scores) \in Results
  <2>1. "CE" \in (CaseVerdicts \ {"SKIPPED"}) \cup {"CE", "JE"}
    OBVIOUS
  <2>2. scores = None \/ \E s \in Possible(task) : scores = Scores(s)
    BY <1>3, ScoresArePossible
  <2> QED BY <1>1, <2>1, <2>2, ResultIsTyped
<1>4. ASSUME NEW scores \in ScoresSent PROVE Result(Overall(judged), judged, scores) \in Results
  <2>1. Overall(judged) \in (CaseVerdicts \ {"SKIPPED"}) \cup {"CE", "JE"}
    BY <1>1, OverallFacts
  <2>2. scores = None \/ \E s \in Possible(task) : scores = Scores(s)
    BY <1>4, SentScores
  <2> QED BY <1>1, <2>1, <2>2, ResultIsTyped
<1> QED BY <1>2, <1>3, <1>4 DEF Sent

LEMMA ReportWaitsOn == ScoringIInv /\ ReportWaits /\ [ScoringNext]_scoringVars => ReportWaits'
BY DEF ReportWaits, ScoringNext, scoringVars, Compile, Late, Score, Store, Skip, RunCase, Send, At

LEMMA ScoringTyped == ScoringIInv /\ ReportWaits => ScoringTypeOK
<1> SUFFICES ASSUME ScoringIInv, ReportWaits PROVE ScoringTypeOK
  OBVIOUS
<1>1. ScoringTypes /\ ReportFits
  BY DEF ScoringIInv
<1>2. phase \in {"sent", "ended"} => report \in Results
  BY <1>1, SentIsTyped DEF ReportFits
<1>3. Failed \in Results
  BY <1>1, SentIsTyped DEF Sent
<1>4. phase = "ended" => Answer \in {report, Failed, None}
  BY DEF Answer
<1> QED BY <1>1, <1>2, <1>3, <1>4, ResultAssumption DEF ScoringTypeOK, ScoringTypes, ReportFits, ReportWaits

\* A result is one from the moment it is sent, and what is stored is a result or nothing.
THEOREM ScoringIsTyped == ScoringSpec => []ScoringTypeOK
<1>1. ScoringInit => ScoringIInv /\ ReportWaits
  BY ScoringInitHolds DEF ScoringInit, ReportWaits
<1>2. ScoringIInv /\ ReportWaits /\ [ScoringNext]_scoringVars => (ScoringIInv /\ ReportWaits)'
  BY ScoringStepHolds, ReportWaitsOn
<1> QED BY <1>1, <1>2, ScoringTyped, PTL DEF ScoringSpec

-----------------------------------------------------------------------------
\* The clock of the local judge worker ends at its bound, and no row has run since a later time.
ClockBounds == age <= MaxAge /\ \A i \in Items : running[i] # None => running[i] <= age

LEMMA ClockGoesOn == LocalIInv /\ ClockBounds /\ [LocalNext]_localVars => ClockBounds'
<1> SUFFICES ASSUME LocalIInv, ClockBounds, [LocalNext]_localVars PROVE ClockBounds'
  OBVIOUS
<1>1. age \in Nat /\ MaxAge \in Nat /\ None \notin Nat /\ running \in [Items -> Nat \cup {None}]
  BY LocalAssumption DEF LocalIInv, LocalTypes
<1>2. ASSUME UNCHANGED age, \A i \in Items : running'[i] \in {running[i], None, age} PROVE ClockBounds'
  BY <1>1, <1>2 DEF ClockBounds
<1>3. CASE Passes
  <2>1. age < MaxAge /\ age' = age + 1 /\ running' = running
    BY <1>3 DEF Passes
  <2>2. \A i \in Items : running[i] # None => running[i] \in Nat /\ running[i] <= age
    BY <1>1 DEF ClockBounds
  <2>3. \A i \in Items : running'[i] # None => running'[i] <= age + 1
    BY <1>1, <2>1, <2>2
  <2> QED BY <1>1, <2>1, <2>3 DEF ClockBounds
<1>4. CASE \E i \in Items : SubmitLocal(i) \/ RejudgeLocal(i)
  BY <1>1, <1>2, <1>4 DEF SubmitLocal, RejudgeLocal
<1>5. ASSUME NEW w \in Workers, Expire(w) \/ Claim(w) \/ ClaimCodeRun(w) \/ FinishLocal(w) \/ Drop(w) PROVE ClockBounds'
  <2>1. CASE Expire(w)
    BY <1>2, <2>1 DEF Expire
  <2>2. CASE Claim(w)
    BY <1>1, <1>2, <2>2 DEF Claim, Start
  <2>3. CASE ClaimCodeRun(w)
    BY <1>1, <1>2, <2>3 DEF ClaimCodeRun, Start
  <2>4. CASE FinishLocal(w)
    BY <1>1, <1>2, <2>4 DEF FinishLocal
  <2>5. CASE Drop(w)
    BY <1>2, <2>5 DEF Drop
  <2> QED BY <1>5, <2>1, <2>2, <2>3, <2>4, <2>5
<1>6. CASE UNCHANGED localVars
  BY <1>2, <1>6 DEF localVars
<1> QED BY <1>3, <1>4, <1>5, <1>6 DEF LocalNext

LEMMA LocalTyped == LocalIInv /\ ClockBounds => LocalTypeOK
<1> SUFFICES ASSUME LocalIInv, ClockBounds PROVE LocalTypeOK
  OBVIOUS
<1>1. LocalTypes /\ MaxAge \in Nat /\ None \notin Nat
  BY LocalAssumption DEF LocalIInv
<1>2. ASSUME NEW i \in Items PROVE running[i] \in 0..MaxAge \cup {None}
  BY <1>1 DEF LocalTypes, ClockBounds
<1>3. ASSUME NEW i \in Items
      PROVE  Cardinality({b \in {"queued", "running", "ended"} :
               \/ b = "queued" /\ Queued(i)
               \/ b = "running" /\ running[i] # None
               \/ b = "ended" /\ ended[i] # None}) <= 1
  <2> DEFINE B == {b \in {"queued", "running", "ended"} :
                     \/ b = "queued" /\ Queued(i)
                     \/ b = "running" /\ running[i] # None
                     \/ b = "ended" /\ ended[i] # None}
  <2>1. (Queued(i) => running[i] = None /\ ended[i] = None) /\ (running[i] # None => ended[i] = None)
    BY DEF LocalIInv, InOnePlace
  <2>2. PICK x : B \in SUBSET {x}
    <3>1. CASE Queued(i)
      <4>1. B \in SUBSET {"queued"}
        BY <2>1, <3>1
      <4> QED BY <4>1
    <3>2. CASE ~Queued(i) /\ running[i] # None
      <4>1. B \in SUBSET {"running"}
        BY <2>1, <3>2
      <4> QED BY <4>1
    <3>3. CASE ~Queued(i) /\ running[i] = None
      <4>1. B \in SUBSET {"ended"}
        BY <3>3
      <4> QED BY <4>1
    <3> QED BY <3>1, <3>2, <3>3
  <2> HIDE DEF B
  <2>3. IsFiniteSet({x}) /\ Cardinality({x}) = 1
    BY FS_Singleton
  <2>4. Cardinality(B) <= Cardinality({x})
    BY <2>2, <2>3, FS_Subset
  <2>5. Cardinality(B) <= 1
    BY <2>3, <2>4
  <2> QED BY <2>5, Zenon DEF B
<1>4. \A w \in Workers : worker[w].pc \in {"expire", "claim", "claimCode", "judge"}
  BY <1>1 DEF LocalTypes, Steps, Claims
<1>5. \A i \in Items : ended[i] \in Nat \cup {None} /\ claims[i] \in Nat
  BY <1>1 DEF LocalTypes
<1>6. age \in 0..MaxAge /\ fresh \in Seq(LocalRows) /\ again \in Seq(LocalRows) /\ codes \in Seq(LocalRuns)
  BY <1>1 DEF LocalTypes, ClockBounds
<1> QED BY <1>2, <1>3, <1>4, <1>5, <1>6, Zenon DEF LocalTypeOK

\* Rows, claims and workers keep their types, and a row is in one place: queued, running or ended.
THEOREM LocalIsTyped == LocalSpec => []LocalTypeOK
<1>1. LocalInit => LocalIInv /\ ClockBounds
  BY LocalInitHolds, LocalAssumption DEF LocalInit, ClockBounds
<1>2. LocalIInv /\ ClockBounds /\ [LocalNext]_localVars => (LocalIInv /\ ClockBounds)'
  BY LocalStepHolds, ClockGoesOn
<1> QED BY <1>1, <1>2, LocalTyped, PTL DEF LocalSpec

-----------------------------------------------------------------------------
\* What rows and S3 name exists: a version is never named before it is there.
NamesExist(f) ==
  /\ latest[f] # None => latest[f] \in DOMAIN objects[f]
  /\ entry[f] # None /\ entry[f].upload # None => entry[f].upload \in DOMAIN objects[f]
FileBounds == storage \in Storages /\ draft.version \in 1..MaxDraft /\ \A f \in Files : NamesExist(f)

LEMMA FileBoundsHold == FilesIInv /\ FileBounds /\ [FilesNext]_fileVars => FileBounds'
<1> SUFFICES ASSUME FilesIInv, FileBounds, [FilesNext]_fileVars PROVE FileBounds'
  OBVIOUS
<1>0. /\ objects \in [Files -> Seq(Objects)] /\ latest \in [Files -> Nat \cup {None}]
      /\ entry \in [Files -> {None} \cup Entries] /\ MaxDraft \in Nat /\ None \notin Nat
      /\ \A f \in Files : entry[f] # None => entry[f] \in Entries
      /\ None \notin Entries
  BY FileAssumption, LocalAssumption DEF FilesIInv, FileTypes, Entries
<1>1. CASE UNCHANGED <<storage, entry, objects, latest, draft>>
  BY <1>1 DEF FileBounds, NamesExist
<1>2. ASSUME NEW f \in Files, UNCHANGED <<storage, draft>>, NamesExist(f)',
             \A g \in Files \ {f} : objects'[g] = objects[g] /\ latest'[g] = latest[g] /\ entry'[g] = entry[g]
      PROVE  FileBounds'
  BY <1>2 DEF FileBounds, NamesExist
<1>3. ASSUME NEW f \in Files, BeginUpload(f) PROVE FileBounds'
  <2>1. PICK e : entry' = [entry EXCEPT ![f] = e] /\ (e # None => e.upload = None)
    BY <1>3 DEF BeginUpload
  <2>2. UNCHANGED <<storage, objects, latest, draft>>
    BY <1>3 DEF BeginUpload
  <2> QED BY <1>0, <1>2, <2>1, <2>2 DEF FileBounds, NamesExist
<1>4. ASSUME NEW f \in Files, Upload(f) \/ SaveOutput(f) PROVE FileBounds'
  <2>1. PICK good \in BOOLEAN : Put(f, good)
    BY <1>4 DEF Upload, SaveOutput
  <2>2. UNCHANGED <<storage, entry, draft>>
    BY <1>4 DEF Upload, SaveOutput
  <2>3. PICK x : x = [tag |-> "pending", good |-> good]
    OBVIOUS
  <2>4. x \in Objects
    BY <2>3 DEF Objects
  <2>5. objects' = [objects EXCEPT ![f] = Append(@, x)] /\ latest' = [latest EXCEPT ![f] = Len(objects'[f])]
    BY <2>1, <2>3 DEF Put
  <2>6. PICK q \in Seq(Objects) : q = objects[f]
    BY <1>0
  <2>7. /\ objects'[f] = Append(q, x) /\ latest'[f] = Len(Append(q, x))
        /\ \A g \in Files \ {f} : objects'[g] = objects[g] /\ latest'[g] = latest[g]
    BY <1>0, <2>5, <2>6
  <2>8. DOMAIN q \subseteq DOMAIN Append(q, x) /\ Len(Append(q, x)) \in DOMAIN Append(q, x)
    BY <2>4, <2>6
  <2>9. NamesExist(f)'
    BY <2>2, <2>6, <2>7, <2>8 DEF FileBounds, NamesExist
  <2> QED BY <1>2, <2>2, <2>7, <2>9
<1>5. ASSUME NEW f \in Files, Hide(f) PROVE FileBounds'
  BY <1>0, <1>2, <1>5 DEF Hide, FileBounds, NamesExist
<1>6. ASSUME NEW f, NEW v, NEW tag, objects' = [objects EXCEPT ![f][v].tag = tag], UNCHANGED <<storage, entry, latest, draft>>
      PROVE  FileBounds'
  <2>1. \A g \in Files : DOMAIN objects'[g] = DOMAIN objects[g]
    BY <1>0, <1>6
  <2> QED BY <1>6, <2>1 DEF FileBounds, NamesExist
<1>7. ASSUME NEW f \in Files, Reclaim(f) PROVE FileBounds'
  <2>1. PICK v : objects' = [objects EXCEPT ![f][v].tag = "gone"]
    BY <1>7 DEF Reclaim
  <2>2. UNCHANGED <<storage, entry, latest, draft>>
    BY <1>7 DEF Reclaim
  <2> QED BY <1>6, <2>1, <2>2
<1>8. ASSUME NEW c \in Completers, CompleteTag(c) PROVE FileBounds'
  <2>1. PICK f, v : f = completes[c].file /\ v = Tagged(c)
    OBVIOUS
  <2>2. /\ UNCHANGED objects \/ objects' = [objects EXCEPT ![f][v].tag = "ready"]
        /\ UNCHANGED <<storage, entry, latest, draft>>
    BY <1>8, <2>1 DEF CompleteTag
  <2> QED BY <1>1, <1>6, <2>2
<1>9. ASSUME NEW c \in Completers, CompleteUpdate(c) PROVE FileBounds'
  <2>1. PICK f, v : f = completes[c].file /\ v = completes[c].version
    OBVIOUS
  <2>2. (entry' = entry \/ entry' = [entry EXCEPT ![f].version = v]) /\ UNCHANGED <<storage, objects, latest, draft>>
    BY <1>9, <2>1 DEF CompleteUpdate
  <2>3. ASSUME entry' = [entry EXCEPT ![f].version = v], NEW g \in Files
        PROVE  entry'[g] # None => entry[g] # None /\ entry'[g].upload = entry[g].upload
    <3>1. entry[f] \in Entries
      BY <1>9, <2>1 DEF FilesIInv, CallsKnow, CompleteUpdate
    <3>2. [entry[f] EXCEPT !.version = v].upload = entry[f].upload
      BY <3>1 DEF Entries
    <3> QED BY <1>0, <2>3, <3>1, <3>2
  <2>4. CASE entry' = [entry EXCEPT ![f].version = v]
    BY <2>2, <2>3, <2>4 DEF FileBounds, NamesExist
  <2> QED BY <1>1, <2>2, <2>4
<1>10. ASSUME NEW files \in SUBSET Files, SaveFiles(files) PROVE FileBounds'
  BY <1>0, <1>10 DEF SaveFiles, FileBounds, NamesExist, FilesIInv, FileTypes, Drafts
<1>11. CASE FinishGeneration
  <2>1. PICK f : f = output
    OBVIOUS
  <2>2. PICK e : e = [version |-> None, upload |-> Len(objects[f])]
    OBVIOUS
  <2>3. (entry' = entry \/ entry' = [entry EXCEPT ![f] = e]) /\ UNCHANGED <<storage, objects, latest, draft>>
    BY <1>11, <2>1, <2>2 DEF FinishGeneration
  <2>4. f \in Files /\ objects[f] # <<>>
    BY <1>11, <2>1 DEF FinishGeneration, FilesIInv, FileTypes, OutputsAreNew, Files
  <2>5. PICK q \in Seq(Objects) : q = objects[f]
    BY <1>0, <2>4
  <2>6. Len(q) \in DOMAIN q
    BY <2>4, <2>5
  <2>7. CASE entry' = [entry EXCEPT ![f] = e]
    <3>1. entry'[f] = e /\ \A g \in Files \ {f} : entry'[g] = entry[g]
      BY <1>0, <2>4, <2>7
    <3>2. NamesExist(f)'
      BY <2>2, <2>3, <2>4, <2>5, <2>6, <3>1 DEF FileBounds, NamesExist
    <3> QED BY <1>2, <2>3, <2>4, <3>1, <3>2
  <2> QED BY <1>1, <2>3, <2>7
<1>12. ASSUME NEW c \in Completers, (\E f \in Files : CompleteRow(c, f)) \/ CompleteGet(c) \/ CompleteFails(c) PROVE FileBounds'
  BY <1>1, <1>12 DEF CompleteRow, CompleteGet, CompleteFails
<1>13. CASE SubmitJob \/ AskGeneration \/ CreateGenerationJob \/ (\E job \in jobs : Resolve(job))
  BY <1>1, <1>13 DEF SubmitJob, AskGeneration, CreateGenerationJob, Resolve
<1>14. CASE UNCHANGED fileVars
  BY <1>1, <1>14 DEF fileVars
<1> QED BY <1>3, <1>4, <1>5, <1>7, <1>8, <1>9, <1>10, <1>11, <1>12, <1>13, <1>14 DEF FilesNext

LEMMA FilesTyped == FilesIInv /\ FileBounds => FilesTypeOK
<1> SUFFICES ASSUME FilesIInv, FileBounds PROVE FilesTypeOK
  OBVIOUS
<1>1. FileTypes /\ \A f \in Files : NamesExist(f)
  BY DEF FilesIInv, FileBounds
<1>2. ASSUME NEW f \in Files
      PROVE  /\ latest[f] = None \/ latest[f] \in DOMAIN objects[f]
             /\ \A v \in DOMAIN objects[f] : objects[f][v].tag \in {"pending", "ready", "gone"}
             /\ entry[f] # None => {entry[f].version, entry[f].upload} \subseteq DOMAIN objects[f] \cup {None}
  <2>1. objects[f] \in Seq(Objects)
    BY <1>1 DEF FileTypes
  <2>2. ASSUME NEW v \in DOMAIN objects[f] PROVE objects[f][v].tag \in {"pending", "ready", "gone"}
    <3>1. objects[f][v] \in Objects
      BY <2>1
    <3> QED BY <3>1 DEF Objects
  <2>3. entry[f] # None /\ entry[f].version # None => entry[f].version \in DOMAIN objects[f]
    BY DEF FilesIInv, RowsAreVerified, Ready, Verified
  <2> QED BY <1>1, <2>2, <2>3 DEF NamesExist
<1>3. draft.files \subseteq Files
  BY <1>1 DEF FileTypes, Drafts
<1>4. \A c \in Completers : completes[c].pc \in {"idle", "get", "tag", "update"}
  BY <1>1 DEF FileTypes, Calls, NoCall
<1> QED BY <1>1, <1>2, <1>3, <1>4 DEF FilesTypeOK, FileTypes, FileBounds

\* Rows and S3 name versions that exist, and drafts, calls and outputs keep their types.
THEOREM FilesAreTyped == FilesSpec => []FilesTypeOK
<1>1. FilesInit => FilesIInv /\ FileBounds
  BY FilesInitHolds, FileAssumption DEF FilesInit, FileBounds, NamesExist
<1>2. FilesIInv /\ FileBounds /\ [FilesNext]_fileVars => (FilesIInv /\ FileBounds)'
  BY FilesStepHolds, FileBoundsHold
<1> QED BY <1>1, <1>2, FilesTyped, PTL DEF FilesSpec


-----------------------------------------------------------------------------
(***************************************************************************)
(* OneEnvironment, for every number of rows, hosts, invocations, requests  *)
(* and failures of the controller.                                         *)
(***************************************************************************)

\* The environment changes once, with the bridge: until then nothing knows the new one, and
\* everything under way belongs to the environment of the bridge.
BridgeFirst ==
  /\ bridge.previous = IF bridge.runtime = "old" THEN None ELSE "old"
  /\ \A c \in Senders : sending[c] # None =>
       sending[c].with.runtime = bridge.runtime /\ sending[c].with.previous = bridge.previous
  /\ bridge.runtime = "old" =>
       /\ image = "old" /\ \A a \in Creators : creating[a] \in {None, "old"}
       /\ \A i \in Attempts : item[i].image \in {None, "old"}
       /\ machine[First].state = "off"
OneRuntime ==
  /\ \A q \in queue : q.runtime = bridge.runtime
  /\ \A h \in Machines :
       /\ machine[h].state # "mismatch"
       /\ machine[h].state = "on" => machine[h].runtime = bridge.runtime
       /\ machine[h].holds # None => machine[h].state = "on" /\ machine[h].holds.runtime = bridge.runtime

\* What a step of the controller relies on.
ControllerKnows ==
  /\ step \in {"paused", "sleep", "drain", "stop", "idle", "api", "switched"} => bridge.paused
  /\ step \in {"drain", "stop", "idle", "api", "switched"} => NothingSending
  /\ step = "idle" => \A h \in OldHosts : machine[h].state = "off"
  /\ step \in {"api", "switched", "start", "resume", "resumed", "smoke", "rest", "end"} => bridge.runtime = "new"
  /\ saved.digest \/ saved.switched => bridge.runtime = "new"

\* A row that is being sent waits, and one invocation sends it.
RowsHeld ==
  /\ \A i \in Attempts : item[i].status # "none" => item[i].image \in Environments
  /\ \A c \in Senders : HeldBy(c) # None => item[HeldBy(c)].status = "waiting"
  /\ \A c, d \in Senders : HeldBy(c) # None /\ c # d => HeldBy(d) # HeldBy(c)

\* A message of row i: its environment is the one that the row names or will name, or the row
\* was sent again.
Follows(i, runtime) ==
  /\ item[i].status # "none"
  /\ \/ item[i].resent
     \/ item[i].status \in {"sent", "done"} /\ runtime = item[i].image
     \/ \E c \in Senders : HeldBy(c) = i /\ runtime = sending[c].with.runtime
MessagesFollow ==
  /\ \A q \in queue : Follows(q.row, q.runtime)
  /\ \A h \in Machines : machine[h].holds # None => Follows(machine[h].holds.row, machine[h].holds.runtime)
  /\ \A x \in returned : Follows(x.row, x.runtime)
VerdictsFollow ==
  \A i \in Attempts : /\ item[i].verdict # "JE"
                      /\ item[i].verdict \in Environments =>
                           item[i].status = "done" /\ (item[i].verdict = item[i].image \/ item[i].resent)

Core == BridgeFirst /\ OneRuntime /\ ControllerKnows /\ RowsHeld /\ MessagesFollow /\ VerdictsFollow
SwitchIInv == SwitchTypeOK /\ (hurried \/ Core)

-----------------------------------------------------------------------------
\* No step leaves the types.
LEMMA SwitchTypeStep == SwitchTypeOK /\ [SwitchNext]_switchVars => SwitchTypeOK'
<1> SUFFICES ASSUME SwitchTypeOK, [SwitchNext]_switchVars PROVE SwitchTypeOK'
  OBVIOUS
<1> USE SwitchAssumption DEF SwitchTypeOK, Environments
<1>1. ASSUME NEW a \in Creators, BeginCreate(a) PROVE SwitchTypeOK'
  BY <1>1 DEF BeginCreate
<1>2. ASSUME NEW a \in Creators, NEW i \in Attempts, Create(a, i) PROVE SwitchTypeOK'
  BY <1>2 DEF Create, SetRow
<1>3. ASSUME NEW c \in Senders, BeginSending(c) PROVE SwitchTypeOK'
  BY <1>3 DEF BeginSending, Sending
<1>4. ASSUME NEW c \in Senders, CommitRow(c) PROVE SwitchTypeOK'
  BY <1>4 DEF CommitRow, SetRow, HeldBy, Sending, Settings
<1>5. ASSUME NEW c \in Senders, EndSending(c) PROVE SwitchTypeOK'
  <2>1. CASE HeldBy(c) = None
    BY <1>5, <2>1 DEF EndSending, Sending
  <2>2. CASE HeldBy(c) # None
    <3>1. PICK i \in Attempts : i = sending[c].row
      BY <1>5, <2>2 DEF EndSending, HeldBy, Sending
    <3>4. item' = [item EXCEPT ![i] = [status |-> item[i].status, image |-> item[i].image,
                                       verdict |-> item[i].verdict, resent |-> TRUE]]
      BY <1>5, <2>2, <3>1 DEF EndSending
    <3>2. failedCommits' \in 0..MaxFailedCommits /\ sending' \in [Senders -> {None} \cup Sending]
      BY <1>5, <2>2 DEF EndSending
    <3>3. item' \in [Attempts -> [status : {"none", "waiting", "sent", "done"}, image : Environments \cup {None},
                                  verdict : Environments \cup {"JE", None}, resent : BOOLEAN]]
      BY <3>1, <3>4
    <3> QED BY <1>5, <3>2, <3>3 DEF EndSending
  <2> QED BY <2>1, <2>2
<1>6. ASSUME NEW c \in Senders, NEW i \in Attempts, SendRow(c, i) PROVE SwitchTypeOK'
  <2>1. sending[c].with.runtime \in Environments
    BY <1>6 DEF SendRow, Sending, Settings
  <2>2. queue' \subseteq Requests
    <3>1. [row |-> i, runtime |-> sending[c].with.runtime, copy |-> failedCommits] \in Requests
      BY <2>1 DEF Requests
    <3> QED BY <1>6, <3>1 DEF SendRow
  <2>3. sending' \in [Senders -> {None} \cup Sending]
    BY <1>6 DEF SendRow, Sending
  <2>4. item' \in [Attempts -> [status : {"none", "waiting", "sent", "done"}, image : Environments \cup {None},
                                verdict : Environments \cup {"JE", None}, resent : BOOLEAN]]
    BY <1>6 DEF SendRow, SetRow
  <2> QED BY <1>6, <2>2, <2>3, <2>4 DEF SendRow
<1>7. ASSUME NEW x \in returned, StoreResult(x) PROVE SwitchTypeOK'
  BY <1>7 DEF StoreResult, SetRow
<1>8. ASSUME NEW h \in Machines, AnswerRequest(h) PROVE SwitchTypeOK'
  <2>1. machine[h].holds \in Requests /\ machine[h].runtime \in Environments
    BY <1>8 DEF AnswerRequest
  <2>2. queue' \subseteq Requests
    BY <1>8, <2>1 DEF AnswerRequest
  <2>3. returned' \subseteq [row : Attempts, runtime : Environments]
    <3>1. machine[h].holds.row \in Attempts
      BY <2>1 DEF Requests
    <3> QED BY <1>8, <2>1, <3>1 DEF AnswerRequest
  <2>4. machine' \in [Machines -> [runtime : Environments, state : {"on", "off", "mismatch"}, holds : {None} \cup Requests]]
    BY <1>8 DEF AnswerRequest
  <2> QED BY <1>8, <2>2, <2>3, <2>4 DEF AnswerRequest
<1>9. ASSUME NEW h \in Machines, NEW q \in queue, ReceiveRequest(h, q) PROVE SwitchTypeOK'
  BY <1>9 DEF ReceiveRequest
<1>10. CASE StartSwitch \/ ControllerFails \/ ResumeController
  BY <1>10 DEF StartSwitch, ControllerFails, ResumeController, Configured, Controls
<1>11. CASE Pause \/ Sleep \/ Drain \/ DrainTimesOut
  <2>1. bridge' \in Settings
    BY <1>11 DEF Pause, Sleep, Drain, DrainTimesOut, Configured, Settings
  <2> QED BY <1>11, <2>1 DEF Pause, Sleep, Drain, DrainTimesOut, Configured, Controls
<1>12. CASE SwitchBridge \/ SwitchAPI \/ ResumeDispatch \/ Smoked
  <2>1. bridge' \in Settings
    BY <1>12 DEF SwitchBridge, SwitchAPI, ResumeDispatch, Smoked, Configured, Settings
  <2> QED BY <1>12, <2>1 DEF SwitchBridge, SwitchAPI, ResumeDispatch, Smoked, Configured, Controls
<1>13. CASE StopOld
  <2>1. queue' \subseteq Requests
    <3>1. \A h \in OldHosts : machine[h].holds # None => machine[h].holds \in Requests
      BY DEF Machines
    <3>2. {machine[h].holds : h \in {g \in OldHosts : machine[g].holds # None}} \subseteq Requests
      BY <3>1
    <3> QED BY <1>13, <3>2 DEF StopOld
  <2>2. machine' \in [Machines -> [runtime : Environments, state : {"on", "off", "mismatch"}, holds : {None} \cup Requests]]
    BY <1>13 DEF StopOld
  <2> QED BY <1>13, <2>1, <2>2 DEF StopOld, Controls
<1>14. CASE StartFirst \/ StartRest
  <2>1. ASSUME NEW H, Started(H)
        PROVE  machine' \in [Machines -> [runtime : Environments, state : {"on", "off", "mismatch"}, holds : {None} \cup Requests]]
    BY <2>1 DEF Started
  <2> QED BY <1>14, <2>1 DEF StartFirst, StartRest, Controls
<1>15. CASE UNCHANGED switchVars
  BY <1>15 DEF switchVars
<1> QED BY <1>1, <1>2, <1>3, <1>4, <1>5, <1>6, <1>7, <1>8, <1>9, <1>10, <1>11, <1>12, <1>13, <1>14, <1>15 DEF SwitchNext

-----------------------------------------------------------------------------
\* One step of each part of the invariant, while no controller has hurried.
LEMMA BridgeFirstStep ==
  ASSUME SwitchTypeOK, Core, SwitchNext, ~hurried'
  PROVE  BridgeFirst'
<1> USE SwitchAssumption DEF SwitchTypeOK, Environments, Core, BridgeFirst
<1>1. ASSUME NEW a \in Creators, BeginCreate(a) PROVE BridgeFirst'
  BY <1>1 DEF BeginCreate
<1>2. ASSUME NEW a \in Creators, NEW i \in Attempts, Create(a, i) PROVE BridgeFirst'
  BY <1>2 DEF Create, SetRow
<1>3. ASSUME NEW c \in Senders, BeginSending(c) PROVE BridgeFirst'
  BY <1>3 DEF BeginSending
<1>4. ASSUME NEW c \in Senders, CommitRow(c) PROVE BridgeFirst'
  BY <1>4 DEF CommitRow, SetRow, HeldBy, Sending
<1>5. ASSUME NEW c \in Senders, EndSending(c) PROVE BridgeFirst'
  BY <1>5 DEF EndSending, HeldBy, Sending
<1>6. ASSUME NEW c \in Senders, NEW i \in Attempts, SendRow(c, i) PROVE BridgeFirst'
  <2>1. \A d \in Senders : sending'[d] # None => sending[d] # None /\ sending'[d].with = sending[d].with
    <3>1. sending[c] # None /\ (sending' = sending \/ sending' = [sending EXCEPT ![c] = [with |-> sending[c].with, row |-> i]])
      BY <1>6 DEF SendRow
    <3> QED BY <3>1
  <2>2. \A j \in Attempts : item'[j].image = item[j].image
    BY <1>6 DEF SendRow, SetRow
  <2>3. UNCHANGED <<bridge, image, creating, machine>>
    BY <1>6 DEF SendRow
  <2> QED BY <2>1, <2>2, <2>3
<1>7. ASSUME NEW x \in returned, StoreResult(x) PROVE BridgeFirst'
  BY <1>7 DEF StoreResult, SetRow
<1>8. ASSUME NEW h \in Machines, AnswerRequest(h) PROVE BridgeFirst'
  BY <1>8 DEF AnswerRequest, Machines
<1>9. ASSUME NEW h \in Machines, NEW q \in queue, ReceiveRequest(h, q) PROVE BridgeFirst'
  BY <1>9 DEF ReceiveRequest, Machines
<1>10. CASE StartSwitch \/ Sleep \/ Drain \/ Smoked \/ ControllerFails \/ ResumeController
  BY <1>10 DEF StartSwitch, Sleep, Drain, Smoked, ControllerFails, ResumeController, Configured, Controls
<1>11. CASE Pause \/ DrainTimesOut \/ ResumeDispatch
  BY <1>11 DEF Pause, DrainTimesOut, ResumeDispatch, Configured, Controls, Settings
<1>12. CASE SwitchBridge
  <2>1. NothingSending /\ bridge'.runtime = "new" /\ bridge'.previous = "old"
    BY <1>12 DEF SwitchBridge, Configured, ControllerKnows, Settings
  <2> QED BY <1>12, <2>1 DEF SwitchBridge, Controls, NothingSending
<1>13. CASE SwitchAPI
  BY <1>13 DEF SwitchAPI, ControllerKnows, Configured, Controls
<1>14. CASE StopOld
  BY <1>14 DEF StopOld, Controls, Machines
<1>15. CASE StartFirst \/ StartRest
  BY <1>15 DEF StartFirst, StartRest, Controls, ControllerKnows
<1> QED BY <1>1, <1>2, <1>3, <1>4, <1>5, <1>6, <1>7, <1>8, <1>9, <1>10, <1>11, <1>12, <1>13, <1>14, <1>15 DEF SwitchNext

LEMMA OneRuntimeStep ==
  ASSUME SwitchTypeOK, Core, SwitchNext, ~hurried'
  PROVE  OneRuntime'
<1> USE SwitchAssumption DEF SwitchTypeOK, Environments, Core, OneRuntime
<1>1. CASE \E a \in Creators : BeginCreate(a) \/ \E i \in Attempts : Create(a, i)
  BY <1>1 DEF BeginCreate, Create
<1>2. CASE \E c \in Senders : BeginSending(c) \/ CommitRow(c) \/ EndSending(c)
  BY <1>2 DEF BeginSending, CommitRow, EndSending
<1>3. ASSUME NEW c \in Senders, NEW i \in Attempts, SendRow(c, i) PROVE OneRuntime'
  <2>1. sending[c].with.runtime = bridge.runtime
    BY <1>3 DEF SendRow, BridgeFirst
  <2> QED BY <1>3, <2>1 DEF SendRow
<1>4. ASSUME NEW x \in returned, StoreResult(x) PROVE OneRuntime'
  BY <1>4 DEF StoreResult
<1>5. ASSUME NEW h \in Machines, AnswerRequest(h) PROVE OneRuntime'
  BY <1>5 DEF AnswerRequest
<1>6. ASSUME NEW h \in Machines, NEW q \in queue, ReceiveRequest(h, q) PROVE OneRuntime'
  <2>1. q.runtime = machine[h].runtime /\ q.runtime = bridge.runtime /\ machine[h].state = "on"
    BY <1>6 DEF ReceiveRequest
  <2>2. queue' = queue \ {q} /\ machine' = [machine EXCEPT ![h].holds = q] /\ bridge' = bridge
    BY <1>6, <2>1 DEF ReceiveRequest
  <2>3. ASSUME NEW g \in Machines
        PROVE  /\ machine'[g].state = machine[g].state /\ machine'[g].runtime = machine[g].runtime
               /\ machine'[g].holds = machine[g].holds \/ (g = h /\ machine'[g].holds = q)
    BY <2>2
  <2> QED BY <2>1, <2>2, <2>3
<1>7. CASE StartSwitch \/ Sleep \/ Drain \/ Smoked \/ ControllerFails \/ ResumeController
  BY <1>7 DEF StartSwitch, Sleep, Drain, Smoked, ControllerFails, ResumeController, Configured
<1>8. CASE Pause \/ DrainTimesOut \/ ResumeDispatch
  BY <1>8 DEF Pause, DrainTimesOut, ResumeDispatch, Configured, Settings
<1>9. CASE SwitchBridge
  <2>1. queue' = {} /\ \A h \in Machines : machine[h].holds = None
    BY <1>9 DEF SwitchBridge, RequestsIdle, Configured
  <2>2. \A h \in Machines : machine[h].state = "on" => machine[h].runtime = "new"
    BY <1>9 DEF SwitchBridge, ControllerKnows, BridgeFirst, Machines, Settings
  <2>3. bridge'.runtime = "new" /\ machine' = machine
    BY <1>9 DEF SwitchBridge, Configured, Settings
  <2> QED BY <2>1, <2>2, <2>3
<1>10. CASE SwitchAPI
  BY <1>10 DEF SwitchAPI, Configured
<1>11. CASE StopOld
  <2>1. \A q \in queue' : q.runtime = bridge.runtime
    BY <1>11 DEF StopOld, Machines
  <2> QED BY <1>11, <2>1 DEF StopOld, Machines
<1>12. CASE StartFirst \/ StartRest
  BY <1>12 DEF StartFirst, StartRest, Started, ControllerKnows
<1> QED BY <1>1, <1>2, <1>3, <1>4, <1>5, <1>6, <1>7, <1>8, <1>9, <1>10, <1>11, <1>12 DEF SwitchNext

LEMMA ControllerKnowsStep ==
  ASSUME SwitchTypeOK, Core, SwitchNext, ~hurried'
  PROVE  ControllerKnows'
<1> USE SwitchAssumption DEF SwitchTypeOK, Core, ControllerKnows
<1>1. CASE \E a \in Creators : BeginCreate(a) \/ \E i \in Attempts : Create(a, i)
  BY <1>1 DEF BeginCreate, Create, NothingSending
<1>2. ASSUME NEW c \in Senders, BeginSending(c) PROVE ControllerKnows'
  BY <1>2 DEF BeginSending, NothingSending
<1>3. ASSUME NEW c \in Senders, CommitRow(c) \/ EndSending(c) \/ \E i \in Attempts : SendRow(c, i) PROVE ControllerKnows'
  <2>1. ~NothingSending
    BY <1>3 DEF CommitRow, EndSending, SendRow, HeldBy, NothingSending
  <2> QED BY <1>3, <2>1 DEF CommitRow, EndSending, SendRow
<1>4. ASSUME NEW x \in returned, StoreResult(x) PROVE ControllerKnows'
  BY <1>4 DEF StoreResult, NothingSending
<1>5. ASSUME NEW h \in Machines, AnswerRequest(h) \/ \E q \in queue : ReceiveRequest(h, q) PROVE ControllerKnows'
  BY <1>5 DEF AnswerRequest, ReceiveRequest, NothingSending, Machines
<1>6. CASE StartSwitch
  BY <1>6 DEF StartSwitch, Configured, Controls, NothingSending
<1>7. CASE Pause
  BY <1>7 DEF Pause, Configured, Controls, NothingSending, Settings
<1>8. CASE Sleep \/ Drain
  BY <1>8 DEF Sleep, Slept, Drain, Configured, Controls, NothingSending
<1>9. CASE DrainTimesOut \/ ResumeDispatch
  BY <1>9 DEF DrainTimesOut, ResumeDispatch, Configured, Controls, Settings
<1>10. CASE StopOld
  BY <1>10 DEF StopOld, Controls, NothingSending, Machines
<1>11. CASE SwitchBridge
  BY <1>11 DEF SwitchBridge, Configured, Controls, NothingSending, Settings
<1>12. CASE SwitchAPI \/ Smoked \/ ControllerFails \/ ResumeController
  BY <1>12 DEF SwitchAPI, Smoked, ControllerFails, ResumeController, Configured, Controls, NothingSending
<1>13. CASE StartFirst \/ StartRest
  BY <1>13 DEF StartFirst, StartRest, Controls
<1> QED BY <1>1, <1>2, <1>3, <1>4, <1>5, <1>6, <1>7, <1>8, <1>9, <1>10, <1>11, <1>12, <1>13 DEF SwitchNext

\* The controller and the hosts change no row and no invocation.
LEMMA RowsAlone ==
  ASSUME StartSwitch \/ Pause \/ Sleep \/ Drain \/ DrainTimesOut \/ StopOld \/ SwitchBridge \/ SwitchAPI \/ StartFirst
         \/ ResumeDispatch \/ Smoked \/ StartRest \/ ControllerFails \/ ResumeController
         \/ \E h \in Machines : AnswerRequest(h) \/ \E q \in queue : ReceiveRequest(h, q)
  PROVE  UNCHANGED <<sending, creating, item>>
<1>1. CASE \E h \in Machines : AnswerRequest(h) \/ \E q \in queue : ReceiveRequest(h, q)
  BY <1>1 DEF AnswerRequest, ReceiveRequest
<1> QED BY <1>1 DEF StartSwitch, Pause, Sleep, Drain, DrainTimesOut, StopOld, SwitchBridge, SwitchAPI, StartFirst,
                    ResumeDispatch, Smoked, StartRest, ControllerFails, ResumeController, Controls

LEMMA RowsHeldStep ==
  ASSUME SwitchTypeOK, Core, SwitchNext, ~hurried'
  PROVE  RowsHeld'
<1> USE SwitchAssumption DEF SwitchTypeOK, Environments, Core, RowsHeld, HeldBy
<1>1. ASSUME NEW a \in Creators, BeginCreate(a) PROVE RowsHeld'
  BY <1>1 DEF BeginCreate
<1>2. ASSUME NEW a \in Creators, NEW i \in Attempts, Create(a, i) PROVE RowsHeld'
  BY <1>2 DEF Create, SetRow, Sending
<1>3. ASSUME NEW c \in Senders, BeginSending(c) PROVE RowsHeld'
  BY <1>3 DEF BeginSending
<1>4. ASSUME NEW c \in Senders, CommitRow(c) PROVE RowsHeld'
  <2>1. sending[c].row \in Attempts /\ sending[c].with.runtime \in Environments
    BY <1>4 DEF CommitRow, Sending, Settings
  <2> QED BY <1>4, <2>1 DEF CommitRow, SetRow, Sending
<1>5. ASSUME NEW c \in Senders, EndSending(c) PROVE RowsHeld'
  BY <1>5 DEF EndSending, Sending
<1>6. ASSUME NEW c \in Senders, NEW i \in Attempts, SendRow(c, i) PROVE RowsHeld'
  BY <1>6 DEF SendRow, Unheld, SetRow, Sending
<1>7. ASSUME NEW x \in returned, StoreResult(x) PROVE RowsHeld'
  <2>1. PICK i \in Attempts : i = x.row
    OBVIOUS
  <2>2. sending' = sending /\ \A c \in Senders : HeldBy(c) # i
    BY <1>7, <2>1 DEF StoreResult, Unheld
  <2>3. item' = item \/ item' = [item EXCEPT ![i] = [status |-> "done", image |-> item[i].image, verdict |-> x.runtime,
                                                    resent |-> item[i].resent]]
    BY <1>7, <2>1 DEF StoreResult, SetRow
  <2>4. \A j \in Attempts : item'[j] = item[j] \/ (j = i /\ item'[j].status = "done" /\ item'[j].image = item[j].image)
    BY <2>3
  <2>5. item[i].status # "none"
    BY <2>1 DEF MessagesFollow, Follows
  <2>6. \A c \in Senders : HeldBy(c)' = HeldBy(c) /\ (HeldBy(c) # None => HeldBy(c) \in Attempts)
    BY <2>2 DEF Sending
  <2> HIDE DEF HeldBy
  <2>7. \A j \in Attempts : item'[j].status # "none" => item'[j].image \in Environments
    BY <2>4, <2>5
  <2>8. \A c \in Senders : HeldBy(c) # None => item'[HeldBy(c)].status = "waiting"
    BY <2>2, <2>4, <2>6
  <2> QED BY <2>6, <2>7, <2>8
<1>8. CASE UNCHANGED <<sending, creating, item>>
  BY <1>8
<1> QED BY <1>1, <1>2, <1>3, <1>4, <1>5, <1>6, <1>7, <1>8, RowsAlone DEF SwitchNext

\* What a message follows stays so.
LEMMA FollowsKept ==
  ASSUME SwitchTypeOK, Core, SwitchNext, NEW i \in Attempts, NEW runtime, Follows(i, runtime)
  PROVE  Follows(i, runtime)'
<1> USE SwitchAssumption DEF SwitchTypeOK, Environments, Core, RowsHeld, HeldBy, Follows
<1>1. ASSUME NEW a \in Creators, BeginCreate(a) PROVE Follows(i, runtime)'
  BY <1>1 DEF BeginCreate
<1>2. ASSUME NEW a \in Creators, NEW j \in Attempts, Create(a, j) PROVE Follows(i, runtime)'
  BY <1>2 DEF Create, SetRow
<1>3. ASSUME NEW c \in Senders, BeginSending(c) PROVE Follows(i, runtime)'
  BY <1>3 DEF BeginSending
<1>4. ASSUME NEW c \in Senders, CommitRow(c) PROVE Follows(i, runtime)'
  <2>1. PICK j \in Attempts : j = sending[c].row
    BY <1>4 DEF CommitRow, Sending
  <2> QED BY <1>4, <2>1 DEF CommitRow, SetRow, Sending
<1>5. ASSUME NEW c \in Senders, EndSending(c) PROVE Follows(i, runtime)'
  BY <1>5 DEF EndSending, Sending
<1>6. ASSUME NEW c \in Senders, NEW j \in Attempts, SendRow(c, j) PROVE Follows(i, runtime)'
  <2>1. sending[c] # None /\ HeldBy(c) = None /\ item[j].status = "waiting" /\ \A d \in Senders : HeldBy(d) # j
    BY <1>6 DEF SendRow, Unheld
  <2>2. CASE sending' = [sending EXCEPT ![c] = [with |-> sending[c].with, row |-> j]] /\ item' = item
    BY <2>1, <2>2
  <2>3. CASE sending' = sending /\ item' = [item EXCEPT ![j] = [status |-> "done", image |-> item[j].image,
                                                             verdict |-> "JE", resent |-> item[j].resent]]
    BY <2>1, <2>3
  <2> QED BY <1>6, <2>2, <2>3 DEF SendRow, SetRow
<1>7. ASSUME NEW x \in returned, StoreResult(x) PROVE Follows(i, runtime)'
  BY <1>7 DEF StoreResult, Unheld, SetRow, Sending
<1>8. CASE UNCHANGED <<sending, creating, item>>
  BY <1>8
<1> QED BY <1>1, <1>2, <1>3, <1>4, <1>5, <1>6, <1>7, <1>8, RowsAlone DEF SwitchNext

LEMMA MessagesFollowStep ==
  ASSUME SwitchTypeOK, Core, SwitchNext, ~hurried'
  PROVE  MessagesFollow'
<1> USE SwitchAssumption DEF SwitchTypeOK, Environments, Core
<1>1. \A q \in queue : Follows(q.row, q.runtime)'
  BY FollowsKept DEF MessagesFollow, Requests
<1>2. \A h \in Machines, q \in Requests : machine[h].holds = q => Follows(q.row, q.runtime)'
  BY FollowsKept DEF MessagesFollow, Requests
<1>3. \A x \in returned : Follows(x.row, x.runtime)'
  BY FollowsKept DEF MessagesFollow
<1>4. CASE UNCHANGED <<queue, machine, returned>>
  BY <1>1, <1>2, <1>3, <1>4 DEF MessagesFollow
<1>5. ASSUME NEW c \in Senders, NEW i \in Attempts, SendRow(c, i) PROVE MessagesFollow'
  <2>1. ASSUME NEW q \in queue', q \notin queue PROVE Follows(q.row, q.runtime)'
    <3>1. q = [row |-> i, runtime |-> sending[c].with.runtime, copy |-> failedCommits]
          /\ sending' = [sending EXCEPT ![c] = [with |-> sending[c].with, row |-> i]] /\ item' = item
      BY <1>5, <2>1 DEF SendRow
    <3>2. HeldBy(c)' = i /\ sending'[c].with.runtime = q.runtime /\ item'[i].status # "none"
      <4>1. sending'[c] = [with |-> sending[c].with, row |-> i]
        BY <3>1
      <4>2. sending'[c] # None
        <5>1. sending[c] \in Sending
          BY <1>5 DEF SendRow
        <5>2. sending'[c] \in Sending
          BY <4>1, <5>1 DEF Sending
        <5> QED BY <5>2
      <4> QED BY <1>5, <3>1, <4>1, <4>2 DEF SendRow, HeldBy
    <3> QED BY <3>1, <3>2 DEF Follows
  <2> QED BY <1>1, <1>2, <1>3, <1>5, <2>1 DEF SendRow, MessagesFollow
<1>6. ASSUME NEW x \in returned, StoreResult(x) PROVE MessagesFollow'
  BY <1>1, <1>2, <1>3, <1>6 DEF StoreResult, MessagesFollow
<1>7. ASSUME NEW h \in Machines, AnswerRequest(h) PROVE MessagesFollow'
  <2>1. machine[h].holds # None /\ machine[h].runtime = machine[h].holds.runtime
    BY <1>7 DEF AnswerRequest, OneRuntime
  <2>2. \A x \in returned' : Follows(x.row, x.runtime)'
    BY <1>2, <1>3, <1>7, <2>1 DEF AnswerRequest
  <2>3. \A q \in queue' : Follows(q.row, q.runtime)'
    BY <1>1, <1>2, <1>7 DEF AnswerRequest
  <2>4. \A g \in Machines : machine'[g].holds # None => machine'[g].holds = machine[g].holds
    BY <1>7 DEF AnswerRequest
  <2> QED BY <1>2, <2>2, <2>3, <2>4 DEF MessagesFollow
<1>8. ASSUME NEW h \in Machines, NEW q \in queue, ReceiveRequest(h, q) PROVE MessagesFollow'
  <2>1. \A g \in Machines : machine'[g].holds # None => machine'[g].holds \in {machine[g].holds, q}
    BY <1>8 DEF ReceiveRequest
  <2>2. queue' \subseteq queue /\ returned' = returned
    BY <1>8 DEF ReceiveRequest
  <2> QED BY <1>1, <1>2, <1>3, <2>1, <2>2 DEF MessagesFollow
<1>9. CASE StopOld
  <2>1. \A q \in queue' : q \in queue \/ \E h \in Machines : machine[h].holds # None /\ q = machine[h].holds
    BY <1>9 DEF StopOld, Machines
  <2>2. \A h \in Machines : machine'[h].holds # None => machine'[h].holds = machine[h].holds
    BY <1>9 DEF StopOld
  <2>3. returned' = returned
    BY <1>9 DEF StopOld, Controls
  <2> QED BY <1>1, <1>2, <1>3, <2>1, <2>2, <2>3 DEF MessagesFollow
<1>10. CASE StartFirst \/ StartRest
  <2>1. queue' = queue /\ returned' = returned
    BY <1>10 DEF StartFirst, StartRest, Controls
  <2>2. \A h \in Machines : machine'[h].holds = machine[h].holds
    BY <1>10 DEF StartFirst, StartRest, Started
  <2> QED BY <1>1, <1>2, <1>3, <2>1, <2>2 DEF MessagesFollow
<1>11. CASE \/ \E a \in Creators : BeginCreate(a) \/ \E i \in Attempts : Create(a, i)
            \/ \E c \in Senders : BeginSending(c) \/ CommitRow(c) \/ EndSending(c)
  BY <1>4, <1>11 DEF BeginCreate, Create, BeginSending, CommitRow, EndSending
<1>12. CASE StartSwitch \/ Pause \/ Sleep \/ Drain \/ DrainTimesOut \/ SwitchBridge \/ SwitchAPI \/ ResumeDispatch
            \/ Smoked \/ ControllerFails \/ ResumeController
  BY <1>4, <1>12 DEF StartSwitch, Pause, Sleep, Drain, DrainTimesOut, SwitchBridge, SwitchAPI, ResumeDispatch,
                     Smoked, ControllerFails, ResumeController, Configured, Controls
<1> QED BY <1>5, <1>6, <1>7, <1>8, <1>9, <1>10, <1>11, <1>12 DEF SwitchNext

LEMMA VerdictsFollowStep ==
  ASSUME SwitchTypeOK, Core, SwitchNext, ~hurried'
  PROVE  VerdictsFollow'
<1> USE SwitchAssumption DEF SwitchTypeOK, Environments, Core, RowsHeld, VerdictsFollow
<1>1. ASSUME NEW a \in Creators, BeginCreate(a) PROVE VerdictsFollow'
  BY <1>1 DEF BeginCreate
<1>2. ASSUME NEW a \in Creators, NEW i \in Attempts, Create(a, i) PROVE VerdictsFollow'
  BY <1>2 DEF Create, SetRow
<1>3. ASSUME NEW c \in Senders, BeginSending(c) PROVE VerdictsFollow'
  BY <1>3 DEF BeginSending
<1>4. ASSUME NEW c \in Senders, CommitRow(c) PROVE VerdictsFollow'
  <2>1. PICK j \in Attempts : j = sending[c].row /\ item[j].status = "waiting"
    BY <1>4 DEF CommitRow, HeldBy, Sending
  <2> QED BY <1>4, <2>1 DEF CommitRow, SetRow
<1>5. ASSUME NEW c \in Senders, EndSending(c) PROVE VerdictsFollow'
  BY <1>5 DEF EndSending, HeldBy, Sending
<1>6. ASSUME NEW c \in Senders, NEW i \in Attempts, SendRow(c, i) PROVE VerdictsFollow'
  <2>1. Rebound(sending[c].with, i) = sending[c].with.runtime
    BY <1>6 DEF SendRow, Rebound, BridgeFirst, Settings
  <2> QED BY <1>6, <2>1 DEF SendRow
<1>7. ASSUME NEW x \in returned, StoreResult(x) PROVE VerdictsFollow'
  <2>1. Follows(x.row, x.runtime) /\ x.row \in Attempts /\ x.runtime \in Environments
    BY DEF MessagesFollow
  <2>2. item[x.row].resent \/ (item[x.row].status \in {"sent", "done"} /\ x.runtime = item[x.row].image)
    <3>1. \A c \in Senders : HeldBy(c) # x.row
      BY <1>7 DEF StoreResult, Unheld
    <3>2. item[x.row].resent \/ (item[x.row].status \in {"sent", "done"} /\ x.runtime = item[x.row].image)
           \/ \E c \in Senders : HeldBy(c) = x.row /\ x.runtime = sending[c].with.runtime
      BY <2>1, Zenon DEF Follows
    <3> QED BY <3>1, <3>2, Zenon
  <2>3. PICK i \in Attempts : i = x.row
    BY <2>1
  <2>4. item' = item \/ item' = [item EXCEPT ![i] = [status |-> "done", image |-> item[i].image, verdict |-> x.runtime,
                                                    resent |-> item[i].resent]]
    BY <1>7, <2>3 DEF StoreResult, SetRow
  <2>5. CASE item' # item /\ item[i].status # "done"
    BY <2>1, <2>2, <2>3, <2>4, <2>5
  <2>6. CASE item' = item
    BY <2>6
  <2>7. item' # item => item[i].status # "done"
    BY <1>7, <2>3 DEF StoreResult
  <2> QED BY <2>5, <2>6, <2>7
<1>8. CASE UNCHANGED <<sending, creating, item>>
  BY <1>8
<1> QED BY <1>1, <1>2, <1>3, <1>4, <1>5, <1>6, <1>7, <1>8, RowsAlone DEF SwitchNext

LEMMA SwitchInitInv == SwitchInit => SwitchIInv
<1> SUFFICES ASSUME SwitchInit PROVE SwitchTypeOK /\ Core
  BY DEF SwitchIInv
<1> USE SwitchAssumption DEF SwitchInit
<1>1. SwitchTypeOK
  <2>1. bridge \in Settings /\ image \in Environments
    BY DEF Settings, Environments
  <2>2. item \in [Attempts -> [status : {"none", "waiting", "sent", "done"}, image : Environments \cup {None},
                               verdict : Environments \cup {"JE", None}, resent : BOOLEAN]]
    BY DEF NoEntry
  <2>3. machine \in [Machines -> [runtime : Environments, state : {"on", "off", "mismatch"}, holds : {None} \cup Requests]]
    BY DEF Environments
  <2>4. /\ sending \in [Senders -> {None} \cup Sending] /\ creating \in [Creators -> Environments \cup {None}]
        /\ queue \subseteq Requests /\ returned \subseteq [row : Attempts, runtime : Environments]
    OBVIOUS
  <2>5. saved \in [paused : BOOLEAN, stopped : BOOLEAN, digest : BOOLEAN, switched : BOOLEAN]
    <3>1. saved = [paused |-> FALSE, stopped |-> FALSE, digest |-> FALSE, switched |-> FALSE]
      OBVIOUS
    <3> HIDE DEF SwitchInit
    <3> QED BY <3>1
  <2>6. failedCommits \in 0..MaxFailedCommits /\ resumes \in 0..MaxResumes /\ hurried \in BOOLEAN
    <3>1. failedCommits = 0 /\ resumes = 0 /\ hurried \in BOOLEAN
      OBVIOUS
    <3>2. 0 \in 0..MaxFailedCommits /\ 0 \in 0..MaxResumes
      BY SwitchAssumption
    <3> QED BY <3>1, <3>2
  <2> QED BY <2>1, <2>2, <2>3, <2>4, <2>5, <2>6 DEF SwitchTypeOK
<1>2. BridgeFirst /\ ControllerKnows
  BY DEF BridgeFirst, ControllerKnows, NoEntry, Machines
<1>3. OneRuntime
  BY DEF OneRuntime, Machines
<1>4. RowsHeld /\ MessagesFollow /\ VerdictsFollow
  <2>1. \A i \in Attempts : item[i].status = "none" /\ item[i].verdict = None
    BY DEF NoEntry
  <2>2. \A c \in Senders : HeldBy(c) = None
    BY DEF HeldBy
  <2>3. MessagesFollow
    BY DEF MessagesFollow
  <2> HIDE DEF SwitchInit
  <2>4. RowsHeld
    BY <2>1, <2>2 DEF RowsHeld
  <2> QED BY <2>1, <2>3, <2>4 DEF VerdictsFollow, Environments
<1> QED BY <1>1, <1>2, <1>3, <1>4 DEF Core

\* hurried stays once it holds, and without it every part of the invariant is kept.
LEMMA SwitchStep == SwitchIInv /\ [SwitchNext]_switchVars => SwitchIInv'
<1> SUFFICES ASSUME SwitchIInv, [SwitchNext]_switchVars PROVE SwitchIInv'
  OBVIOUS
<1>1. SwitchTypeOK'
  BY SwitchTypeStep DEF SwitchIInv
<1>2. CASE UNCHANGED switchVars
  <2> USE <1>2 DEF switchVars
  <2>1. BridgeFirst => BridgeFirst'
    BY DEF BridgeFirst
  <2>6. OneRuntime => OneRuntime'
    BY DEF OneRuntime
  <2>2. ControllerKnows => ControllerKnows'
    BY DEF ControllerKnows, NothingSending
  <2>3. RowsHeld => RowsHeld'
    BY DEF RowsHeld, HeldBy
  <2>4. \A i, e : Follows(i, e) => Follows(i, e)'
    BY DEF Follows, HeldBy
  <2>5. MessagesFollow /\ VerdictsFollow => MessagesFollow' /\ VerdictsFollow'
    BY <2>4 DEF MessagesFollow, VerdictsFollow
  <2> QED BY <1>1, <2>1, <2>2, <2>3, <2>5, <2>6 DEF SwitchIInv, Core
<1>3. CASE SwitchNext /\ ~hurried'
  <2>1. ~hurried
    <3>1. CASE hurried' = hurried
      BY <1>3, <3>1
    <3>2. CASE StartSwitch
      BY <1>3, <3>2 DEF StartSwitch
    <3> QED BY <1>3, <3>1, <3>2 DEF SwitchNext, BeginCreate, Create, BeginSending, CommitRow, EndSending, SendRow,
                 StoreResult, AnswerRequest, ReceiveRequest, Pause, Sleep, Drain, DrainTimesOut, StopOld, SwitchBridge,
                 SwitchAPI, StartFirst, ResumeDispatch, Smoked, StartRest, ControllerFails, ResumeController
  <2>2. SwitchTypeOK /\ Core
    BY <2>1 DEF SwitchIInv
  <2>3. Core'
    BY <1>3, <2>2, BridgeFirstStep, OneRuntimeStep, ControllerKnowsStep, RowsHeldStep, MessagesFollowStep,
       VerdictsFollowStep DEF Core
  <2> QED BY <1>1, <2>3 DEF SwitchIInv
<1> QED BY <1>1, <1>2, <1>3 DEF SwitchIInv

\* The switch keeps the invariant: until a resumed controller takes a pause for granted,
\* one environment is in use at a time and everything under way belongs to it.
THEOREM SwitchInvariance == SwitchSpec => []SwitchIInv
<1> QED BY SwitchInitInv, SwitchStep, PTL DEF SwitchSpec

\* set_dispatch, the sleep, wait_requests_idle and the rebinding on sending keep every
\* verdict in the environment that its row names, and every host from a foreign job.
THEOREM SwitchInOneEnvironment == SwitchSpec => []OneEnvironment
<1>1. SwitchIInv => OneEnvironment
  BY DEF SwitchIInv, Core, OneRuntime, VerdictsFollow, OneEnvironment
<1> QED BY <1>1, SwitchInvariance, PTL

-----------------------------------------------------------------------------
\* Seen from a part, Service takes the steps of the part or stutters.
LEMMA ServiceHasParts == Spec => LimitsSpec /\ ScoringSpec /\ LocalSpec /\ FilesSpec /\ PoolSpec /\ SwitchSpec
<1>1. Init => LimitsInit /\ ScoringInit /\ LocalInit /\ FilesInit /\ PoolInit /\ SwitchInit
  BY DEF Init
<1>2. [Next]_serviceVars => [LimitsNext]_limitVars /\ [ScoringNext]_scoringVars /\ [LocalNext]_localVars
                             /\ [FilesNext]_fileVars /\ [PoolNext]_poolVars /\ [SwitchNext]_switchVars
  BY DEF Next, serviceVars
<1> QED BY <1>1, <1>2, PTL DEF Spec, LimitsSpec, ScoringSpec, LocalSpec, FilesSpec, PoolSpec, SwitchSpec

\* For every number of workers and rows and every deadline: a local result is stored only for the
\* claim that produced it, and no row has two judges.
THEOREM ServiceResultsOfTheirClaims == Spec => []ResultOfThisClaim
BY ServiceHasParts, LocalResultsOfTheirClaims, PTL

\* For every number of files, versions, calls and jobs: ready files keep their bytes, and drafts
\* and jobs name nothing else.
THEOREM ServiceFilesUsable == Spec => []FilesStayUsable
BY ServiceHasParts, FilesAlwaysUsable, PTL

\* For every window, limit, burst and pace, every timeout below the pace and every number of calls: runs,
\* creations and registrations keep their limits, and Retry-After is the truth.
THEOREM ServiceWithinLimits == Spec => []WithinLimits
BY ServiceHasParts, LimitsAlwaysHold, PTL

\* For every job and every course of its cases: what a host sends is stored as it is, and what it
\* skips changes nothing unless the time ran out.
THEOREM ServiceScoresFollow == Spec => []ScoresFollowTheCases
BY ServiceHasParts, ScoresAlwaysFollow, PTL

\* For every plan, number of hosts and invocations, and whatever fails: contests and the queue have
\* their hosts in time, and a host with another runtime stays off.
THEOREM ServicePoolFollows == Spec => []PoolFollowsDemand
BY ServiceHasParts, PoolAlwaysFollows, PTL

\* For every number of rows, hosts, invocations and failures of the controller: a switch ends no
\* submission as a judge error and mixes no environments, short of what OneEnvironment excepts.
THEOREM ServiceOneEnvironment == Spec => []OneEnvironment
BY ServiceHasParts, SwitchInOneEnvironment, PTL

\* For every value of the constants: each part keeps its types and the bounds of its clock and counters.
THEOREM ServiceIsTyped == Spec => []TypeOK
<1>1. SwitchIInv => SwitchTypeOK
  BY DEF SwitchIInv
<1>2. LimitsTypeOK /\ ScoringTypeOK /\ LocalTypeOK /\ FilesTypeOK /\ PoolTypeOK /\ SwitchTypeOK => TypeOK
  BY DEF TypeOK
<1> QED BY <1>1, <1>2, ServiceHasParts, LimitsAreTyped, ScoringIsTyped, LocalIsTyped, FilesAreTyped, PoolIsTyped,
           SwitchInvariance, PTL

=============================================================================
