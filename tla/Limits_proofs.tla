---------------------------- MODULE Limits_proofs ---------------------------
(***************************************************************************)
(* The limits hold for every window, limit, burst, pace and number of      *)
(* calls.  That of runs holds since the lock of the account keeps what     *)
(* Count saw true until Insert, that of charges since a call keeps the     *)
(* rows locked that it has asked for (SlotsIInv), but for a row that is    *)
(* deleted between two.                                                    *)
(***************************************************************************)
EXTENDS Limits, FiniteSetTheorems, TLAPS

\* A call is a record that has a step; a call for runs has a kind as well.
HasStep(call) == "pc" \in DOMAIN call /\ call = [f \in DOMAIN call |-> call[f]]
RunSteps == {"lock", "count", "insert"}
RunCalls == [pc : RunSteps, kind : Kinds, began : Nat]

RunTypes ==
  /\ seconds \in Nat
  /\ rows \in [Kinds -> Seq(Nat)]
  /\ calls = [c \in Callers |-> calls[c]]
  /\ \A c \in Callers : HasStep(calls[c]) /\ (calls[c].pc \in RunSteps => calls[c] \in RunCalls)

\* One call at a time is between the lock and the commit, and what it counted stays true.
OneCounts == \A c, d \in Callers :
  calls[c].pc \in {"count", "insert"} /\ calls[d].pc \in {"count", "insert"} => c = d
RoomStays == \A c \in Callers : calls[c].pc = "insert" => Room(calls[c].kind, seconds)

RunsIInv == RunTypes /\ OneCounts /\ RoomStays /\ RunsWithin

-----------------------------------------------------------------------------
\* Room for a run is not lost when time passes.
LEMMA RoomLater ==
  ASSUME NEW k \in Kinds, rows[k] \in Seq(Nat), NEW at \in Nat, NEW later \in Nat, at <= later, Room(k, at)
  PROVE  Room(k, later)
<1>1. Window \in Nat /\ RunLimit[k] \in Nat \ {0} /\ Len(rows[k]) \in Nat
  BY LimitAssumption
<1>2. CASE Len(rows[k]) < RunLimit[k]
  BY <1>2 DEF Room
<1>3. CASE ~(Len(rows[k]) < RunLimit[k])
  <2> DEFINE i == Len(rows[k]) + 1 - RunLimit[k]
  <2>1. i \in 1..Len(rows[k])
    BY <1>1, <1>3
  <2>2. rows[k][i] \in Nat
    BY <2>1
  <2>3. rows[k][i] <= at - Window
    BY <1>3 DEF Room
  <2>4. rows[k][i] <= later - Window
    BY <2>2, <2>3, <1>1
  <2> QED BY <2>4 DEF Room
<1> QED BY <1>2, <1>3

\* A step of a call that inserts nothing, in which the call does not come to count or to insert.
LEMMA OtherStep ==
  ASSUME RunsIInv, NEW c \in Callers, NEW next, Step(c, next), UNCHANGED <<seconds, rows>>,
         HasStep(next), next.pc \in RunSteps => next \in RunCalls /\ next.pc = "lock"
  PROVE  RunsIInv'
<1>1. /\ calls' = [d \in Callers |-> IF d = c THEN next ELSE calls[d]]
  BY DEF Step, RunsIInv, RunTypes
<1>2. RunTypes'
  BY <1>1 DEF RunsIInv, RunTypes
<1>3. next.pc \notin {"count", "insert"}
  BY DEF RunSteps
<1>4. RunsWithin'
  BY DEF RunsIInv, RunsWithin
<1>5. OneCounts'
  BY <1>1, <1>3 DEF RunsIInv, OneCounts
<1>6. RoomStays'
  BY <1>1, <1>3 DEF RunsIInv, RoomStays, Room
<1> QED BY <1>2, <1>4, <1>5, <1>6 DEF RunsIInv

\* The call that comes to count is alone between the lock and the commit.
LEMMA LockStep ==
  ASSUME RunsIInv, NEW c \in Callers, Lock(c)
  PROVE  RunsIInv'
<1>1. /\ calls[c].pc = "lock" /\ ~Locked(c)
      /\ calls' = [calls EXCEPT ![c] = [calls[c] EXCEPT !.pc = "count"]] /\ UNCHANGED <<seconds, rows>>
  BY DEF Lock, Step, OnlyCalls
<1>2. calls[c] \in RunCalls
  BY <1>1 DEF RunsIInv, RunTypes, RunSteps
<1>3. [calls[c] EXCEPT !.pc = "count"] \in RunCalls /\ [calls[c] EXCEPT !.pc = "count"].pc = "count"
  BY <1>2 DEF RunCalls, RunSteps
<1>4. \A call \in RunCalls : HasStep(call)
  BY DEF RunCalls, HasStep
<1>5. calls' = [d \in Callers |-> IF d = c THEN [calls[c] EXCEPT !.pc = "count"] ELSE calls[d]]
  BY <1>1 DEF RunsIInv, RunTypes
<1>6. RunTypes'
  BY <1>1, <1>3, <1>4, <1>5 DEF RunsIInv, RunTypes
<1>7. OneCounts'
  BY <1>1, <1>3, <1>5 DEF RunsIInv, OneCounts, Locked
<1>8. RoomStays'
  BY <1>1, <1>3, <1>5 DEF RunsIInv, RoomStays, Room
<1>9. RunsWithin'
  BY <1>1 DEF RunsIInv, RunsWithin
<1> QED BY <1>6, <1>7, <1>8, <1>9 DEF RunsIInv

\* What the call counts is what it inserts by.
LEMMA CountStep ==
  ASSUME RunsIInv, NEW c \in Callers, Count(c)
  PROVE  RunsIInv'
<1>1. calls[c].pc = "count" /\ UNCHANGED <<seconds, rows>>
  BY DEF Count
<1>2. calls[c] \in RunCalls
  BY <1>1 DEF RunsIInv, RunTypes, RunSteps
<1>3. CASE Room(calls[c].kind, seconds)
  <2> DEFINE next == [calls[c] EXCEPT !.pc = "insert"]
  <2>1. next \in RunCalls /\ next.pc = "insert" /\ next.kind = calls[c].kind
    BY <1>2 DEF RunCalls, RunSteps
  <2>2. HasStep(next)
    BY <2>1 DEF RunCalls, HasStep
  <2>3. calls' = [d \in Callers |-> IF d = c THEN next ELSE calls[d]]
    BY <1>3 DEF Count, Step, RunsIInv, RunTypes
  <2> HIDE DEF next
  <2>4. RunTypes'
    BY <1>1, <2>1, <2>2, <2>3 DEF RunsIInv, RunTypes
  <2>5. OneCounts'
    BY <1>1, <2>1, <2>3 DEF RunsIInv, OneCounts
  <2>6. RoomStays'
    BY <1>1, <1>3, <2>1, <2>3 DEF RunsIInv, RoomStays, Room
  <2>7. RunsWithin'
    BY <1>1 DEF RunsIInv, RunsWithin
  <2> QED BY <2>4, <2>5, <2>6, <2>7 DEF RunsIInv
<1>4. CASE ~Room(calls[c].kind, seconds)
  <2>1. Step(c, Idle)
    BY <1>4 DEF Count
  <2>2. HasStep(Idle) /\ Idle.pc \notin RunSteps
    BY DEF HasStep, Idle, RunSteps
  <2> QED BY <1>1, <2>1, <2>2, OtherStep
<1> QED BY <1>3, <1>4

\* The new row is a window younger than the one RunLimit rows before it.
LEMMA InsertStep ==
  ASSUME RunsIInv, NEW c \in Callers, Insert(c)
  PROVE  RunsIInv'
<1> DEFINE k == calls[c].kind
           n == Len(rows[k])
<1>1. calls[c].pc = "insert" /\ Room(k, seconds)
  BY DEF Insert, RunsIInv, RoomStays
<1>2. k \in Kinds /\ rows[k] \in Seq(Nat) /\ n \in Nat /\ seconds \in Nat
  BY <1>1 DEF RunsIInv, RunTypes, RunCalls, RunSteps
<1>3. /\ rows' = [rows EXCEPT ![k] = Append(@, seconds)] /\ UNCHANGED seconds
      /\ calls' = [d \in Callers |-> IF d = c THEN Idle ELSE calls[d]]
  BY DEF Insert, CreatedAt, Step, RunsIInv, RunTypes
<1>4. HasStep(Idle) /\ Idle.pc \notin RunSteps /\ Idle.pc \notin {"count", "insert"}
  BY DEF HasStep, Idle, RunSteps
<1>5. RunTypes'
  BY <1>2, <1>3, <1>4 DEF RunsIInv, RunTypes
<1>6. OneCounts'
  BY <1>3, <1>4 DEF RunsIInv, OneCounts
<1>7. RoomStays'
  BY <1>1, <1>3, <1>4 DEF RunsIInv, RoomStays, OneCounts
<1>8. RunsWithin'
  <2> DEFINE limit == RunLimit[k]
  <2>1. limit \in Nat \ {0} /\ Window \in Nat
    BY <1>2, LimitAssumption
  <2>2. /\ rows'[k] = Append(rows[k], seconds) /\ DOMAIN rows'[k] = 1..(n + 1) /\ DOMAIN rows[k] = 1..n
        /\ rows'[k][n + 1] = seconds /\ \A i \in 1..n : rows'[k][i] = rows[k][i]
    BY <1>2, <1>3 DEF RunsIInv, RunTypes
  <2>3. \A j \in Kinds : j # k => rows'[j] = rows[j]
    BY <1>2, <1>3 DEF RunsIInv, RunTypes
  <2>4. \A i \in 1..n : i + limit \in 1..n => rows[k][i + limit] - rows[k][i] >= Window
    BY <1>2, <2>2 DEF RunsIInv, RunsWithin
  <2>5. ~(n < limit) => rows[k][n + 1 - limit] <= seconds - Window
    BY <1>1 DEF Room
  <2>6. \A i \in 1..n : rows[k][i] \in Nat
    BY <1>2
  <2> HIDE DEF limit, n
  <2>7. ASSUME NEW i \in 1..(n + 1), i + limit \in 1..(n + 1)
        PROVE  rows'[k][i + limit] - rows'[k][i] >= Window
    <3>1. i \in 1..n /\ (i + limit \in 1..n \/ (i + limit = n + 1 /\ i = n + 1 - limit /\ ~(n < limit)))
      BY <1>2, <2>1, <2>7
    <3>2. CASE i + limit \in 1..n
      BY <3>1, <3>2, <2>2, <2>4
    <3>3. CASE i + limit = n + 1 /\ i = n + 1 - limit /\ ~(n < limit)
      <4>1. rows[k][i] <= seconds - Window /\ rows[k][i] \in Nat
        BY <3>1, <3>3, <2>5, <2>6
      <4>2. rows'[k][i + limit] = seconds /\ rows'[k][i] = rows[k][i]
        BY <3>1, <3>3, <2>2
      <4> QED BY <4>1, <4>2, <1>2, <2>1
    <3> QED BY <3>1, <3>2, <3>3
  <2> QED BY <2>2, <2>3, <2>7 DEF RunsIInv, RunsWithin, limit, n
<1> QED BY <1>5, <1>6, <1>7, <1>8 DEF RunsIInv

\* A call for runs, or for slots, arrives.
LEMMA ArrivalStep ==
  ASSUME RunsIInv, NEW c \in Callers
  PROVE  /\ \A k \in Kinds : AskRun(c, k) => RunsIInv'
         /\ \A subjects : AskSlots(c, subjects) => RunsIInv'
<1>1. ASSUME NEW k \in Kinds, AskRun(c, k)
      PROVE  RunsIInv'
  <2> DEFINE next == [pc |-> "lock", kind |-> k, began |-> seconds]
  <2>1. next \in RunCalls /\ next.pc = "lock" /\ HasStep(next)
    BY DEF RunCalls, RunSteps, HasStep, RunsIInv, RunTypes
  <2>2. Step(c, next) /\ UNCHANGED <<seconds, rows>>
    BY <1>1 DEF AskRun, New
  <2> QED BY <2>1, <2>2, OtherStep
<1>2. ASSUME NEW subjects, AskSlots(c, subjects)
      PROVE  RunsIInv'
  <2> DEFINE next == [pc |-> "slot", asked |-> subjects, i |-> 1, at |-> 0, mine |-> <<>>, limited |-> 0, seen |-> <<>>, began |-> seconds]
  <2>1. HasStep(next) /\ next.pc = "slot"
    BY DEF HasStep
  <2>2. next.pc \notin RunSteps
    BY <2>1 DEF RunSteps
  <2>3. Step(c, next) /\ UNCHANGED <<seconds, rows>>
    BY <1>2 DEF AskSlots, New
  <2> HIDE DEF next
  <2> QED BY <2>1, <2>2, <2>3, OtherStep
<1> QED BY <1>1, <1>2

\* Nothing else that a call does concerns the rows of runs.
LEMMA SlotStep ==
  ASSUME RunsIInv, NEW c \in Callers, Ask(c) \/ Charge(c) \/ Close(c) \/ Fail(c)
  PROVE  RunsIInv'
<1>1. HasStep(calls[c])
  BY DEF RunsIInv, RunTypes
<1>2. HasStep(Idle) /\ Idle.pc \notin RunSteps
  BY DEF HasStep, Idle, RunSteps
<1>3. CASE Ask(c)
  <2> DEFINE next == [calls[c] EXCEPT !.pc = "charge", !.at = seconds]
  <2>1. HasStep(next) /\ next.pc = "charge"
    BY <1>1 DEF HasStep
  <2>2. Step(c, next) /\ UNCHANGED <<seconds, rows>>
    BY <1>3 DEF Ask, OnlyCalls
  <2> HIDE DEF next
  <2> QED BY <2>1, <2>2, OtherStep DEF RunSteps
<1>4. CASE Charge(c)
  <2>1. PICK next : HasStep(next) /\ next.pc = "slot" /\ Step(c, next) /\ UNCHANGED <<seconds, rows>>
    <3> DEFINE call == calls[c]
               s == call.asked[call.i]
               drawn == [call EXCEPT !.pc = "slot", !.i = @ + 1, !.seen = Noting(@, s, Seen(s))]
               taken == [drawn EXCEPT !.mine = Noting(@, s, [by |-> call.asked, full |-> Drawn(s, call.at), from |-> call.at, to |-> seconds])]
               refused == [drawn EXCEPT !.limited = Latest({@, RetryAfter(s)})]
    <3>1. HasStep(drawn) /\ drawn.pc = "slot"
      BY <1>1 DEF HasStep
    <3>2. Step(c, IF HasSlot(s, call.at) THEN taken ELSE refused) /\ UNCHANGED <<seconds, rows>>
      BY <1>4 DEF Charge, OnlyCalls
    <3> HIDE DEF drawn
    <3>3. HasStep(taken) /\ taken.pc = "slot" /\ HasStep(refused) /\ refused.pc = "slot"
      BY <3>1 DEF HasStep
    <3> QED BY <3>2, <3>3
  <2> QED BY <2>1, OtherStep DEF RunSteps
<1>5. CASE Close(c)
  BY <1>2, <1>5, OtherStep DEF Close
<1>6. CASE Fail(c)
  BY <1>2, <1>6, OtherStep DEF Fail, OnlyCalls
<1> QED BY <1>3, <1>4, <1>5, <1>6

\* Time only makes room.
LEMMA SecondStep ==
  ASSUME RunsIInv, Second
  PROVE  RunsIInv'
<1>1. seconds' = seconds + 1 /\ UNCHANGED <<rows, calls>>
  BY DEF Second
<1>2. RunTypes'
  BY <1>1 DEF RunsIInv, RunTypes
<1>3. RoomStays'
  <2> SUFFICES ASSUME NEW c \in Callers, calls[c].pc = "insert"
               PROVE  Room(calls[c].kind, seconds)'
    BY <1>1 DEF RoomStays
  <2>1. calls[c].kind \in Kinds /\ rows[calls[c].kind] \in Seq(Nat) /\ seconds \in Nat
    BY DEF RunsIInv, RunTypes, RunCalls, RunSteps
  <2>2. Room(calls[c].kind, seconds + 1)
    BY <2>1, RoomLater DEF RunsIInv, RoomStays
  <2> QED BY <1>1, <2>2 DEF Room
<1>4. OneCounts' /\ RunsWithin'
  BY <1>1 DEF RunsIInv, OneCounts, RunsWithin
<1> QED BY <1>2, <1>3, <1>4 DEF RunsIInv

-----------------------------------------------------------------------------
\* No call is open and nothing has run at the start.
LEMMA RunsInitHolds == LimitsInit => RunsIInv
<1> SUFFICES ASSUME LimitsInit PROVE RunsIInv
  OBVIOUS
<1>1. HasStep(Idle) /\ Idle.pc = "idle"
  BY DEF HasStep, Idle
<1>2. RunTypes
  BY <1>1 DEF LimitsInit, RunTypes, RunSteps
<1>3. OneCounts /\ RoomStays
  BY <1>1 DEF LimitsInit, OneCounts, RoomStays
<1>4. RunsWithin
  BY LimitAssumption DEF LimitsInit, RunsWithin
<1> QED BY <1>2, <1>3, <1>4 DEF RunsIInv

\* Every step of a call preserves RunsIInv.
LEMMA RunsStepHolds == RunsIInv /\ [LimitsNext]_limitVars => RunsIInv'
<1> SUFFICES ASSUME RunsIInv, [LimitsNext]_limitVars PROVE RunsIInv'
  OBVIOUS
<1>1. CASE Second
  BY <1>1, SecondStep
<1>2. ASSUME NEW c \in Callers, Serve(c) PROVE RunsIInv'
  <2>1. CASE \E k \in Kinds : <<k>> \in demand.asks /\ AskRun(c, k)
    BY <2>1, ArrivalStep
  <2>2. CASE \E subjects \in demand.asks : subjects[1] \in Slotted /\ AskSlots(c, subjects)
    BY <2>2, ArrivalStep
  <2>3. CASE Lock(c)
    BY <2>3, LockStep
  <2>4. CASE Count(c)
    BY <2>4, CountStep
  <2>5. CASE Insert(c)
    BY <2>5, InsertStep
  <2>6. CASE Ask(c) \/ Charge(c) \/ Close(c) \/ Fail(c)
    BY <2>6, SlotStep
  <2> QED BY <1>2, <2>1, <2>2, <2>3, <2>4, <2>5, <2>6 DEF Serve
<1>3. CASE UNCHANGED limitVars
  BY <1>3 DEF limitVars, RunsIInv, RunTypes, OneCounts, RoomStays, Room, RunsWithin
<1> QED BY <1>1, <1>2, <1>3 DEF LimitsNext

-----------------------------------------------------------------------------
(***************************************************************************)
(* Slots of creations and registrations.  A charge is decided by the time  *)
(* at which its statement began, which may have waited for the row, and by *)
(* full_at, unless the row was deleted meanwhile.  Spaced says what is left *)
(* of the slots' pace then: between charges i and j all but the last of    *)
(* the deletions, before k, cost at most Timeout for each charge, and from *)
(* k on every charge has put full_at off by a whole slot.                  *)
(***************************************************************************)
ChargeRows == [by : demand.asks, full : Nat, from : Nat, to : Nat]
Times(a, x) == a * x  \* the provers take it as a term of its own
Pace(s) == Every[s] - Timeout
Paced(s, q, i, k)  == Times(k - i, Pace(s)) <= q[k].from - q[i].from
Filled(s, q, k, j) == Times(j - k + 1, Every[s]) <= q[j].full - q[k].from
Spaced(s, q) == \A i, j \in DOMAIN q : i <= j =>
  \E k \in DOMAIN q : i <= k /\ k <= j /\ Paced(s, q, i, k) /\ Filled(s, q, k, j)
InOrder(s, q) == \A i \in DOMAIN q :
  /\ q[i].from <= q[i].to /\ q[i].full <= q[i].from + Times(Burst[s], Every[s])
  /\ \A j \in DOMAIN q : i <= j => q[i].to <= q[j].to

\* What the provers need of it.
LEMMA ProductIsInt ==
  ASSUME NEW a \in Int, NEW x \in Nat
  PROVE  Times(a, x) \in Int
BY DEF Times
LEMMA SmallProducts ==
  ASSUME NEW x \in Nat
  PROVE  Times(0, x) = 0 /\ Times(1, x) = x
BY DEF Times
LEMMA ProductsAdd ==
  ASSUME NEW a \in Int, NEW b \in Int, NEW x \in Nat
  PROVE  Times(a, x) + Times(b, x) = Times(a + b, x)
BY DEF Times
LEMMA ProductsGrow ==
  ASSUME NEW a \in Int, NEW b \in Int, NEW x \in Nat, a <= b
  PROVE  Times(a, x) <= Times(b, x)
<1>1. PICK d \in Nat : b = a + d
  OBVIOUS
<1>2. d * x \in Nat
  BY <1>1
<1> QED BY <1>1, <1>2 DEF Times
LEMMA FactorsGrow ==
  ASSUME NEW a \in Nat, NEW x \in Nat, NEW y \in Nat, x <= y
  PROVE  Times(a, x) <= Times(a, y)
<1>1. PICK d \in Nat : y = x + d
  OBVIOUS
<1>2. a * d \in Nat
  BY <1>1
<1> QED BY <1>1, <1>2 DEF Times

\* The later of two times.
LEMMA LatestOf ==
  ASSUME NEW a \in Int, NEW b \in Int
  PROVE  Latest({a, b}) = IF a >= b THEN a ELSE b
<1> DEFINE m == IF a >= b THEN a ELSE b
<1>1. m \in {a, b} /\ \A y \in {a, b} : m >= y
  OBVIOUS
<1>2. \A x \in {a, b} : (\A y \in {a, b} : x >= y) => x = m
  OBVIOUS
<1> HIDE DEF m
<1>3. Max({a, b}) = m
  BY <1>1, <1>2 DEF Max
<1> QED BY <1>3 DEF Latest, m

\* What the assumptions say of one subject.
LEMMA SlotFacts ==
  ASSUME NEW s \in Slotted
  PROVE  /\ Burst[s] \in Nat /\ Burst[s] >= 1 /\ Every[s] \in Nat /\ Pace(s) \in Nat /\ Timeout \in Nat
         /\ Pace(s) = Every[s] - Timeout /\ Pace(s) <= Every[s]
BY LimitAssumption DEF Pace

\* The sum behind the bound: W is the pace, e a slot, b the burst; charge k is made at y, the last at t.
LEMMA BurstAndPace ==
  ASSUME NEW m \in Int, NEW n \in Int, NEW b \in Nat, NEW e \in Nat, NEW W \in Nat, W <= e,
         NEW x \in Int, NEW y \in Int, NEW z \in Int, NEW f \in Int, NEW t \in Int,
         Times(m, W) <= y - x, Times(n + b, e) <= f - y, y <= z, t <= z, f <= t + Times(b, e)
  PROVE  Times(m + n, W) <= 0 \/ Times(m + n, W) <= z - x
<1>1. Times(m, W) + Times(n, W) = Times(m + n, W)
  BY ProductsAdd
<1>2. Times(n, e) + Times(b, e) = Times(n + b, e)
  BY ProductsAdd
<1>3. Times(m, W) \in Int /\ Times(n, W) \in Int
  BY ProductIsInt
<1>4. Times(n, e) \in Int /\ Times(b, e) \in Int
  BY ProductIsInt
<1>5. CASE 0 <= n
  <2>1. Times(n, W) <= Times(n, e)
    BY <1>5, FactorsGrow
  <2> QED BY <1>1, <1>2, <1>3, <1>4, <2>1
<1>6. CASE n <= 0
  <2>1. Times(n, W) <= 0
    BY <1>6, ProductsGrow, SmallProducts
  <2> QED BY <1>1, <1>2, <1>3, <1>4, <2>1
<1> QED BY <1>5, <1>6
LEMMA ChargesAndPace ==
  ASSUME NEW i \in Nat, NEW j \in Nat, NEW k \in Nat, NEW b \in Nat, NEW e \in Nat, NEW W \in Nat, W <= e,
         NEW x \in Int, NEW y \in Int, NEW z \in Int, NEW f \in Int, NEW t \in Int,
         i <= k, k <= j, Times(k - i, W) <= y - x, Times(j - k + 1, e) <= f - y,
         y <= z, t <= z, f <= t + Times(b, e)
  PROVE  Times(j - i + 1 - b, W) <= 0 \/ Times(j - i + 1 - b, W) <= z - x
<1>1. PICK n \in Int : n = j - k + 1 - b
  OBVIOUS
<1>2. PICK m \in Int : m = k - i
  OBVIOUS
<1>3. m + n = j - i + 1 - b /\ n + b = j - k + 1
  BY <1>1, <1>2
<1>4. Times(m, W) <= y - x /\ Times(n + b, e) <= f - y
  BY <1>2, <1>3
<1>5. Times(m + n, W) <= 0 \/ Times(m + n, W) <= z - x
  BY <1>4, BurstAndPace
<1> QED BY <1>3, <1>5

\* A sequence that is spaced and in order has no more charges in a stretch of time than a burst and
\* the slots that came back in it.
LEMMA SpacedIsWithin ==
  ASSUME NEW s \in Slotted, NEW q \in Seq(ChargeRows), Spaced(s, q), InOrder(s, q),
         NEW i \in DOMAIN q, NEW j \in DOMAIN q, i < j
  PROVE  (j - i + 1 - Burst[s]) * (Every[s] - Timeout) <= Latest({0, q[j].to - q[i].from})
<1>1. PICK b, e, W : b = Burst[s] /\ e = Every[s] /\ W = Pace(s)
  OBVIOUS
<1>2. b \in Nat /\ e \in Nat /\ W \in Nat /\ W <= e /\ i \in Nat /\ j \in Nat /\ i <= j
  BY <1>1, SlotFacts
<1>3. PICK k \in DOMAIN q : i <= k /\ k <= j /\ Paced(s, q, i, k) /\ Filled(s, q, k, j)
  BY <1>2 DEF Spaced
<1>4. k \in Nat /\ q[i] \in ChargeRows /\ q[j] \in ChargeRows /\ q[k] \in ChargeRows
  OBVIOUS
<1>5. PICK x, y, z, f, t, u : /\ x = q[i].from /\ y = q[k].from /\ z = q[j].to /\ f = q[j].full /\ t = q[j].from /\ u = q[k].to
  OBVIOUS
<1>6. x \in Int /\ y \in Int /\ z \in Int /\ f \in Int /\ t \in Int /\ u \in Int
  BY <1>4, <1>5 DEF ChargeRows
<1>7. y <= u /\ u <= z /\ t <= z /\ f <= t + Times(b, e)
  BY <1>1, <1>2, <1>3, <1>5 DEF InOrder
<1>8. Times(k - i, W) <= y - x /\ Times(j - k + 1, e) <= f - y /\ y <= z
  BY <1>1, <1>3, <1>5, <1>6, <1>7 DEF Paced, Filled
<1>9. PICK n : n = Times(j - i + 1 - b, W)
  OBVIOUS
<1>10. n <= 0 \/ n <= z - x
  BY <1>2, <1>3, <1>4, <1>6, <1>7, <1>8, <1>9, ChargesAndPace
<1>11. n \in Int
  <2>1. j - i + 1 - b \in Int
    BY <1>2
  <2> QED BY <1>2, <1>9, <2>1, ProductIsInt
<1>12. PICK d \in Int : d = z - x
  BY <1>6
<1>13. n <= Latest({0, d})
  BY <1>10, <1>11, <1>12, LatestOf
<1> QED BY <1>1, <1>5, <1>9, <1>12, <1>13 DEF Times, Pace

\* One charge more: with the row as it was, k stays; with the row deleted, the new charge is k.
LEMMA SameRow ==
  ASSUME NEW n \in Nat, NEW k \in Nat, NEW e \in Nat, NEW y \in Int, NEW f \in Int, NEW g \in Int,
         Times(n - k + 1, e) <= f - y, f + e <= g
  PROVE  Times((n + 1) - k + 1, e) <= g - y
<1>1. PICK a \in Int : a = n - k + 1
  OBVIOUS
<1>2. Times(a, e) <= f - y /\ (n + 1) - k + 1 = a + 1
  BY <1>1
<1>3. Times(a, e) + Times(1, e) = Times(a + 1, e)
  BY ProductsAdd
<1>4. Times(a, e) \in Int /\ Times(1, e) = e
  BY ProductIsInt, SmallProducts
<1>5. Times(a + 1, e) <= g - y
  BY <1>2, <1>3, <1>4
<1> QED BY <1>2, <1>5
LEMMA RowDeleted ==
  ASSUME NEW n \in Nat, NEW i \in Nat, NEW k \in Nat, NEW e \in Nat, NEW W \in Nat, NEW T \in Nat, e = W + T, k <= n,
         NEW x \in Int, NEW y \in Int, NEW f \in Int, NEW at \in Int,
         Times(k - i, W) <= y - x, Times(n - k + 1, e) <= f - y, f <= at + T
  PROVE  Times((n + 1) - i, W) <= at - x
<1>1. PICK a \in Nat : a = n - k
  OBVIOUS
<1>2. PICK m \in Int : m = k - i
  OBVIOUS
<1>3. n - k + 1 = a + 1 /\ (n + 1) - i = m + (a + 1)
  BY <1>1, <1>2
<1>4. Times(m, W) <= y - x /\ Times(a + 1, e) <= f - y
  BY <1>2, <1>3
<1>5. Times(a, e) + Times(1, e) = Times(a + 1, e) /\ Times(1, e) = e
  BY ProductsAdd, SmallProducts
<1>6. Times(a, W) + Times(1, W) = Times(a + 1, W) /\ Times(1, W) = W
  BY ProductsAdd, SmallProducts
<1>7. Times(m, W) + Times(a + 1, W) = Times(m + (a + 1), W)
  BY ProductsAdd
<1>8. Times(a, W) <= Times(a, e)
  <2>1. W <= e
    OBVIOUS
  <2> QED BY <2>1, FactorsGrow
<1>9. Times(a, W) \in Int /\ Times(a, e) \in Int
  <2>1. Times(a, W) \in Int
    BY ProductIsInt
  <2>2. Times(a, e) \in Int
    BY ProductIsInt
  <2> QED BY <2>1, <2>2
<1>10. Times(m, W) \in Int
  BY ProductIsInt
<1>11. Times(m + (a + 1), W) <= at - x
  BY <1>4, <1>5, <1>6, <1>7, <1>8, <1>9, <1>10
<1> QED BY <1>3, <1>11
LEMMA SpacedAppend ==
  ASSUME NEW s \in Slotted, NEW q \in Seq(ChargeRows), NEW m \in ChargeRows, Spaced(s, q), InOrder(s, q),
         m.from <= m.to, m.full <= m.from + Times(Burst[s], Every[s]), Every[s] <= m.full - m.from,
         \A i \in DOMAIN q : q[i].to <= m.to,
         Len(q) > 0 => q[Len(q)].full + Every[s] <= m.full \/ q[Len(q)].full <= m.from + Timeout
  PROVE  Spaced(s, Append(q, m)) /\ InOrder(s, Append(q, m))
<1>1. PICK n, r : n = Len(q) /\ r = Append(q, m)
  OBVIOUS
<1>2. PICK e, W, T : e = Every[s] /\ W = Pace(s) /\ T = Timeout
  OBVIOUS
<1>3. n \in Nat /\ DOMAIN q = 1..n /\ DOMAIN r = 1..(n + 1) /\ r[n + 1] = m /\ (\A i \in 1..n : r[i] = q[i])
  BY <1>1
<1>4. e \in Nat /\ W \in Nat /\ T \in Nat /\ e = W + T
  BY <1>2, SlotFacts
<1>5. \A i \in 1..(n + 1) : r[i] \in ChargeRows
  BY <1>3
<1>6. \A i \in 1..(n + 1) : r[i].from \in Int /\ r[i].to \in Int /\ r[i].full \in Int
  BY <1>5 DEF ChargeRows
<1>7. InOrder(s, r)
  <2> SUFFICES ASSUME NEW i \in 1..(n + 1)
               PROVE  /\ r[i].from <= r[i].to /\ r[i].full <= r[i].from + Times(Burst[s], Every[s])
                      /\ \A j \in 1..(n + 1) : i <= j => r[i].to <= r[j].to
    BY <1>3 DEF InOrder
  <2>1. CASE i \in 1..n
    <3>1. r[i].from <= r[i].to /\ r[i].full <= r[i].from + Times(Burst[s], Every[s])
      BY <1>3, <2>1 DEF InOrder
    <3>2. \A j \in 1..n : i <= j => r[i].to <= r[j].to
      BY <1>3, <2>1 DEF InOrder
    <3>3. r[i].to <= r[n + 1].to
      BY <1>3, <2>1
    <3> QED BY <1>3, <3>1, <3>2, <3>3
  <2>2. CASE i = n + 1
    <3>1. \A j \in 1..(n + 1) : i <= j => j = i
      BY <1>3, <2>2
    <3> QED BY <1>3, <1>6, <2>2, <3>1
  <2> QED BY <1>3, <2>1, <2>2
<1>8. Spaced(s, r)
  <2>0. \A i, j \in 1..n : Paced(s, r, i, j) = Paced(s, q, i, j) /\ Filled(s, r, i, j) = Filled(s, q, i, j)
    BY <1>3 DEF Paced, Filled
  <2> SUFFICES ASSUME NEW i \in 1..(n + 1), NEW j \in 1..(n + 1), i <= j
               PROVE  \E k \in 1..(n + 1) : i <= k /\ k <= j /\ Paced(s, r, i, k) /\ Filled(s, r, k, j)
    BY <1>3 DEF Spaced
  <2>1. CASE j \in 1..n
    <3>1. i \in 1..n
      BY <1>3, <2>1
    <3>2. PICK k \in 1..n : i <= k /\ k <= j /\ Paced(s, q, i, k) /\ Filled(s, q, k, j)
      BY <1>3, <2>1, <3>1 DEF Spaced
    <3>3. k \in 1..(n + 1)
      BY <1>3
    <3> QED BY <2>0, <2>1, <3>1, <3>2, <3>3
  <2>2. Paced(s, r, n + 1, n + 1) /\ Filled(s, r, n + 1, n + 1)
    <3>0. \A l \in Nat : (l + 1) - (l + 1) + 1 = 1 /\ (l + 1) - (l + 1) = 0
      OBVIOUS
    <3>1. (n + 1) - (n + 1) + 1 = 1 /\ (n + 1) - (n + 1) = 0
      <4>1. n \in Nat
        BY <1>3
      <4> QED BY <3>0, <4>1
    <3>2. Times(0, W) = 0 /\ Times(1, e) = e
      BY <1>4, SmallProducts
    <3>3. n + 1 \in 1..(n + 1)
      BY <1>3
    <3>4. m.from - m.from = 0
      BY <1>3, <1>6, <3>3
    <3> QED BY <1>2, <1>3, <3>1, <3>2, <3>4 DEF Paced, Filled
  <2>3. CASE j = n + 1 /\ i = n + 1
    BY <2>2, <2>3
  <2>4. CASE j = n + 1 /\ i \in 1..n
    <3>1. n \in 1..n /\ i <= n /\ Len(q) > 0
      BY <1>1, <1>3, <2>4
    <3>2. PICK k \in 1..n : i <= k /\ k <= n /\ Paced(s, q, i, k) /\ Filled(s, q, k, n)
      BY <1>3, <2>4, <3>1 DEF Spaced
    <3>3. PICK x, y, f, at, g : x = q[i].from /\ y = q[k].from /\ f = q[n].full /\ at = m.from /\ g = m.full
      OBVIOUS
    <3>4. x \in Int /\ y \in Int /\ f \in Int /\ at \in Int /\ g \in Int /\ k \in Nat /\ i \in Nat
      <4>1. n + 1 \in 1..(n + 1) /\ i \in 1..(n + 1) /\ k \in 1..(n + 1) /\ n \in 1..(n + 1)
        BY <1>3, <3>1
      <4> QED BY <1>3, <1>6, <2>4, <3>1, <3>3, <4>1
    <3>5. Times(k - i, W) <= y - x /\ Times(n - k + 1, e) <= f - y
      BY <1>2, <3>2, <3>3 DEF Paced, Filled
    <3>6. r[i] = q[i] /\ r[k] = q[k] /\ r[n + 1] = m /\ k \in 1..(n + 1) /\ k <= n + 1 /\ n + 1 \in 1..(n + 1) /\ n + 1 <= n + 1
      BY <1>3, <2>4
    <3>7. CASE f + e <= g
      <4>1. Times((n + 1) - k + 1, e) <= g - y
        BY <1>3, <1>4, <3>4, <3>5, <3>7, SameRow
      <4>2. Filled(s, r, k, n + 1)
        BY <1>2, <3>3, <3>6, <4>1 DEF Filled
      <4>3. Paced(s, r, i, k)
        BY <2>0, <2>4, <3>2
      <4> QED BY <2>4, <3>2, <3>6, <4>2, <4>3
    <3>8. CASE f <= at + T
      <4>1. Times((n + 1) - i, W) <= at - x
        BY <1>3, <1>4, <3>2, <3>4, <3>5, <3>8, RowDeleted
      <4>2. Paced(s, r, i, n + 1)
        BY <1>2, <3>3, <3>6, <4>1 DEF Paced
      <4> QED BY <2>2, <2>4, <3>1, <3>6, <4>2
    <3> QED BY <1>1, <1>2, <3>1, <3>3, <3>7, <3>8
  <2> QED BY <1>3, <2>1, <2>3, <2>4
<1> QED BY <1>1, <1>7, <1>8

-----------------------------------------------------------------------------
\* What a call for slots knows while it has the rows of its subjects locked.
SlotSteps  == {"slot", "charge"}
SlotFields == {"pc", "asked", "i", "at", "mine", "limited", "seen", "began"}
Before(asked, i) == {asked[k] : k \in 1..(i - 1)}
IsSlotCall(call) ==
  /\ DOMAIN call = SlotFields /\ call.pc \in SlotSteps
  /\ call.asked \in demand.asks /\ call.asked[1] \in Slotted
  /\ call.i \in 1..(Len(call.asked) + 1) /\ (call.pc = "charge" => call.i <= Len(call.asked))
  /\ call.began \in Nat /\ call.began <= seconds /\ seconds <= call.began + Timeout
  /\ call.at \in Nat /\ (call.pc = "charge" => call.began <= call.at /\ call.at <= seconds)
  /\ call.limited \in Nat
  /\ DOMAIN call.seen = Before(call.asked, call.i)
  /\ DOMAIN call.mine \subseteq DOMAIN call.seen
  /\ call.limited = 0 => DOMAIN call.mine = DOMAIN call.seen
LastFull(s) == charged[s][Len(charged[s])].full
\* The charge m, drawn for the call but not committed, follows those of s.
ComesAfter(s, m) ==
  /\ m.from <= m.to /\ m.to <= m.from + Timeout /\ m.to <= seconds
  /\ HasSlot(s, m.from) /\ m.full = Drawn(s, m.from)
  /\ \A i \in DOMAIN charged[s] : charged[s][i].to <= m.to
  /\ fullAt[s] = None /\ Len(charged[s]) > 0 => LastFull(s) <= m.to
CallFits(call) ==
  /\ call.pc \notin SlotSteps => "seen" \notin DOMAIN call
  /\ call.pc \in SlotSteps =>
       /\ IsSlotCall(call)
       /\ \A s \in DOMAIN call.mine : call.mine[s] \in ChargeRows /\ call.mine[s].by = call.asked /\ ComesAfter(s, call.mine[s])
       /\ \A s \in DOMAIN call.seen : call.seen[s] = Len(charged[s]) /\ HasSlot(s, seconds + call.limited)

\* full_at is that of the last charge, or the row was deleted after it.
RowFits(s) ==
  /\ charged[s] \in Seq(ChargeRows) /\ fullAt[s] \in Nat \cup {None}
  /\ fullAt[s] # None => Len(charged[s]) > 0 /\ fullAt[s] = LastFull(s)
  /\ fullAt[s] = None /\ Len(charged[s]) > 0 => LastFull(s) <= seconds
  /\ \A i \in DOMAIN charged[s] : charged[s][i].to <= seconds
  /\ Spaced(s, charged[s]) /\ InOrder(s, charged[s])

CallsApart == \A c, d \in Callers : c # d => Holds(c) \cap Holds(d) = {}
Opens(s, at) == IF s \in Kinds THEN Room(s, at) ELSE HasSlot(s, at)
PromiseFits ==
  promise # None =>
    /\ promise.until \in Nat
    /\ \A s \in DOMAIN promise.seen :
         /\ s \in Subjects /\ promise.seen[s] \in Nat /\ promise.seen[s] <= Seen(s)
         /\ promise.seen[s] = Seen(s) => Opens(s, promise.until)

SlotsIInv ==
  /\ demand \in Demands
  /\ \A c \in Callers : CallFits(calls[c])
  /\ CallsApart
  /\ \A s \in Slotted : RowFits(s)
  /\ PromiseFits /\ ChargedTogether

\* What the assumptions say of what a call asks for.
LEMMA AskedFacts ==
  ASSUME demand \in Demands, NEW asked \in demand.asks, asked[1] \in Slotted
  PROVE  /\ asked \in Seq(Slotted) /\ Len(asked) \in {1, 2}
         /\ Len(asked) = 2 => asked[1] # asked[2]
<1>1. CASE \E s \in Subjects : asked = <<s>>
  BY <1>1
<1>2. CASE \E n, e \in Slotted : n # e /\ asked = <<n, e>>
  BY <1>2
<1> QED BY <1>1, <1>2, DemandAssumption

\* A call for two subjects asks for a network and an address, each with slots.
LEMMA PairFacts ==
  ASSUME demand \in Demands, NEW pair \in demand.asks, Len(pair) = 2
  PROVE  pair[1] \in Slotted /\ pair[2] \in Slotted /\ pair[1] # pair[2]
<1>1. CASE \E s \in Subjects : pair = <<s>>
  BY <1>1
<1>2. CASE \E n, e \in Slotted : n # e /\ pair = <<n, e>>
  BY <1>2
<1> QED BY <1>1, <1>2, DemandAssumption

\* A slot that is there stays there as time passes.
LEMMA HasSlotIs ==
  ASSUME NEW s \in Slotted, NEW at
  PROVE  HasSlot(s, at) = (fullAt[s] = None \/ fullAt[s] <= at + Times(Burst[s] - 1, Every[s]))
BY DEF HasSlot, Times
LEMMA SlotLater ==
  ASSUME NEW s \in Slotted, fullAt[s] \in Nat \cup {None}, NEW at \in Int, NEW later \in Int, at <= later, HasSlot(s, at)
  PROVE  HasSlot(s, later)
<1>1. PICK p \in Int : p = Times(Burst[s] - 1, Every[s])
  <2>1. Burst[s] - 1 \in Int /\ Every[s] \in Nat
    BY SlotFacts
  <2> QED BY <2>1, ProductIsInt
<1>2. fullAt[s] = None \/ fullAt[s] <= at + p
  BY <1>1, HasSlotIs
<1>3. fullAt[s] = None \/ fullAt[s] <= later + p
  BY <1>2
<1> QED BY <1>1, <1>3, HasSlotIs

\* What a charge makes of full_at.
LEMMA DrawnFacts ==
  ASSUME NEW s \in Slotted, fullAt[s] \in Nat \cup {None}, NEW at \in Nat, HasSlot(s, at)
  PROVE  /\ Drawn(s, at) \in Nat /\ Every[s] <= Drawn(s, at) - at
         /\ Drawn(s, at) <= at + Times(Burst[s], Every[s])
         /\ fullAt[s] # None => fullAt[s] + Every[s] <= Drawn(s, at)
<1>1. PICK e \in Nat, b \in Nat : e = Every[s] /\ b = Burst[s] /\ b >= 1
  <2>1. Every[s] \in Nat /\ Burst[s] \in Nat /\ Burst[s] >= 1
    BY SlotFacts
  <2> QED BY <2>1
<1>2. PICK a \in Nat : b = a + 1 /\ a = b - 1
  BY <1>1
<1>3. Times(a, e) + Times(1, e) = Times(a + 1, e) /\ Times(1, e) = e
  <2>1. Times(a, e) + Times(1, e) = Times(a + 1, e)
    BY ProductsAdd
  <2>2. Times(1, e) = e
    BY SmallProducts
  <2> QED BY <2>1, <2>2
<1>4. Times(a, e) \in Int
  BY ProductIsInt
<1>5. Times(0, e) <= Times(a, e) /\ Times(0, e) = 0
  <2>1. Times(0, e) <= Times(a, e)
    BY ProductsGrow
  <2> QED BY <2>1, SmallProducts
<1>6. Times(b, e) = Times(a, e) + e
  BY <1>2, <1>3
<1>7. CASE fullAt[s] = None
  <2>1. Drawn(s, at) = at + e
    BY <1>1, <1>7 DEF Drawn
  <2> QED BY <1>1, <1>4, <1>5, <1>6, <1>7, <2>1
<1>8. CASE fullAt[s] # None
  <2>1. PICK f \in Nat : f = fullAt[s]
    BY <1>8
  <2>2. f <= at + Times(a, e)
    BY <1>1, <1>2, <1>8, <2>1, HasSlotIs
  <2>3. Drawn(s, at) = (IF f >= at THEN f ELSE at) + e
    BY <1>1, <1>8, <2>1, LatestOf DEF Drawn
  <2>4. CASE f >= at
    BY <1>1, <1>4, <1>5, <1>6, <2>1, <2>2, <2>3, <2>4
  <2>5. CASE ~(f >= at)
    BY <1>1, <1>4, <1>5, <1>6, <2>1, <2>2, <2>3, <2>5
  <2> QED BY <2>4, <2>5
<1> QED BY <1>7, <1>8

\* Whoever waits as long as he is told finds a slot.
LEMMA RetryFacts ==
  ASSUME NEW s \in Slotted, fullAt[s] \in Nat, seconds \in Nat
  PROVE  RetryAfter(s) \in Nat /\ RetryAfter(s) >= 1 /\ HasSlot(s, seconds + RetryAfter(s))
<1>1. PICK p \in Int : p = Times(Burst[s] - 1, Every[s])
  <2>1. Burst[s] - 1 \in Int /\ Every[s] \in Nat
    BY SlotFacts
  <2> QED BY <2>1, ProductIsInt
<1>2. PICK w \in Int : w = fullAt[s] - p - seconds
  OBVIOUS
<1>3. RetryAfter(s) = IF 1 >= w THEN 1 ELSE w
  <2>1. RetryAfter(s) = Latest({1, w})
    BY <1>1, <1>2 DEF RetryAfter, Times
  <2> QED BY <2>1, LatestOf
<1>4. RetryAfter(s) \in Nat /\ RetryAfter(s) >= 1
  BY <1>3
<1>5. PICK at \in Nat : at = seconds + RetryAfter(s)
  BY <1>4
<1>6. fullAt[s] <= at + p
  BY <1>2, <1>3, <1>5
<1>7. HasSlot(s, at)
  BY <1>1, <1>6, HasSlotIs
<1> QED BY <1>4, <1>5, <1>7

\* A call knows the same as long as nobody touches its rows.
LEMMA CallKept ==
  ASSUME NEW call, CallFits(call), demand' = demand, seconds' = seconds,
         "seen" \in DOMAIN call => \A s \in DOMAIN call.seen : fullAt'[s] = fullAt[s] /\ charged'[s] = charged[s]
  PROVE  CallFits(call)'
<1>1. CASE call.pc \notin SlotSteps
  BY <1>1 DEF CallFits
<1>2. CASE call.pc \in SlotSteps
  <2>1. IsSlotCall(call) /\ "seen" \in DOMAIN call
    BY <1>2 DEF CallFits, IsSlotCall, SlotFields
  <2>2. IsSlotCall(call)'
    BY <2>1 DEF IsSlotCall
  <2>3. \A s \in DOMAIN call.seen : call.seen[s] = Len(charged'[s]) /\ HasSlot(s, seconds + call.limited)'
    BY <1>2, <2>1 DEF CallFits, HasSlot
  <2>4. ASSUME NEW s \in DOMAIN call.mine
        PROVE  (call.mine[s] \in ChargeRows /\ call.mine[s].by = call.asked /\ ComesAfter(s, call.mine[s]))'
    <3>1. fullAt'[s] = fullAt[s] /\ charged'[s] = charged[s]
      BY <2>1 DEF IsSlotCall
    <3>2. call.mine[s] \in ChargeRows /\ call.mine[s].by = call.asked /\ ComesAfter(s, call.mine[s])
      BY <1>2 DEF CallFits
    <3> QED BY <3>1, <3>2 DEF ComesAfter, HasSlot, Drawn, LastFull, ChargeRows
  <2> QED BY <1>2, <2>2, <2>3, <2>4 DEF CallFits
<1> QED BY <1>1, <1>2

\* A step of one call that leaves alone what the others have locked.
HeldIn(call) == IF "seen" \in DOMAIN call THEN DOMAIN call.seen ELSE {}
LEMMA OthersKept ==
  ASSUME RunTypes, SlotsIInv, NEW c \in Callers, NEW next, Step(c, next), UNCHANGED <<demand, seconds>>,
         \A d \in Callers \ {c} : \A s \in Holds(d) : fullAt'[s] = fullAt[s] /\ charged'[s] = charged[s],
         \A d \in Callers \ {c} : HeldIn(next) \cap Holds(d) = {},
         CallFits(next)'
  PROVE  (\A d \in Callers : CallFits(calls[d]))' /\ CallsApart'
<1>1. calls' = [d \in Callers |-> IF d = c THEN next ELSE calls[d]]
  BY DEF Step, RunTypes
<1>2. ASSUME NEW d \in Callers PROVE CallFits(calls[d])'
  <2>1. CASE d = c
    BY <1>1, <2>1
  <2>2. CASE d # c
    <3>1. PICK call : call = calls[d]
      OBVIOUS
    <3>2. CallFits(call)
      BY <3>1 DEF SlotsIInv
    <3>3. "seen" \in DOMAIN call => \A s \in DOMAIN call.seen : fullAt'[s] = fullAt[s] /\ charged'[s] = charged[s]
      BY <2>2, <3>1 DEF Holds
    <3>4. CallFits(call)'
      BY <3>2, <3>3, CallKept
    <3>5. calls'[d] = call
      BY <1>1, <2>2, <3>1
    <3> QED BY <3>4, <3>5
  <2> QED BY <2>1, <2>2
<1>3. \A d \in Callers \ {c} : Holds(d)' = Holds(d)
  BY <1>1 DEF Holds
<1>4. Holds(c)' = HeldIn(next)
  BY <1>1 DEF Holds, HeldIn
<1>5. CallsApart'
  <2> SUFFICES ASSUME NEW d \in Callers, NEW e \in Callers, d # e
               PROVE  Holds(d)' \cap Holds(e)' = {}
    BY DEF CallsApart
  <2>1. CASE d # c /\ e # c
    BY <1>3, <2>1 DEF SlotsIInv, CallsApart
  <2>2. CASE d = c
    BY <1>3, <1>4, <2>2
  <2>3. CASE e = c
    BY <1>3, <1>4, <2>3
  <2> QED BY <2>1, <2>2, <2>3
<1> QED BY <1>2, <1>5

\* Rows that nobody changes.
LEMMA RowsKept ==
  ASSUME SlotsIInv, UNCHANGED <<demand, seconds>>, \A s \in Slotted : fullAt'[s] = fullAt[s] /\ charged'[s] = charged[s]
  PROVE  (\A s \in Slotted : RowFits(s))' /\ ChargedTogether'
<1>1. ASSUME NEW s \in Slotted PROVE RowFits(s)'
  <2>1. RowFits(s)
    BY DEF SlotsIInv
  <2>2. ChargeRows' = ChargeRows
    BY DEF ChargeRows
  <2>3. Spaced(s, charged[s])' /\ InOrder(s, charged[s])' /\ LastFull(s)' = LastFull(s)
    <3>1. PICK q : q = charged[s]
      OBVIOUS
    <3>2. Spaced(s, q) /\ InOrder(s, q) /\ charged'[s] = q
      BY <2>1, <3>1 DEF RowFits
    <3> QED BY <3>1, <3>2 DEF Spaced, Paced, Filled, InOrder, LastFull
  <2> QED BY <2>1, <2>2, <2>3 DEF RowFits
<1>2. ChargedTogether'
  <2> SUFFICES ASSUME NEW pair \in demand.asks, Len(pair) = 2
               PROVE  Cardinality(ChargesBy(pair[1], pair))' = Cardinality(ChargesBy(pair[2], pair))'
    BY DEF ChargedTogether
  <2>1. pair[1] \in Slotted /\ pair[2] \in Slotted
    BY PairFacts DEF SlotsIInv
  <2>2. ChargesBy(pair[1], pair)' = ChargesBy(pair[1], pair) /\ ChargesBy(pair[2], pair)' = ChargesBy(pair[2], pair)
    BY <2>1 DEF ChargesBy
  <2> QED BY <2>2 DEF SlotsIInv, ChargedTogether
<1> QED BY <1>1, <1>2

\* A step of a call that changes nothing but its own record.
LEMMA CallOnly ==
  ASSUME RunTypes, SlotsIInv, NEW c \in Callers, NEW next, Step(c, next),
         UNCHANGED <<demand, seconds, rows, fullAt, charged, promise>>,
         \A d \in Callers \ {c} : HeldIn(next) \cap Holds(d) = {},
         CallFits(next)
  PROVE  SlotsIInv'
<1>1. CallFits(next)'
  BY CallKept
<1>2. (\A d \in Callers : CallFits(calls[d]))' /\ CallsApart'
  BY <1>1, OthersKept
<1>3. (\A s \in Slotted : RowFits(s))' /\ ChargedTogether'
  BY RowsKept
<1>4. PromiseFits'
  BY DEF SlotsIInv, PromiseFits, Opens, Room, HasSlot, Seen
<1> QED BY <1>2, <1>3, <1>4 DEF SlotsIInv

\* A record of a call that has nothing to do with slots.
LEMMA OtherCalls ==
  /\ CallFits(Idle) /\ HeldIn(Idle) = {}
  /\ \A call \in RunCalls : CallFits(call) /\ HeldIn(call) = {}
<1>1. "seen" \notin DOMAIN Idle /\ Idle.pc \notin SlotSteps
  BY DEF Idle, SlotSteps
<1>2. ASSUME NEW call \in RunCalls PROVE "seen" \notin DOMAIN call /\ call.pc \notin SlotSteps
  BY DEF RunCalls, RunSteps, SlotSteps
<1> QED BY <1>1, <1>2 DEF CallFits, HeldIn

\* Calls for runs change nothing about slots; only a refusal promises something.
LEMMA SlotsOfRuns ==
  ASSUME RunsIInv, SlotsIInv, NEW c \in Callers
  PROVE  /\ \A k \in Kinds : AskRun(c, k) => SlotsIInv'
         /\ Lock(c) \/ Count(c) \/ Insert(c) \/ Fail(c) => SlotsIInv'
<1>0. RunTypes
  BY DEF RunsIInv
<1>1. ASSUME NEW k \in Kinds, AskRun(c, k) PROVE SlotsIInv'
  <2>1. PICK next : next = [pc |-> "lock", kind |-> k, began |-> seconds]
    OBVIOUS
  <2>2. next \in RunCalls
    BY <1>0, <2>1 DEF RunCalls, RunSteps, RunTypes
  <2>3. Step(c, next) /\ UNCHANGED <<demand, seconds, rows, fullAt, charged, promise>>
    BY <1>1, <2>1 DEF AskRun, New
  <2> QED BY <1>0, <2>2, <2>3, CallOnly, OtherCalls
<1>2. CASE Lock(c)
  <2>1. calls[c] \in RunCalls
    BY <1>0, <1>2 DEF Lock, RunTypes, RunSteps
  <2>2. PICK next : next = [calls[c] EXCEPT !.pc = "count"]
    OBVIOUS
  <2>3. next \in RunCalls
    BY <2>1, <2>2 DEF RunCalls, RunSteps
  <2>4. Step(c, next) /\ UNCHANGED <<demand, seconds, rows, fullAt, charged, promise>>
    BY <1>2, <2>2 DEF Lock, OnlyCalls
  <2> QED BY <1>0, <2>3, <2>4, CallOnly, OtherCalls
<1>3. CASE Count(c)
  <2>1. calls[c] \in RunCalls
    BY <1>0, <1>3 DEF Count, RunTypes, RunSteps
  <2>2. PICK k \in Kinds : k = calls[c].kind
    BY <2>1 DEF RunCalls
  <2>3. CASE Room(k, seconds)
    <3>1. PICK next : next = [calls[c] EXCEPT !.pc = "insert"]
      OBVIOUS
    <3>2. next \in RunCalls
      BY <2>1, <3>1 DEF RunCalls, RunSteps
    <3>3. Step(c, next) /\ UNCHANGED <<demand, seconds, rows, fullAt, charged, promise>>
      BY <1>3, <2>2, <2>3, <3>1 DEF Count
    <3> QED BY <1>0, <3>2, <3>3, CallOnly, OtherCalls
  <2>4. CASE ~Room(k, seconds)
    <3>1. PICK at : at = rows[k][Len(rows[k]) + 1 - RunLimit[k]]
      OBVIOUS
    <3>2. /\ Step(c, Idle) /\ UNCHANGED <<demand, seconds, rows, fullAt, charged>>
          /\ promise' = [until |-> seconds + (at + Window - seconds), seen |-> [s \in {k} |-> Seen(s)]]
      BY <1>3, <2>2, <2>4, <3>1 DEF Count, Refuse
    <3>3. at \in Nat /\ Window \in Nat /\ seconds \in Nat
      <4>1. rows[k] \in Seq(Nat) /\ RunLimit[k] \in Nat \ {0} /\ Window \in Nat /\ seconds \in Nat
        BY <1>0, LimitAssumption DEF RunTypes
      <4>2. ~(Len(rows[k]) < RunLimit[k])
        BY <2>4 DEF Room
      <4>3. Len(rows[k]) + 1 - RunLimit[k] \in 1..Len(rows[k])
        BY <4>1, <4>2
      <4> QED BY <3>1, <4>1, <4>3
    <3>4. PICK until \in Nat : until = seconds + (at + Window - seconds) /\ until - Window = at
      BY <3>3
    <3>5. Room(k, until)
      BY <3>1, <3>3, <3>4 DEF Room
    <3>6. Seen(k) = Len(rows[k]) /\ Len(rows[k]) \in Nat /\ k \in Subjects
      BY <1>0 DEF Seen, RunTypes, Subjects
    <3>7. PromiseFits'
      <4>1. promise'.until = until /\ promise'.seen = [s \in {k} |-> Seen(s)]
        BY <3>2, <3>4
      <4>2. DOMAIN promise'.seen = {k} /\ promise'.seen[k] = Seen(k)
        BY <4>1
      <4>3. Seen(k)' = Seen(k) /\ Opens(k, until)'
        BY <3>2, <3>5 DEF Seen, Opens, Room
      <4> QED BY <3>6, <4>1, <4>2, <4>3 DEF PromiseFits, Opens
    <3>8. (\A s \in Slotted : RowFits(s))' /\ ChargedTogether'
      BY <3>2, RowsKept
    <3>9. CallFits(Idle)'
      BY <3>2, OtherCalls, CallKept
    <3>10. (\A d \in Callers : CallFits(calls[d]))' /\ CallsApart'
      BY <1>0, <3>2, <3>9, OtherCalls, OthersKept
    <3> QED BY <3>2, <3>7, <3>8, <3>10 DEF SlotsIInv
  <2> QED BY <2>3, <2>4
<1>4. CASE Insert(c)
  <2>1. calls[c] \in RunCalls
    BY <1>0, <1>4 DEF Insert, RunTypes, RunSteps
  <2>2. PICK k \in Kinds : k = calls[c].kind
    BY <2>1 DEF RunCalls
  <2>3. /\ Step(c, Idle) /\ UNCHANGED <<demand, seconds, fullAt, charged, promise>>
        /\ rows' = [rows EXCEPT ![k] = Append(@, seconds)]
    BY <1>4, <2>2 DEF Insert, CreatedAt
  <2>4. (\A s \in Slotted : RowFits(s))' /\ ChargedTogether'
    BY <2>3, RowsKept
  <2>5. CallFits(Idle)'
    BY <2>3, OtherCalls, CallKept
  <2>6. (\A d \in Callers : CallFits(calls[d]))' /\ CallsApart'
    BY <1>0, <2>3, <2>5, OtherCalls, OthersKept
  <2>7. PromiseFits'
    <3>1. rows \in [Kinds -> Seq(Nat)] /\ seconds \in Nat
      BY <1>0 DEF RunTypes
    <3>2. rows'[k] = Append(rows[k], seconds) /\ Len(rows'[k]) = Len(rows[k]) + 1 /\ Len(rows[k]) \in Nat
      BY <2>3, <3>1
    <3>3. \A s \in Kinds : s # k => rows'[s] = rows[s]
      BY <2>3, <3>1
    <3>4. \A s \in Subjects : s # k => Seen(s)' = Seen(s) /\ \A at : Opens(s, at)' = Opens(s, at)
      BY <2>3, <3>3 DEF Seen, Opens, Room, HasSlot
    <3>5. Seen(k)' = Seen(k) + 1 /\ Seen(k) \in Nat
      BY <3>2 DEF Seen
    <3> SUFFICES ASSUME promise # None, NEW s \in DOMAIN promise.seen
                 PROVE  /\ promise.until \in Nat
                        /\ s \in Subjects /\ promise.seen[s] \in Nat /\ promise.seen[s] <= Seen(s)'
                        /\ promise.seen[s] = Seen(s)' => Opens(s, promise.until)'
      BY <2>3 DEF SlotsIInv, PromiseFits, Opens
    <3>6. /\ promise.until \in Nat /\ s \in Subjects /\ promise.seen[s] \in Nat /\ promise.seen[s] <= Seen(s)
          /\ promise.seen[s] = Seen(s) => Opens(s, promise.until)
      BY DEF SlotsIInv, PromiseFits
    <3>7. CASE s = k
      BY <3>5, <3>6, <3>7
    <3>8. CASE s # k
      <4>1. PICK at : at = promise.until
        OBVIOUS
      <4>2. Seen(s)' = Seen(s) /\ Opens(s, at)' = Opens(s, at)
        BY <3>4, <3>6, <3>8
      <4>3. Opens(s, promise.until)' = Opens(s, at)'
        BY <2>3, <4>1 DEF Opens
      <4> QED BY <3>6, <4>1, <4>2, <4>3
    <3> QED BY <3>7, <3>8
  <2> QED BY <2>3, <2>4, <2>6, <2>7 DEF SlotsIInv
<1>5. CASE Fail(c)
  BY <1>0, <1>5, CallOnly, OtherCalls DEF Fail, OnlyCalls
<1> QED BY <1>1, <1>2, <1>3, <1>4, <1>5

\* Only rows of slotted subjects are locked.
LEMMA HeldRows ==
  ASSUME SlotsIInv, NEW c \in Callers, NEW s \in Holds(c)
  PROVE  s \in Slotted
<1>1. PICK call : call = calls[c]
  OBVIOUS
<1>2. CallFits(call) /\ "seen" \in DOMAIN call /\ s \in DOMAIN call.seen
  BY <1>1 DEF Holds, SlotsIInv
<1>3. IsSlotCall(call)
  BY <1>2 DEF CallFits
<1>4. call.asked \in Seq(Slotted)
  BY <1>3, AskedFacts DEF SlotsIInv, IsSlotCall
<1>5. PICK k \in 1..(call.i - 1) : s = call.asked[k]
  BY <1>2, <1>3 DEF IsSlotCall, Before
<1>6. k \in 1..Len(call.asked)
  BY <1>3, <1>4 DEF IsSlotCall
<1> QED BY <1>4, <1>5, <1>6

\* A call for slots arrives: the rows deleted before a registration are free, and no slot of them is missing.
LEMMA SlotsArrive ==
  ASSUME RunsIInv, SlotsIInv, NEW c \in Callers, NEW subjects \in demand.asks, subjects[1] \in Slotted, AskSlots(c, subjects)
  PROVE  SlotsIInv'
<1>0. RunTypes /\ seconds \in Nat /\ subjects \in Seq(Slotted)
  BY AskedFacts DEF RunsIInv, RunTypes, SlotsIInv
<1>1. PICK next : next = [pc |-> "slot", asked |-> subjects, i |-> 1, at |-> 0, mine |-> <<>>, limited |-> 0, seen |-> <<>>, began |-> seconds]
  OBVIOUS
<1>2. Step(c, next) /\ UNCHANGED <<demand, seconds, rows, charged, promise>>
  BY <1>1 DEF AskSlots, New
<1>3. ASSUME NEW s \in Slotted
      PROVE  fullAt'[s] = fullAt[s] \/ (Free(s, c) /\ Expired(s) /\ fullAt'[s] = None)
  BY DEF AskSlots
<1>4. DOMAIN next.seen = {} /\ DOMAIN next.mine = {}
  BY <1>1
<1>5. CallFits(next)'
  <2>1. /\ DOMAIN next = SlotFields /\ next.pc = "slot" /\ next.asked = subjects /\ next.i = 1 /\ next.at = 0
        /\ next.limited = 0 /\ next.began = seconds
    BY <1>1 DEF SlotFields
  <2>2. Timeout \in Nat /\ 1 \in 1..(Len(subjects) + 1)
    BY <1>0, LimitAssumption
  <2>3. Before(subjects, 1) = {}
    BY DEF Before
  <2>4. IsSlotCall(next)'
    BY <1>0, <1>2, <1>4, <2>1, <2>2, <2>3 DEF IsSlotCall, SlotSteps
  <2> QED BY <1>4, <2>1, <2>4 DEF CallFits, SlotSteps
<1>6. \A d \in Callers \ {c} : \A s \in Holds(d) : fullAt'[s] = fullAt[s] /\ charged'[s] = charged[s]
  <2> SUFFICES ASSUME NEW d \in Callers \ {c}, NEW s \in Holds(d) PROVE fullAt'[s] = fullAt[s]
    BY <1>2
  <2>1. s \in Slotted
    BY HeldRows
  <2>2. ~Free(s, c)
    BY DEF Free
  <2> QED BY <1>3, <2>1, <2>2
<1>7. HeldIn(next) = {}
  BY <1>4 DEF HeldIn
<1>8. (\A d \in Callers : CallFits(calls[d]))' /\ CallsApart'
  BY <1>0, <1>2, <1>5, <1>6, <1>7, OthersKept
<1>9. (\A s \in Slotted : RowFits(s))'
  <2> SUFFICES ASSUME NEW s \in Slotted PROVE RowFits(s)'
    OBVIOUS
  <2>1. RowFits(s) /\ ChargeRows' = ChargeRows
    BY <1>2 DEF SlotsIInv, ChargeRows
  <2>2. Spaced(s, charged[s])' /\ InOrder(s, charged[s])' /\ LastFull(s)' = LastFull(s)
    BY <1>2, <2>1 DEF RowFits, Spaced, Paced, Filled, InOrder, LastFull
  <2>3. CASE fullAt'[s] = fullAt[s]
    BY <1>2, <2>1, <2>2, <2>3 DEF RowFits
  <2>4. CASE Expired(s) /\ fullAt'[s] = None
    BY <1>2, <2>1, <2>2, <2>4 DEF RowFits, Expired
  <2> QED BY <1>3, <2>3, <2>4
<1>10. ChargedTogether'
  BY <1>2 DEF SlotsIInv, ChargedTogether, ChargesBy
<1>11. PromiseFits'
  <2> SUFFICES ASSUME promise # None, NEW s \in DOMAIN promise.seen, s \in Subjects, Opens(s, promise.until)
               PROVE  Opens(s, promise.until)'
    BY <1>2 DEF SlotsIInv, PromiseFits, Seen
  <2>1. CASE s \in Kinds
    BY <1>2, <2>1 DEF Opens, Room
  <2>2. CASE s \notin Kinds
    <3>1. s \in Slotted
      BY <2>2 DEF Subjects
    <3> QED BY <1>2, <1>3, <2>2, <3>1 DEF Opens, HasSlot
  <2> QED BY <2>1, <2>2
<1> QED BY <1>2, <1>8, <1>9, <1>10, <1>11 DEF SlotsIInv


\* A statement begins: the call has what it had.
LEMMA SlotAsked ==
  ASSUME RunsIInv, SlotsIInv, NEW c \in Callers, Ask(c)
  PROVE  SlotsIInv'
<1>0. RunTypes /\ seconds \in Nat
  BY DEF RunsIInv, RunTypes
<1>1. PICK call : call = calls[c]
  OBVIOUS
<1>2. CallFits(call) /\ call.pc = "slot" /\ call.i <= Len(call.asked)
  BY <1>1 DEF SlotsIInv, Ask
<1>3. IsSlotCall(call) /\ DOMAIN call = SlotFields
  BY <1>1, <1>2 DEF CallFits, SlotSteps, IsSlotCall
<1>4. PICK next : next = [call EXCEPT !.pc = "charge", !.at = seconds]
  OBVIOUS
<1>5. Step(c, next) /\ UNCHANGED <<demand, seconds, rows, fullAt, charged, promise>>
  BY <1>1, <1>4 DEF Ask, OnlyCalls
<1>6. /\ DOMAIN next = SlotFields /\ next.pc = "charge" /\ next.at = seconds
      /\ next.asked = call.asked /\ next.i = call.i /\ next.mine = call.mine
      /\ next.limited = call.limited /\ next.seen = call.seen /\ next.began = call.began
  BY <1>3, <1>4 DEF SlotFields
<1>7. IsSlotCall(next)
  <2>1. call.began <= seconds /\ seconds <= seconds /\ next.pc \in SlotSteps
    BY <1>0, <1>3, <1>6 DEF IsSlotCall, SlotSteps
  <2> QED BY <1>0, <1>2, <1>3, <1>6, <2>1 DEF IsSlotCall
<1>8. CallFits(next)
  BY <1>2, <1>6, <1>7 DEF CallFits, SlotSteps
<1>9. \A d \in Callers \ {c} : HeldIn(next) \cap Holds(d) = {}
  <2>1. HeldIn(next) = Holds(c)
    BY <1>1, <1>3, <1>6 DEF HeldIn, Holds, SlotFields
  <2> QED BY <2>1 DEF SlotsIInv, CallsApart
<1> QED BY <1>0, <1>5, <1>8, <1>9, CallOnly


\* The subject that is asked for next is none of those that have been.
LEMMA NextSubject ==
  ASSUME demand \in Demands, NEW call, IsSlotCall(call), call.i <= Len(call.asked)
  PROVE  /\ call.asked[call.i] \in Slotted /\ call.asked[call.i] \notin DOMAIN call.seen
         /\ {call.asked[call.i]} \cup DOMAIN call.seen = Before(call.asked, call.i + 1)
<1>1. PICK q, i : q = call.asked /\ i = call.i
  OBVIOUS
<1>2. q \in Seq(Slotted) /\ Len(q) \in {1, 2} /\ (Len(q) = 2 => q[1] # q[2])
  BY <1>1, AskedFacts DEF IsSlotCall
<1>3. i \in 1..Len(q) /\ DOMAIN call.seen = {q[k] : k \in 1..(i - 1)}
  BY <1>1, <1>2 DEF IsSlotCall, Before
<1>4. q[i] \in Slotted
  BY <1>2, <1>3
<1>5. q[i] \notin {q[k] : k \in 1..(i - 1)}
  BY <1>2, <1>3
<1>6. 1..(i + 1 - 1) = {i} \cup 1..(i - 1)
  BY <1>2, <1>3
<1>7. {q[i]} \cup {q[k] : k \in 1..(i - 1)} = {q[k] : k \in 1..(i + 1 - 1)}
  BY <1>6
<1> QED BY <1>1, <1>3, <1>4, <1>5, <1>7 DEF Before

\* A charge that is drawn now follows those before it.
LEMMA DrawnNow ==
  ASSUME NEW s \in Slotted, RowFits(s), seconds \in Nat, NEW asked \in demand.asks,
         NEW at \in Nat, at <= seconds, seconds <= at + Timeout, HasSlot(s, at),
         NEW m, m = [by |-> asked, full |-> Drawn(s, at), from |-> at, to |-> seconds]
  PROVE  m \in ChargeRows /\ m.by = asked /\ ComesAfter(s, m)
<1>1. fullAt[s] \in Nat \cup {None}
  BY DEF RowFits
<1>2. Drawn(s, at) \in Nat
  BY <1>1, DrawnFacts
<1>3. m.by = asked /\ m.full = Drawn(s, at) /\ m.from = at /\ m.to = seconds
  OBVIOUS
<1>4. m \in ChargeRows
  BY <1>2 DEF ChargeRows
<1>5. ComesAfter(s, m)
  BY <1>3 DEF ComesAfter, RowFits
<1> QED BY <1>3, <1>4, <1>5


\* A statement ends: it has locked the row of its subject, and has drawn a slot or been refused.
LEMMA SlotCharged ==
  ASSUME RunsIInv, SlotsIInv, NEW c \in Callers, Charge(c)
  PROVE  SlotsIInv'
<1>0. RunTypes /\ seconds \in Nat /\ demand \in Demands /\ Timeout \in Nat
  BY LimitAssumption DEF RunsIInv, RunTypes, SlotsIInv
<1>1. PICK call, s : call = calls[c] /\ s = call.asked[call.i]
  OBVIOUS
<1>2. CallFits(call) /\ call.pc = "charge" /\ Free(s, c)
  BY <1>1 DEF SlotsIInv, Charge
<1>3. IsSlotCall(call) /\ DOMAIN call = SlotFields
  BY <1>2 DEF CallFits, SlotSteps, IsSlotCall
<1>4. /\ call.i <= Len(call.asked) /\ call.asked \in Seq(Slotted) /\ call.i \in Nat /\ call.asked \in demand.asks
      /\ call.at \in Nat /\ call.at <= seconds /\ seconds <= call.at + Timeout /\ call.limited \in Nat
      /\ call.began \in Nat /\ call.began <= seconds /\ seconds <= call.began + Timeout
      /\ call.asked[1] \in Slotted
  BY <1>0, <1>2, <1>3, AskedFacts DEF IsSlotCall
<1>5. s \in Slotted /\ s \notin DOMAIN call.seen /\ {s} \cup DOMAIN call.seen = Before(call.asked, call.i + 1)
  <2>1. /\ call.asked[call.i] \in Slotted /\ call.asked[call.i] \notin DOMAIN call.seen
        /\ {call.asked[call.i]} \cup DOMAIN call.seen = Before(call.asked, call.i + 1)
    BY <1>0, <1>3, <1>4, NextSubject
  <2> QED BY <1>1, <2>1
<1>6. RowFits(s) /\ fullAt[s] \in Nat \cup {None} /\ Seen(s) = Len(charged[s])
  BY <1>5, LimitAssumption DEF SlotsIInv, RowFits, Seen
<1>7. PICK drawn : drawn = [call EXCEPT !.pc = "slot", !.i = @ + 1, !.seen = Noting(@, s, Seen(s))]
  OBVIOUS
<1>8. /\ DOMAIN drawn = SlotFields /\ drawn.pc = "slot" /\ drawn.i = call.i + 1 /\ drawn.seen = Noting(call.seen, s, Seen(s))
      /\ drawn.asked = call.asked /\ drawn.at = call.at /\ drawn.mine = call.mine
      /\ drawn.limited = call.limited /\ drawn.began = call.began
  BY <1>3, <1>7 DEF SlotFields
<1>9. PICK m : m = [by |-> call.asked, full |-> Drawn(s, call.at), from |-> call.at, to |-> seconds]
  OBVIOUS
<1>10. PICK took, refused : /\ took = [drawn EXCEPT !.mine = Noting(@, s, m)]
                            /\ refused = [drawn EXCEPT !.limited = Latest({@, RetryAfter(s)})]
  OBVIOUS
<1>11. PICK next : next = IF HasSlot(s, call.at) THEN took ELSE refused
  OBVIOUS
<1>12. Step(c, next) /\ UNCHANGED <<demand, seconds, rows, fullAt, charged, promise>>
  BY <1>1, <1>7, <1>9, <1>10, <1>11 DEF Charge, OnlyCalls
<1>13. /\ DOMAIN next = SlotFields /\ next.pc = "slot" /\ next.i = call.i + 1 /\ next.seen = Noting(call.seen, s, Seen(s))
       /\ next.asked = call.asked /\ next.at = call.at /\ next.began = call.began
  <2>1. CASE HasSlot(s, call.at)
    BY <1>8, <1>10, <1>11, <2>1 DEF SlotFields
  <2>2. CASE ~HasSlot(s, call.at)
    BY <1>8, <1>10, <1>11, <2>2 DEF SlotFields
  <2> QED BY <2>1, <2>2
<1>14. DOMAIN next.seen = {s} \cup DOMAIN call.seen /\ next.seen[s] = Len(charged[s])
  BY <1>6, <1>13 DEF Noting
<1>15. \A t \in DOMAIN call.seen : next.seen[t] = call.seen[t]
  BY <1>5, <1>13 DEF Noting
<1>16. /\ next.limited \in Nat /\ call.limited <= next.limited /\ HasSlot(s, seconds + next.limited)
       /\ DOMAIN next.mine \subseteq DOMAIN next.seen
       /\ next.limited = 0 => DOMAIN next.mine = DOMAIN next.seen
       /\ \A t \in DOMAIN next.mine : next.mine[t] \in ChargeRows /\ next.mine[t].by = call.asked /\ ComesAfter(t, next.mine[t])
  <2>0. DOMAIN call.mine \subseteq DOMAIN call.seen /\ (call.limited = 0 => DOMAIN call.mine = DOMAIN call.seen)
    BY <1>3 DEF IsSlotCall
  <2>00. \A t \in DOMAIN call.mine : call.mine[t] \in ChargeRows /\ call.mine[t].by = call.asked /\ ComesAfter(t, call.mine[t])
    BY <1>2 DEF CallFits, SlotSteps
  <2>1. CASE HasSlot(s, call.at)
    <3>1. next.mine = Noting(call.mine, s, m) /\ next.limited = call.limited
      BY <1>8, <1>10, <1>11, <2>1 DEF SlotFields
    <3>2. DOMAIN next.mine = {s} \cup DOMAIN call.mine /\ next.mine[s] = m
      BY <3>1 DEF Noting
    <3>3. \A t \in DOMAIN call.mine : next.mine[t] = call.mine[t]
      BY <1>5, <2>0, <3>1 DEF Noting
    <3>4. PICK later \in Nat : later = seconds + next.limited
      BY <1>0, <1>4, <3>1
    <3>5. call.at <= later
      BY <1>0, <1>4, <3>1, <3>4
    <3>6. HasSlot(s, later)
      BY <1>4, <1>5, <1>6, <2>1, <3>5, SlotLater
    <3>7. m \in ChargeRows /\ m.by = call.asked /\ ComesAfter(s, m)
      BY <1>0, <1>4, <1>5, <1>6, <1>9, <2>1, DrawnNow
    <3>8. \A t \in DOMAIN next.mine : next.mine[t] \in ChargeRows /\ next.mine[t].by = call.asked /\ ComesAfter(t, next.mine[t])
      BY <2>00, <3>2, <3>3, <3>7
    <3> QED BY <1>4, <1>14, <2>0, <3>1, <3>2, <3>4, <3>6, <3>8
  <2>2. CASE ~HasSlot(s, call.at)
    <3>1. next.mine = call.mine /\ next.limited = Latest({call.limited, RetryAfter(s)})
      BY <1>8, <1>10, <1>11, <2>2 DEF SlotFields
    <3>2. fullAt[s] \in Nat
      BY <1>6, <2>2 DEF HasSlot
    <3>3. RetryAfter(s) \in Nat /\ RetryAfter(s) >= 1 /\ HasSlot(s, seconds + RetryAfter(s))
      BY <1>0, <1>5, <3>2, RetryFacts
    <3>4. PICK r \in Nat, l \in Nat : r = RetryAfter(s) /\ l = call.limited /\ r >= 1
      BY <1>4, <3>3
    <3>5. next.limited = IF l >= r THEN l ELSE r
      BY <3>1, <3>4, LatestOf
    <3>6. next.limited \in Nat /\ l <= next.limited /\ r <= next.limited /\ next.limited # 0
      BY <3>4, <3>5
    <3>7. PICK at \in Nat, later \in Nat : at = seconds + r /\ later = seconds + next.limited /\ at <= later
      BY <1>0, <3>4, <3>6
    <3>8. HasSlot(s, at)
      BY <3>3, <3>4, <3>7
    <3>9. HasSlot(s, later)
      BY <1>5, <1>6, <3>7, <3>8, SlotLater
    <3> QED BY <1>14, <2>0, <2>00, <3>1, <3>4, <3>6, <3>7, <3>9
  <2> QED BY <2>1, <2>2
<1>17. IsSlotCall(next)
  <2>1. call.i + 1 \in 1..(Len(call.asked) + 1)
    BY <1>4
  <2>4. DOMAIN next.seen = Before(next.asked, next.i)
    BY <1>5, <1>13, <1>14
  <2>5. next.i \in 1..(Len(next.asked) + 1) /\ next.pc \in SlotSteps /\ next.pc # "charge"
    BY <1>13, <2>1 DEF SlotSteps
  <2> QED BY <1>4, <1>13, <1>16, <2>4, <2>5 DEF IsSlotCall
<1>18. ASSUME NEW t \in DOMAIN next.seen PROVE next.seen[t] = Len(charged[t]) /\ HasSlot(t, seconds + next.limited)
  <2>1. CASE t = s
    BY <1>14, <1>16, <2>1
  <2>2. CASE t # s
    <3>1. t \in DOMAIN call.seen
      BY <1>14, <2>2
    <3>2. call.seen[t] = Len(charged[t]) /\ HasSlot(t, seconds + call.limited)
      BY <1>2, <3>1 DEF CallFits, SlotSteps
    <3>3. t \in Slotted /\ fullAt[t] \in Nat \cup {None}
      <4>1. t \in Slotted
        BY <1>1, <1>3, <3>1, HeldRows DEF Holds, SlotFields
      <4> QED BY <4>1 DEF SlotsIInv, RowFits
    <3>4. PICK at \in Nat, later \in Nat : at = seconds + call.limited /\ later = seconds + next.limited /\ at <= later
      BY <1>0, <1>4, <1>16
    <3>5. HasSlot(t, later)
      BY <3>2, <3>3, <3>4, SlotLater
    <3> QED BY <1>15, <3>1, <3>2, <3>4, <3>5
  <2> QED BY <2>1, <2>2
<1>19. CallFits(next)
  BY <1>13, <1>16, <1>17, <1>18 DEF CallFits, SlotSteps
<1>20. \A d \in Callers \ {c} : HeldIn(next) \cap Holds(d) = {}
  <2>1. HeldIn(next) = {s} \cup Holds(c)
    BY <1>1, <1>3, <1>13, <1>14 DEF HeldIn, Holds, SlotFields
  <2>2. \A d \in Callers \ {c} : Holds(c) \cap Holds(d) = {} /\ s \notin Holds(d)
    BY <1>2 DEF SlotsIInv, CallsApart, Free
  <2> QED BY <2>1, <2>2
<1> QED BY <1>0, <1>12, <1>19, <1>20, CallOnly


\* A row that is appended is one more of those of its kind, and none of another.
OfKind(q, asked) == {i \in DOMAIN q : q[i].by = asked}
LEMMA OneMore ==
  ASSUME NEW q \in Seq(ChargeRows), NEW m \in ChargeRows, NEW asked
  PROVE  /\ Cardinality(OfKind(q, asked)) \in Nat
         /\ m.by = asked => Cardinality(OfKind(Append(q, m), asked)) = Cardinality(OfKind(q, asked)) + 1
         /\ m.by # asked => OfKind(Append(q, m), asked) = OfKind(q, asked)
<1>1. PICK n, r : n = Len(q) /\ r = Append(q, m)
  OBVIOUS
<1>2. n \in Nat /\ DOMAIN q = 1..n /\ DOMAIN r = 1..(n + 1) /\ r[n + 1] = m /\ (\A i \in 1..n : r[i] = q[i])
  BY <1>1
<1>3. 1..(n + 1) = 1..n \cup {n + 1} /\ n + 1 \notin 1..n
  BY <1>2
<1>4. OfKind(q, asked) \subseteq 1..n
  BY <1>2 DEF OfKind
<1>5. IsFiniteSet(OfKind(q, asked))
  <2>1. IsFiniteSet(1..n)
    BY <1>2, FS_Interval
  <2>2. OfKind(q, asked) \in SUBSET (1..n)
    BY <1>4
  <2> QED BY <2>1, <2>2, FS_Subset
<1>6. Cardinality(OfKind(q, asked)) \in Nat
  BY <1>5, FS_CardinalityType
<1>7. CASE m.by = asked
  <2>1. OfKind(r, asked) = OfKind(q, asked) \cup {n + 1}
    BY <1>2, <1>3, <1>7 DEF OfKind
  <2>2. n + 1 \notin OfKind(q, asked)
    BY <1>3, <1>4
  <2> QED BY <1>1, <1>5, <1>6, <1>7, <2>1, <2>2, FS_AddElement
<1>8. CASE m.by # asked
  <2>1. OfKind(r, asked) = OfKind(q, asked)
    BY <1>2, <1>3, <1>8 DEF OfKind
  <2> QED BY <1>1, <1>6, <1>8, <2>1
<1> QED BY <1>7, <1>8


\* A charge is committed: the row it follows was as the statement found it.
LEMMA RowCharged ==
  ASSUME NEW s \in Slotted, RowFits(s), NEW m \in ChargeRows, ComesAfter(s, m), UNCHANGED <<demand, seconds>>,
         fullAt'[s] = m.full, charged'[s] = Append(charged[s], m), seconds \in Nat
  PROVE  RowFits(s)'
<1>1. PICK q : q = charged[s]
  OBVIOUS
<1>2. q \in Seq(ChargeRows) /\ Spaced(s, q) /\ InOrder(s, q) /\ fullAt[s] \in Nat \cup {None}
  BY <1>1 DEF RowFits
<1>3. m.from \in Nat /\ m.to \in Nat /\ m.full \in Nat /\ ChargeRows' = ChargeRows
  BY DEF ChargeRows
<1>4. m.from <= m.to /\ m.to <= m.from + Timeout /\ m.to <= seconds /\ m.full = Drawn(s, m.from) /\ HasSlot(s, m.from)
  BY DEF ComesAfter
<1>5. \A i \in DOMAIN q : q[i].to <= m.to
  BY <1>1 DEF ComesAfter
<1>6. /\ Every[s] <= m.full - m.from /\ m.full <= m.from + Times(Burst[s], Every[s])
      /\ fullAt[s] # None => fullAt[s] + Every[s] <= m.full
  BY <1>2, <1>3, <1>4, DrawnFacts
<1>7. ASSUME Len(q) > 0 PROVE q[Len(q)].full + Every[s] <= m.full \/ q[Len(q)].full <= m.from + Timeout
  <2>1. PICK f \in Nat : f = q[Len(q)].full
    <3>1. q[Len(q)] \in ChargeRows
      BY <1>2, <1>7
    <3> QED BY <3>1 DEF ChargeRows
  <2>2. CASE fullAt[s] # None
    BY <1>1, <1>6, <2>2 DEF RowFits, LastFull
  <2>3. CASE fullAt[s] = None
    <3>1. f <= m.to
      BY <1>1, <1>7, <2>1, <2>3 DEF ComesAfter, LastFull
    <3>2. Timeout \in Nat
      BY SlotFacts
    <3> QED BY <1>3, <1>4, <2>1, <3>1, <3>2
  <2> QED BY <2>2, <2>3
<1>8. Spaced(s, Append(q, m)) /\ InOrder(s, Append(q, m))
  BY <1>2, <1>4, <1>5, <1>6, <1>7, SpacedAppend
<1>9. PICK r, n : r = Append(q, m) /\ n = Len(q)
  OBVIOUS
<1>10. r \in Seq(ChargeRows) /\ Len(r) = n + 1 /\ n \in Nat /\ r[n + 1] = m /\ DOMAIN q = 1..n /\ DOMAIN r = 1..(n + 1) /\ \A i \in 1..n : r[i] = q[i]
  BY <1>2, <1>9
<1>11. \A i \in DOMAIN r : r[i].to <= seconds
  <2> SUFFICES ASSUME NEW i \in 1..(n + 1) PROVE r[i].to <= seconds
    BY <1>10
  <2>1. CASE i = n + 1
    BY <1>4, <1>10, <2>1
  <2>2. CASE i # n + 1
    <3>1. i \in 1..n
      BY <1>10, <2>2
    <3> QED BY <1>1, <1>10, <3>1 DEF RowFits
  <2> QED BY <2>1, <2>2
<1>12. charged'[s] = r /\ Spaced(s, r) /\ InOrder(s, r)
  BY <1>1, <1>8, <1>9
<1>13. Spaced(s, charged[s])' /\ InOrder(s, charged[s])'
  BY <1>12 DEF Spaced, Paced, Filled, InOrder
<1>14. LastFull(s)' = m.full /\ Len(charged'[s]) = n + 1
  BY <1>10, <1>12 DEF LastFull
<1>15. None \notin Nat
  BY NoRowAssumption
<1> QED BY <1>3, <1>10, <1>11, <1>12, <1>13, <1>14, <1>15 DEF RowFits


\* What a call has asked for when there is nothing left to ask: all its subjects.
LEMMA AllAsked ==
  ASSUME demand \in Demands, NEW call, IsSlotCall(call), call.i > Len(call.asked)
  PROVE  DOMAIN call.seen = {call.asked[k] : k \in 1..Len(call.asked)} /\ DOMAIN call.seen \subseteq Slotted
<1>1. call.asked \in Seq(Slotted)
  BY AskedFacts DEF IsSlotCall
<1>2. call.i = Len(call.asked) + 1 /\ Len(call.asked) \in Nat
  BY <1>1 DEF IsSlotCall
<1>3. DOMAIN call.seen = {call.asked[k] : k \in 1..Len(call.asked)}
  BY <1>2 DEF IsSlotCall, Before
<1> QED BY <1>1, <1>3

\* A call is refused: it charges nothing and is told when a slot is back of each subject.
LEMMA SlotRefused ==
  ASSUME RunsIInv, SlotsIInv, NEW c \in Callers, Close(c), calls[c].limited # 0
  PROVE  SlotsIInv'
<1>0. RunTypes /\ seconds \in Nat /\ demand \in Demands
  BY DEF RunsIInv, RunTypes, SlotsIInv
<1>1. PICK call : call = calls[c]
  OBVIOUS
<1>2. CallFits(call) /\ call.pc \in SlotSteps /\ call.i > Len(call.asked)
  BY <1>1 DEF SlotsIInv, Close, SlotSteps
<1>3. IsSlotCall(call)
  BY <1>2 DEF CallFits
<1>4. /\ Step(c, Idle) /\ UNCHANGED <<demand, seconds, rows>>
      /\ promise' = [until |-> seconds + call.limited, seen |-> call.seen]
      /\ \A s \in Slotted : fullAt'[s] = fullAt[s] /\ charged'[s] = charged[s]
  BY <1>1 DEF Close, Charges, Refuse
<1>5. CallFits(Idle)' /\ HeldIn(Idle) = {}
  BY OtherCalls DEF CallFits, Idle, SlotSteps
<1>6. \A d \in Callers \ {c} : \A s \in Holds(d) : fullAt'[s] = fullAt[s] /\ charged'[s] = charged[s]
  BY <1>4, HeldRows
<1>7. (\A d \in Callers : CallFits(calls[d]))' /\ CallsApart'
  BY <1>0, <1>4, <1>5, <1>6, OthersKept
<1>8. (\A s \in Slotted : RowFits(s))' /\ ChargedTogether'
  BY <1>4, RowsKept
<1>9. PromiseFits'
  <2>1. PICK until \in Nat : until = seconds + call.limited
    BY <1>0, <1>3 DEF IsSlotCall
  <2>2. promise'.until = until /\ promise'.seen = call.seen
    BY <1>4, <2>1
  <2>3. DOMAIN call.seen \subseteq Slotted
    BY <1>0, <1>2, <1>3, AllAsked
  <2>4. ASSUME NEW s \in DOMAIN call.seen
        PROVE  /\ s \in Subjects /\ call.seen[s] \in Nat /\ call.seen[s] = Seen(s)' /\ Opens(s, until)'
    <3>1. s \in Slotted /\ s \notin Kinds
      BY <2>3, LimitAssumption
    <3>2. call.seen[s] = Len(charged[s]) /\ HasSlot(s, until)
      BY <1>2, <2>1 DEF CallFits
    <3>3. charged[s] \in Seq(ChargeRows)
      BY <3>1 DEF SlotsIInv, RowFits
    <3>4. HasSlot(s, until)' /\ Seen(s)' = Len(charged[s])
      BY <1>4, <3>1, <3>2 DEF HasSlot, Seen
    <3> QED BY <3>1, <3>2, <3>3, <3>4 DEF Subjects, Opens
  <2> QED BY <2>1, <2>2, <2>4 DEF PromiseFits, Opens
<1> QED BY <1>4, <1>7, <1>8, <1>9 DEF SlotsIInv


\* A call that has a slot of every subject charges them all.
LEMMA SlotCommitted ==
  ASSUME RunsIInv, SlotsIInv, NEW c \in Callers, Close(c), calls[c].limited = 0
  PROVE  SlotsIInv'
<1>0. RunTypes /\ seconds \in Nat /\ demand \in Demands
  BY DEF RunsIInv, RunTypes, SlotsIInv
<1>1. PICK call, S : call = calls[c] /\ S = DOMAIN call.seen
  OBVIOUS
<1>2. CallFits(call) /\ call.pc \in SlotSteps /\ call.i > Len(call.asked)
  BY <1>1 DEF SlotsIInv, Close, SlotSteps
<1>3. IsSlotCall(call) /\ DOMAIN call.mine = S /\ "seen" \in DOMAIN call
  BY <1>1, <1>2 DEF CallFits, IsSlotCall, SlotFields
<1>4. S = {call.asked[k] : k \in 1..Len(call.asked)} /\ S \subseteq Slotted
  BY <1>0, <1>1, <1>2, <1>3, AllAsked
<1>5. /\ Step(c, Idle) /\ UNCHANGED <<demand, seconds, rows, promise>>
      /\ \A s \in S : fullAt'[s] = call.mine[s].full /\ charged'[s] = Append(charged[s], call.mine[s])
      /\ \A s \in Slotted \ S : fullAt'[s] = fullAt[s] /\ charged'[s] = charged[s]
  BY <1>1, <1>3, <1>4 DEF Close, Charges
<1>6. \A s \in S : call.mine[s] \in ChargeRows /\ call.mine[s].by = call.asked /\ ComesAfter(s, call.mine[s])
  BY <1>2, <1>3 DEF CallFits
<1>7. CallFits(Idle)' /\ HeldIn(Idle) = {}
  BY OtherCalls DEF CallFits, Idle, SlotSteps
<1>8. \A d \in Callers \ {c} : \A s \in Holds(d) : fullAt'[s] = fullAt[s] /\ charged'[s] = charged[s]
  <2> SUFFICES ASSUME NEW d \in Callers \ {c}, NEW s \in Holds(d)
               PROVE  fullAt'[s] = fullAt[s] /\ charged'[s] = charged[s]
    OBVIOUS
  <2>1. s \in Slotted
    BY HeldRows
  <2>2. Holds(c) = S /\ Holds(c) \cap Holds(d) = {}
    BY <1>1, <1>3 DEF Holds, SlotsIInv, CallsApart
  <2> QED BY <1>5, <2>1, <2>2
<1>9. (\A d \in Callers : CallFits(calls[d]))' /\ CallsApart'
  BY <1>0, <1>5, <1>7, <1>8, OthersKept
<1>10. (\A s \in Slotted : RowFits(s))'
  <2> SUFFICES ASSUME NEW s \in Slotted PROVE RowFits(s)'
    OBVIOUS
  <2>1. RowFits(s) /\ ChargeRows' = ChargeRows
    BY <1>5 DEF SlotsIInv, ChargeRows
  <2>2. CASE s \in S
    BY <1>0, <1>5, <1>6, <2>1, <2>2, RowCharged
  <2>3. CASE s \notin S
    <3>1. PICK q : q = charged[s]
      OBVIOUS
    <3>2. charged'[s] = q /\ fullAt'[s] = fullAt[s] /\ Spaced(s, q) /\ InOrder(s, q)
      BY <1>5, <2>1, <2>3, <3>1 DEF RowFits
    <3>3. Spaced(s, charged[s])' /\ InOrder(s, charged[s])' /\ LastFull(s)' = LastFull(s)
      BY <3>1, <3>2 DEF Spaced, Paced, Filled, InOrder, LastFull
    <3> QED BY <1>5, <2>1, <3>1, <3>2, <3>3 DEF RowFits
  <2> QED BY <2>2, <2>3
<1>11. PromiseFits'
  <2> SUFFICES ASSUME promise # None, NEW s \in DOMAIN promise.seen
               PROVE  /\ promise.until \in Nat
                      /\ s \in Subjects /\ promise.seen[s] \in Nat /\ promise.seen[s] <= Seen(s)'
                      /\ promise.seen[s] = Seen(s)' => Opens(s, promise.until)'
    BY <1>5 DEF SlotsIInv, PromiseFits, Opens
  <2>1. PICK at, seen : at = promise.until /\ seen = promise.seen[s]
    OBVIOUS
  <2>2. at \in Nat /\ s \in Subjects /\ seen \in Nat /\ seen <= Seen(s) /\ (seen = Seen(s) => Opens(s, at))
    BY <2>1 DEF SlotsIInv, PromiseFits
  <2>3. CASE s \in Kinds
    <3>1. Seen(s)' = Seen(s) /\ Opens(s, promise.until)' = Opens(s, at)
      BY <1>5, <2>1, <2>3 DEF Seen, Opens, Room
    <3> QED BY <2>1, <2>2, <3>1
  <2>4. CASE s \notin Kinds /\ s \in S
    <3>1. s \in Slotted /\ charged[s] \in Seq(ChargeRows)
      BY <1>4, <2>4 DEF SlotsIInv, RowFits
    <3>2. Seen(s)' = Seen(s) + 1 /\ Seen(s) \in Nat
      BY <1>5, <1>6, <2>4, <3>1 DEF Seen
    <3> QED BY <2>1, <2>2, <3>2
  <2>5. CASE s \notin Kinds /\ s \notin S
    <3>1. s \in Slotted
      BY <2>2, <2>5 DEF Subjects
    <3>2. Seen(s)' = Seen(s) /\ Opens(s, promise.until)' = Opens(s, at)
      BY <1>5, <2>1, <2>5, <3>1 DEF Seen, Opens, HasSlot
    <3> QED BY <2>1, <2>2, <3>2
  <2> QED BY <2>3, <2>4, <2>5
<1>12. ChargedTogether'
  <2> SUFFICES ASSUME NEW pair \in demand.asks, Len(pair) = 2
               PROVE  Cardinality(ChargesBy(pair[1], pair))' = Cardinality(ChargesBy(pair[2], pair))'
    BY <1>5 DEF ChargedTogether
  <2>1. pair[1] \in Slotted /\ pair[2] \in Slotted
    BY <1>0, PairFacts
  <2>2. \A s \in Slotted : ChargesBy(s, pair) = OfKind(charged[s], pair) /\ ChargesBy(s, pair)' = OfKind(charged'[s], pair)
    BY DEF ChargesBy, OfKind
  <2>3. Cardinality(OfKind(charged[pair[1]], pair)) = Cardinality(OfKind(charged[pair[2]], pair))
    BY <2>1, <2>2 DEF SlotsIInv, ChargedTogether
  <2>4. \A s \in Slotted : charged[s] \in Seq(ChargeRows)
    BY DEF SlotsIInv, RowFits
  <2>5. CASE pair = call.asked
    <3>1. pair[1] \in S /\ pair[2] \in S
      BY <1>4, <2>5
    <3>2. ASSUME NEW s \in S PROVE Cardinality(OfKind(charged'[s], pair)) = Cardinality(OfKind(charged[s], pair)) + 1
      <4>1. PICK q, m : q = charged[s] /\ m = call.mine[s]
        OBVIOUS
      <4>2. q \in Seq(ChargeRows) /\ m \in ChargeRows /\ m.by = pair /\ charged'[s] = Append(q, m)
        BY <1>4, <1>5, <1>6, <2>4, <2>5, <4>1
      <4>3. Cardinality(OfKind(Append(q, m), pair)) = Cardinality(OfKind(q, pair)) + 1
        BY <4>2, OneMore
      <4> QED BY <4>1, <4>2, <4>3
    <3> QED BY <2>1, <2>2, <2>3, <3>1, <3>2
  <2>6. CASE pair # call.asked
    <3>1. ASSUME NEW s \in Slotted PROVE OfKind(charged'[s], pair) = OfKind(charged[s], pair)
      <4>1. CASE s \in S
        <5>1. PICK q, m : q = charged[s] /\ m = call.mine[s]
          OBVIOUS
        <5>2. q \in Seq(ChargeRows) /\ m \in ChargeRows /\ m.by # pair /\ charged'[s] = Append(q, m)
          BY <1>5, <1>6, <2>4, <2>6, <4>1, <5>1
        <5>3. OfKind(Append(q, m), pair) = OfKind(q, pair)
          BY <5>2, OneMore
        <5> QED BY <5>1, <5>2, <5>3
      <4>2. CASE s \notin S
        BY <1>5, <4>2
      <4> QED BY <4>1, <4>2
    <3> QED BY <2>1, <2>2, <2>3, <3>1
  <2> QED BY <2>5, <2>6
<1> QED BY <1>5, <1>9, <1>10, <1>11, <1>12 DEF SlotsIInv


\* Time passes: no call outlives its timeout.
LEMMA SlotSecond ==
  ASSUME RunsIInv, SlotsIInv, Second
  PROVE  SlotsIInv'
<1>0. RunTypes /\ seconds \in Nat /\ demand \in Demands
  BY DEF RunsIInv, RunTypes, SlotsIInv
<1>1. /\ UNCHANGED <<demand, rows, fullAt, calls, charged, promise>>
  BY DEF Second
<1>2. PICK later \in Nat : later = seconds + 1 /\ seconds' = later
  BY <1>0 DEF Second
<1>3. ChargeRows' = ChargeRows
  BY <1>1 DEF ChargeRows
<1>4. ASSUME NEW c \in Callers PROVE CallFits(calls[c])'
  <2>1. PICK call : call = calls[c]
    OBVIOUS
  <2>2. CallFits(call) /\ calls'[c] = call
    BY <1>1, <2>1 DEF SlotsIInv
  <2>3. CASE call.pc \notin SlotSteps
    BY <2>2, <2>3 DEF CallFits
  <2>4. CASE call.pc \in SlotSteps
    <3>1. IsSlotCall(call) /\ seconds < call.began + Timeout /\ Timeout \in Nat
      BY <2>1, <2>2, <2>4, LimitAssumption DEF CallFits, Second, SlotSteps
    <3>2. IsSlotCall(call)'
      <4>1. call.began \in Nat /\ call.began <= later /\ later <= call.began + Timeout
        BY <1>0, <1>2, <3>1 DEF IsSlotCall
      <4>2. call.at \in Nat /\ (call.pc = "charge" => call.began <= call.at /\ call.at <= later)
        BY <1>0, <1>2, <3>1 DEF IsSlotCall
      <4> QED BY <1>1, <1>2, <3>1, <4>1, <4>2 DEF IsSlotCall
    <3>3. ASSUME NEW s \in DOMAIN call.mine
          PROVE  (call.mine[s] \in ChargeRows /\ call.mine[s].by = call.asked /\ ComesAfter(s, call.mine[s]))'
      <4>1. PICK m : m = call.mine[s]
        OBVIOUS
      <4>2. m \in ChargeRows /\ m.by = call.asked /\ ComesAfter(s, m)
        BY <2>2, <2>4, <4>1 DEF CallFits
      <4>3. m.to <= later
        BY <1>0, <1>2, <4>2 DEF ComesAfter, ChargeRows
      <4>4. ComesAfter(s, m)'
        BY <1>1, <1>2, <4>2, <4>3 DEF ComesAfter, HasSlot, Drawn, LastFull
      <4> QED BY <1>3, <4>1, <4>2, <4>4
    <3>4. ASSUME NEW s \in DOMAIN call.seen
          PROVE  (call.seen[s] = Len(charged[s]) /\ HasSlot(s, seconds + call.limited))'
      <4>1. call.seen[s] = Len(charged[s]) /\ HasSlot(s, seconds + call.limited)
        BY <2>2, <2>4 DEF CallFits
      <4>2. s \in Slotted
        BY <2>1, <3>1, HeldRows DEF Holds, IsSlotCall, SlotFields
      <4>3. fullAt[s] \in Nat \cup {None}
        BY <4>2 DEF SlotsIInv, RowFits
      <4>4. PICK a \in Nat, b \in Nat : a = seconds + call.limited /\ b = later + call.limited /\ a <= b
        <5>1. call.limited \in Nat
          BY <3>1 DEF IsSlotCall
        <5> QED BY <1>0, <1>2, <5>1
      <4>5. HasSlot(s, b)
        BY <4>1, <4>2, <4>3, <4>4, SlotLater
      <4>6. HasSlot(s, seconds + call.limited)'
        BY <1>1, <1>2, <4>4, <4>5 DEF HasSlot
      <4> QED BY <1>1, <4>1, <4>6
    <3>5. call.pc \notin SlotSteps => "seen" \notin DOMAIN call
      BY <2>4
    <3>6. CallFits(call)'
      BY <3>2, <3>3, <3>4, <3>5 DEF CallFits
    <3> QED BY <2>2, <3>6
  <2> QED BY <2>3, <2>4
<1>5. ASSUME NEW s \in Slotted PROVE RowFits(s)'
  <2>1. PICK q : q = charged[s]
    OBVIOUS
  <2>2. RowFits(s) /\ q \in Seq(ChargeRows) /\ Spaced(s, q) /\ InOrder(s, q)
    BY <2>1 DEF SlotsIInv, RowFits
  <2>3. Spaced(s, charged[s])' /\ InOrder(s, charged[s])' /\ LastFull(s)' = LastFull(s)
    BY <1>1, <2>1, <2>2 DEF Spaced, Paced, Filled, InOrder, LastFull
  <2>4. \A i \in DOMAIN q : q[i].to <= later
    <3> SUFFICES ASSUME NEW i \in DOMAIN q PROVE q[i].to <= later
      OBVIOUS
    <3>1. q[i] \in ChargeRows /\ q[i].to <= seconds
      BY <2>1, <2>2 DEF RowFits
    <3> QED BY <1>0, <1>2, <3>1 DEF ChargeRows
  <2>5. fullAt[s] = None /\ Len(charged[s]) > 0 => LastFull(s) <= later
    <3> SUFFICES ASSUME fullAt[s] = None, Len(q) > 0 PROVE LastFull(s) <= later
      BY <2>1
    <3>1. q[Len(q)] \in ChargeRows /\ LastFull(s) = q[Len(q)].full
      BY <2>1, <2>2 DEF LastFull
    <3>2. LastFull(s) <= seconds
      BY <2>1, <2>2 DEF RowFits
    <3> QED BY <1>0, <1>2, <3>1, <3>2 DEF ChargeRows
  <2> QED BY <1>1, <1>2, <1>3, <2>1, <2>2, <2>3, <2>4, <2>5 DEF RowFits
<1>6. CallsApart'
  BY <1>1 DEF SlotsIInv, CallsApart, Holds
<1>7. PromiseFits'
  BY <1>1 DEF SlotsIInv, PromiseFits, Opens, Room, HasSlot, Seen
<1>8. ChargedTogether'
  BY <1>1 DEF SlotsIInv, ChargedTogether, ChargesBy
<1> QED BY <1>1, <1>4, <1>5, <1>6, <1>7, <1>8 DEF SlotsIInv

\* Nobody has asked for anything at the start.
LEMMA SlotsInitHolds == LimitsInit => SlotsIInv
<1> SUFFICES ASSUME LimitsInit PROVE SlotsIInv
  OBVIOUS
<1>1. demand \in Demands /\ promise = None /\ \A c \in Callers : calls[c] = Idle
  BY DEF LimitsInit
<1>2. \A s \in Slotted : charged[s] = <<>> /\ fullAt[s] = None
  BY DEF LimitsInit
<1>3. \A s \in Slotted : RowFits(s)
  <2> SUFFICES ASSUME NEW s \in Slotted PROVE RowFits(s)
    OBVIOUS
  <2>1. charged[s] = <<>> /\ fullAt[s] = None /\ <<>> \in Seq(ChargeRows) /\ Len(<<>>) = 0 /\ DOMAIN <<>> = {}
    BY <1>2
  <2> QED BY <2>1 DEF RowFits, Spaced, InOrder
<1>4. (\A c \in Callers : CallFits(calls[c])) /\ CallsApart
  BY <1>1, OtherCalls DEF CallsApart, Holds, HeldIn
<1>5. ChargedTogether
  <2> SUFFICES ASSUME NEW pair \in demand.asks, Len(pair) = 2
               PROVE  Cardinality(ChargesBy(pair[1], pair)) = Cardinality(ChargesBy(pair[2], pair))
    BY DEF ChargedTogether
  <2>1. pair[1] \in Slotted /\ pair[2] \in Slotted
    BY <1>1, PairFacts
  <2>2. charged[pair[1]] = charged[pair[2]]
    BY <1>2, <2>1
  <2> QED BY <2>2 DEF ChargesBy
<1>6. PromiseFits
  BY <1>1 DEF PromiseFits
<1> QED BY <1>1, <1>3, <1>4, <1>5, <1>6 DEF SlotsIInv


\* Every step of a call, of either sort, preserves both invariants.
LEMMA LimitsStepHolds == RunsIInv /\ SlotsIInv /\ [LimitsNext]_limitVars => RunsIInv' /\ SlotsIInv'
<1> SUFFICES ASSUME RunsIInv, SlotsIInv, [LimitsNext]_limitVars PROVE SlotsIInv'
  BY RunsStepHolds
<1>1. CASE Second
  BY <1>1, SlotSecond
<1>2. ASSUME NEW c \in Callers, Serve(c) PROVE SlotsIInv'
  <2>1. CASE (\E k \in Kinds : <<k>> \in demand.asks /\ AskRun(c, k)) \/ Lock(c) \/ Count(c) \/ Insert(c) \/ Fail(c)
    BY <2>1, SlotsOfRuns
  <2>2. CASE \E subjects \in demand.asks : subjects[1] \in Slotted /\ AskSlots(c, subjects)
    BY <2>2, SlotsArrive
  <2>3. CASE Ask(c)
    BY <2>3, SlotAsked
  <2>4. CASE Charge(c)
    BY <2>4, SlotCharged
  <2>5. CASE Close(c)
    BY <2>5, SlotRefused, SlotCommitted
  <2> QED BY <1>2, <2>1, <2>2, <2>3, <2>4, <2>5 DEF Serve
<1>3. CASE UNCHANGED limitVars
  <2>1. UNCHANGED <<demand, seconds, rows, fullAt, calls, charged, promise>>
    BY <1>3 DEF limitVars
  <2>2. ASSUME NEW c \in Callers PROVE CallFits(calls[c])'
    <3>1. PICK call : call = calls[c]
      OBVIOUS
    <3>2. CallFits(call) /\ calls'[c] = call
      BY <2>1, <3>1 DEF SlotsIInv
    <3>3. CallFits(call)'
      BY <2>1, <3>2, CallKept
    <3> QED BY <3>2, <3>3
  <2>3. (\A s \in Slotted : RowFits(s))' /\ ChargedTogether'
    BY <2>1, RowsKept
  <2>4. CallsApart'
    BY <2>1 DEF SlotsIInv, CallsApart, Holds
  <2>5. PromiseFits'
    BY <2>1 DEF SlotsIInv, PromiseFits, Opens, Room, HasSlot, Seen
  <2> QED BY <2>1, <2>2, <2>3, <2>4, <2>5 DEF SlotsIInv
<1> QED BY <1>1, <1>2, <1>3 DEF LimitsNext

\* What the invariants say of the limits.
LEMMA LimitsFollow == RunsIInv /\ SlotsIInv => WithinLimits
<1> SUFFICES ASSUME RunsIInv, SlotsIInv PROVE WithinLimits
  OBVIOUS
<1>1. ChargesWithin
  <2> SUFFICES ASSUME NEW s \in Slotted, NEW i \in DOMAIN charged[s], NEW j \in DOMAIN charged[s], i < j
               PROVE  (j - i + 1 - Burst[s]) * (Every[s] - Timeout) <= Latest({0, charged[s][j].to - charged[s][i].from})
    BY DEF ChargesWithin
  <2>1. charged[s] \in Seq(ChargeRows) /\ Spaced(s, charged[s]) /\ InOrder(s, charged[s])
    BY DEF SlotsIInv, RowFits
  <2> QED BY <2>1, SpacedIsWithin
<1>2. RetryAfterHolds
  <2> SUFFICES ASSUME promise # None, seconds >= promise.until, NEW s \in DOMAIN promise.seen,
                      \A t \in DOMAIN promise.seen : Seen(t) = promise.seen[t]
               PROVE  IF s \in Kinds THEN Room(s, seconds) ELSE HasSlot(s, seconds)
    BY DEF RetryAfterHolds
  <2>1. PICK at \in Nat : at = promise.until /\ s \in Subjects /\ Opens(s, at)
    BY DEF SlotsIInv, PromiseFits
  <2>2. seconds \in Nat /\ at <= seconds
    BY <2>1 DEF RunsIInv, RunTypes
  <2>3. CASE s \in Kinds
    <3>1. rows[s] \in Seq(Nat) /\ Room(s, at)
      BY <2>1, <2>3 DEF RunsIInv, RunTypes, Opens
    <3> QED BY <2>1, <2>2, <2>3, <3>1, RoomLater
  <2>4. CASE s \notin Kinds
    <3>1. s \in Slotted /\ HasSlot(s, at)
      BY <2>1, <2>4 DEF Subjects, Opens
    <3>2. fullAt[s] \in Nat \cup {None}
      BY <3>1 DEF SlotsIInv, RowFits
    <3> QED BY <2>1, <2>2, <2>4, <3>1, <3>2, SlotLater
  <2> QED BY <2>3, <2>4
<1> QED BY <1>1, <1>2 DEF WithinLimits, RunsIInv, SlotsIInv

\* However the calls of the API instances interleave: no window holds more runs of a kind than its
\* limit, no stretch of time more charges than a burst and the slots that came back in it, no network is
\* charged without the address, and whoever waits as long as Retry-After says is not refused for it.
THEOREM LimitsAlwaysHold == LimitsSpec => []WithinLimits
<1> QED BY RunsInitHolds, SlotsInitHolds, LimitsStepHolds, LimitsFollow, PTL DEF LimitsSpec

-----------------------------------------------------------------------------
(***************************************************************************)
(* The types.  What a row and a call hold follows from the two invariants;  *)
(* that everything stays within the clock and the calls there are is        *)
(* InBounds.                                                                *)
(***************************************************************************)
CallSteps == {"idle", "lock", "count", "insert", "slot", "charge"}
RowsArePast == \A k \in Kinds : \A i \in DOMAIN rows[k] : rows[k][i] <= seconds
InBounds ==
  /\ seconds \in 0..MaxTime /\ served \in 0..demand.most
  /\ RowsArePast
  /\ \A c \in Callers : calls[c].pc \in CallSteps

\* A call that only changes its step.
LEMMA BoundsOfStep ==
  ASSUME RunsIInv, InBounds, NEW c \in Callers, NEW next, Step(c, next), next.pc \in CallSteps,
         UNCHANGED <<demand, seconds>>, served' \in 0..demand.most, RowsArePast'
  PROVE  InBounds'
<1>1. calls = [d \in Callers |-> calls[d]]
  BY DEF RunsIInv, RunTypes
<1>2. \A d \in Callers : calls'[d] = IF d = c THEN next ELSE calls[d]
  BY <1>1 DEF Step
<1> QED BY <1>2 DEF InBounds

LEMMA CallBounds ==
  ASSUME RunsIInv, SlotsIInv, InBounds, NEW c \in Callers, Serve(c)
  PROVE  InBounds'
<1>1. HasStep(calls[c])
  BY DEF RunsIInv, RunTypes
<1>2. RowsArePast /\ served \in 0..demand.most /\ demand.most \in Nat
  BY DemandAssumption DEF InBounds, SlotsIInv
<1>3. UNCHANGED <<seconds, rows>> => RowsArePast'
  BY <1>2 DEF RowsArePast
<1>4. Idle.pc = "idle" /\ "idle" \in CallSteps /\ \A x \in CallSteps : x = x
  BY DEF Idle, CallSteps
<1>5. ASSUME NEW k \in Kinds, AskRun(c, k) PROVE InBounds'
  <2>1. PICK next : next = [pc |-> "lock", kind |-> k, began |-> seconds]
    OBVIOUS
  <2>2. Step(c, next) /\ UNCHANGED <<demand, seconds, rows>> /\ served < demand.most /\ served' = served + 1
    BY <1>5, <2>1 DEF AskRun, New
  <2>3. next.pc \in CallSteps
    BY <2>1 DEF CallSteps
  <2> QED BY <1>2, <1>3, <2>2, <2>3, BoundsOfStep
<1>6. ASSUME NEW subjects, AskSlots(c, subjects) PROVE InBounds'
  <2>1. PICK next : next = [pc |-> "slot", asked |-> subjects, i |-> 1, at |-> 0, mine |-> <<>>, limited |-> 0, seen |-> <<>>, began |-> seconds]
    OBVIOUS
  <2>2. Step(c, next) /\ UNCHANGED <<demand, seconds, rows>> /\ served < demand.most /\ served' = served + 1
    BY <1>6, <2>1 DEF AskSlots, New
  <2>3. next.pc \in CallSteps
    BY <2>1 DEF CallSteps
  <2> QED BY <1>2, <1>3, <2>2, <2>3, BoundsOfStep
<1>7. CASE Lock(c)
  <2>1. PICK next : next = [calls[c] EXCEPT !.pc = "count"]
    OBVIOUS
  <2>2. Step(c, next) /\ UNCHANGED <<demand, seconds, rows, served>>
    BY <1>7, <2>1 DEF Lock, OnlyCalls
  <2>3. next.pc \in CallSteps
    BY <1>1, <2>1 DEF CallSteps, HasStep
  <2> QED BY <1>2, <1>3, <2>2, <2>3, BoundsOfStep
<1>8. CASE Count(c)
  <2>1. PICK next : next = [calls[c] EXCEPT !.pc = "insert"]
    OBVIOUS
  <2>2. (Step(c, next) \/ Step(c, Idle)) /\ UNCHANGED <<demand, seconds, rows, served>>
    BY <1>8, <2>1 DEF Count
  <2>3. next.pc \in CallSteps
    BY <1>1, <2>1 DEF CallSteps, HasStep
  <2>4. CASE Step(c, next)
    BY <1>2, <1>3, <2>2, <2>3, <2>4, BoundsOfStep
  <2>5. CASE Step(c, Idle)
    BY <1>2, <1>3, <1>4, <2>2, <2>5, BoundsOfStep
  <2> QED BY <2>2, <2>4, <2>5
<1>9. CASE Insert(c)
  <2>1. PICK k : k = calls[c].kind
    OBVIOUS
  <2>2. rows' = [rows EXCEPT ![k] = Append(@, seconds)] /\ Step(c, Idle) /\ UNCHANGED <<demand, seconds, served>>
    BY <1>9, <2>1 DEF Insert, CreatedAt
  <2>3. rows \in [Kinds -> Seq(Nat)] /\ seconds \in Nat
    BY DEF RunsIInv, RunTypes
  <2>4. ASSUME NEW j \in Kinds PROVE \A i \in DOMAIN rows'[j] : rows'[j][i] <= seconds
    <3>1. rows[j] \in Seq(Nat) /\ \A i \in DOMAIN rows[j] : rows[j][i] <= seconds
      BY <1>2, <2>3 DEF RowsArePast
    <3>2. rows'[j] = rows[j] \/ rows'[j] = Append(rows[j], seconds)
      BY <2>2, <2>3
    <3>3. CASE rows'[j] = Append(rows[j], seconds)
      <4>1. PICK q \in Seq(Nat), n \in Nat, now \in Nat : q = rows[j] /\ n = Len(q) /\ now = seconds
        BY <2>3, <3>1
      <4>2. \A i \in 1..n : q[i] <= now
        BY <3>1, <4>1
      <4>3. DOMAIN Append(q, now) = 1..(n + 1)
        BY <4>1
      <4>4. \A i \in 1..(n + 1) : Append(q, now)[i] = IF i = n + 1 THEN now ELSE q[i]
        BY <4>1
      <4>5. \A i \in 1..(n + 1) : i # n + 1 => i \in 1..n
        BY <4>1
      <4>6. \A i \in 1..(n + 1) : Append(q, now)[i] <= now
        BY <4>1, <4>2, <4>4, <4>5
      <4> QED BY <3>3, <4>1, <4>3, <4>6
    <3> QED BY <3>1, <3>2, <3>3
  <2>5. RowsArePast'
    BY <2>2, <2>4 DEF RowsArePast
  <2> QED BY <1>2, <1>4, <2>2, <2>5, BoundsOfStep
<1>10. CASE Ask(c)
  <2>1. PICK next : next = [calls[c] EXCEPT !.pc = "charge", !.at = seconds]
    OBVIOUS
  <2>2. Step(c, next) /\ UNCHANGED <<demand, seconds, rows, served>>
    BY <1>10, <2>1 DEF Ask, OnlyCalls
  <2>3. next.pc \in CallSteps
    BY <1>1, <2>1 DEF CallSteps, HasStep
  <2> QED BY <1>2, <1>3, <2>2, <2>3, BoundsOfStep
<1>11. CASE Charge(c)
  <2>1. PICK next : next.pc = "slot" /\ Step(c, next)
    <3> DEFINE call == calls[c]
               s == call.asked[call.i]
               drawn == [call EXCEPT !.pc = "slot", !.i = @ + 1, !.seen = Noting(@, s, Seen(s))]
               taken == [drawn EXCEPT !.mine = Noting(@, s, [by |-> call.asked, full |-> Drawn(s, call.at), from |-> call.at, to |-> seconds])]
               refused == [drawn EXCEPT !.limited = Latest({@, RetryAfter(s)})]
    <3>1. HasStep(drawn) /\ drawn.pc = "slot"
      BY <1>1 DEF HasStep
    <3>2. Step(c, IF HasSlot(s, call.at) THEN taken ELSE refused)
      BY <1>11 DEF Charge
    <3> HIDE DEF drawn
    <3>3. HasStep(taken) /\ taken.pc = "slot" /\ HasStep(refused) /\ refused.pc = "slot"
      BY <3>1 DEF HasStep
    <3> QED BY <3>2, <3>3
  <2>2. UNCHANGED <<demand, seconds, rows, served>>
    BY <1>11 DEF Charge, OnlyCalls
  <2>3. next.pc \in CallSteps
    BY <2>1 DEF CallSteps
  <2> QED BY <1>2, <1>3, <2>1, <2>2, <2>3, BoundsOfStep
<1>12. CASE Close(c) \/ Fail(c)
  <2>1. Step(c, Idle) /\ UNCHANGED <<demand, seconds, rows, served>>
    BY <1>12 DEF Close, Fail, OnlyCalls
  <2> QED BY <1>2, <1>3, <1>4, <2>1, BoundsOfStep
<1> QED BY <1>5, <1>6, <1>7, <1>8, <1>9, <1>10, <1>11, <1>12 DEF Serve

LEMMA BoundsHold == RunsIInv /\ SlotsIInv /\ InBounds /\ [LimitsNext]_limitVars => InBounds'
<1> SUFFICES ASSUME RunsIInv, SlotsIInv, InBounds, [LimitsNext]_limitVars PROVE InBounds'
  OBVIOUS
<1>1. CASE Second
  <2>1. seconds < MaxTime /\ seconds' = seconds + 1 /\ UNCHANGED <<demand, served, rows, calls>>
    BY <1>1 DEF Second
  <2>2. MaxTime \in Nat /\ rows \in [Kinds -> Seq(Nat)]
    BY LimitAssumption DEF RunsIInv, RunTypes
  <2>3. RowsArePast'
    BY <2>1, <2>2 DEF InBounds, RowsArePast
  <2> QED BY <2>1, <2>2, <2>3 DEF InBounds
<1>2. ASSUME NEW c \in Callers, Serve(c) PROVE InBounds'
  BY <1>2, CallBounds
<1>3. CASE UNCHANGED limitVars
  BY <1>3 DEF limitVars, InBounds, RowsArePast
<1> QED BY <1>1, <1>2, <1>3 DEF LimitsNext

LEMMA BoundsAtFirst == LimitsInit => InBounds
<1> SUFFICES ASSUME LimitsInit PROVE InBounds
  OBVIOUS
<1>1. MaxTime \in Nat /\ demand.most \in Nat
  BY LimitAssumption, DemandAssumption DEF LimitsInit
<1> QED BY <1>1 DEF LimitsInit, InBounds, RowsArePast, Idle, CallSteps

\* full_at is a time at which the slots that a burst has are back.
LEMMA FullAtIsTyped ==
  ASSUME RunsIInv, SlotsIInv, InBounds, NEW s \in Slotted, fullAt[s] # None
  PROVE  fullAt[s] \in 1..(MaxTime + Burst[s] * Every[s])
<1>1. RowFits(s)
  BY DEF SlotsIInv
<1>2. PICK q, n : q = charged[s] /\ n = Len(q)
  OBVIOUS
<1>3. q \in Seq(ChargeRows) /\ n \in Nat /\ n > 0 /\ fullAt[s] = q[n].full /\ n \in DOMAIN q
  BY <1>1, <1>2 DEF RowFits, LastFull
<1>4. PICK f \in Nat, from \in Nat, to \in Nat : f = q[n].full /\ from = q[n].from /\ to = q[n].to
  <2>1. q[n] \in ChargeRows
    BY <1>3
  <2> QED BY <2>1 DEF ChargeRows
<1>5. PICK e \in Nat : e = Every[s] /\ e >= 1
  BY LimitAssumption
<1>6. PICK t \in Int : t = Times(Burst[s], Every[s])
  <2>1. Burst[s] \in Int /\ Every[s] \in Nat
    BY SlotFacts
  <2> QED BY <2>1, ProductIsInt
<1>7. Filled(s, q, n, n)
  <2>1. PICK k \in DOMAIN q : n <= k /\ k <= n /\ Filled(s, q, k, n)
    BY <1>1, <1>2, <1>3 DEF RowFits, Spaced
  <2>2. k = n
    BY <1>3, <2>1
  <2> QED BY <2>1, <2>2
<1>8. e <= f - from
  <2>1. n - n + 1 = 1
    BY <1>3
  <2>2. Times(1, e) = e
    BY SmallProducts
  <2> QED BY <1>4, <1>5, <1>7, <2>1, <2>2 DEF Filled
<1>9. from <= to /\ f <= from + t /\ to <= seconds /\ seconds \in Nat /\ seconds <= MaxTime /\ MaxTime \in Nat
  BY <1>1, <1>2, <1>3, <1>4, <1>6, LimitAssumption DEF RowFits, InOrder, InBounds
<1>10. f \in 1..(MaxTime + t)
  BY <1>4, <1>5, <1>6, <1>8, <1>9
<1> QED BY <1>3, <1>4, <1>6, <1>10 DEF Times

\* A sequence is one of the set that its elements are in.
LEMMA ElementsWithin ==
  ASSUME NEW S, NEW T, NEW q \in Seq(S), \A i \in 1..Len(q) : q[i] \in T
  PROVE  q \in Seq(T)
<1>1. Len(q) \in Nat /\ q \in [1..Len(q) -> T]
  OBVIOUS
<1> QED BY <1>1

LEMMA LimitsTyped == RunsIInv /\ SlotsIInv /\ InBounds => LimitsTypeOK
<1> SUFFICES ASSUME RunsIInv, SlotsIInv, InBounds PROVE LimitsTypeOK
  OBVIOUS
<1>1. ASSUME NEW k \in Kinds PROVE rows[k] \in Seq(0..MaxTime)
  <2>1. rows[k] \in Seq(Nat) /\ \A i \in DOMAIN rows[k] : rows[k][i] <= seconds
    BY DEF RunsIInv, RunTypes, InBounds, RowsArePast
  <2>2. seconds \in Nat /\ seconds <= MaxTime /\ MaxTime \in Nat
    BY LimitAssumption DEF InBounds
  <2>3. \A i \in 1..Len(rows[k]) : rows[k][i] \in 0..MaxTime
    BY <2>1, <2>2
  <2> QED BY <2>1, <2>3, ElementsWithin
<1>2. ASSUME NEW s \in Slotted, NEW i \in DOMAIN charged[s] PROVE charged[s][i].from <= charged[s][i].to
  BY DEF SlotsIInv, RowFits, InOrder
<1>3. demand \in Demands
  BY DEF SlotsIInv
<1> QED BY <1>1, <1>2, <1>3, FullAtIsTyped DEF LimitsTypeOK, InBounds, CallSteps

\* Rows, slots, charges and calls keep their types, and full_at never runs further ahead of the clock than
\* the slots of a burst.
THEOREM LimitsAreTyped == LimitsSpec => []LimitsTypeOK
<1>1. LimitsInit => RunsIInv /\ SlotsIInv /\ InBounds
  BY RunsInitHolds, SlotsInitHolds, BoundsAtFirst
<1>2. RunsIInv /\ SlotsIInv /\ InBounds /\ [LimitsNext]_limitVars => (RunsIInv /\ SlotsIInv /\ InBounds)'
  BY LimitsStepHolds, BoundsHold
<1> QED BY <1>1, <1>2, LimitsTyped, PTL DEF LimitsSpec

=============================================================================
