-------------------------- MODULE HostPool_proofs --------------------------
(***************************************************************************)
(* Theorems about the pool of judge hosts, for every number of hosts,      *)
(* contests, invocations and failures.                                     *)
(***************************************************************************)
EXTENDS HostPool, FiniteSetTheorems, WellFoundedInduction, TLAPS

\* A set of naturals has a least element: what holds of no least number holds of none.
LEMMA LeastCase ==
  ASSUME NEW S, S \subseteq Nat, S # {}
  PROVE  Min(S) \in S /\ \A x \in S : Min(S) <= x
<1> DEFINE R == OpToRel(<, Nat)
<1>1. IsWellFoundedOn(R, Nat)
  BY NatLessThanWellFounded
<1>2. \A y, x \in Nat : y < x => <<y, x>> \in R
  BY DEF OpToRel
<1> HIDE DEF R
<1>3. PICK x \in S : \A y \in S : ~ (<<y, x>> \in R)
  BY <1>1, WFMin
<1>4. \A y \in S : ~(y < x)
  BY <1>2, <1>3
<1>5. \A y \in S : x <= y
  BY <1>4
<1> QED BY <1>5 DEF Min

\* What is not in a sequence yet is put at its end.
LEMMA AddLast ==
  ASSUME NEW S, NEW s \in Seq(S), NEW x \in S, x \notin ToSet(s), IsInjective(s)
  PROVE  /\ Append(s, x) \in Seq(S) /\ IsInjective(Append(s, x))
         /\ ToSet(Append(s, x)) = ToSet(s) \cup {x}
<1>1. /\ Len(s) \in Nat /\ DOMAIN s = 1..Len(s) /\ Append(s, x) \in Seq(S)
      /\ DOMAIN Append(s, x) = 1..(Len(s) + 1)
      /\ Append(s, x)[Len(s) + 1] = x /\ \A n \in 1..Len(s) : Append(s, x)[n] = s[n]
  OBVIOUS
<1>2. \A n \in 1..Len(s) : s[n] # x
  BY <1>1 DEF ToSet
<1>3. IsInjective(Append(s, x))
  <2> SUFFICES ASSUME NEW m \in 1..(Len(s) + 1), NEW n \in 1..(Len(s) + 1), Append(s, x)[m] = Append(s, x)[n]
               PROVE  m = n
    BY <1>1 DEF IsInjective
  <2>1. CASE m \in 1..Len(s) /\ n \in 1..Len(s)
    BY <2>1, <1>1 DEF IsInjective
  <2>2. CASE m = Len(s) + 1 \/ n = Len(s) + 1
    BY <2>2, <1>1, <1>2
  <2> QED BY <2>1, <2>2, <1>1
<1>4. ToSet(Append(s, x)) = ToSet(s) \cup {x}
  <2>1. \A n \in 1..(Len(s) + 1) : Append(s, x)[n] \in ToSet(s) \cup {x}
    BY <1>1 DEF ToSet
  <2>2. \A n \in 1..Len(s) : s[n] \in ToSet(Append(s, x))
    BY <1>1 DEF ToSet
  <2>3. x \in ToSet(Append(s, x))
    BY <1>1 DEF ToSet
  <2> QED BY <2>1, <2>2, <2>3, <1>1 DEF ToSet
<1> QED BY <1>1, <1>3, <1>4

\* The recursion of Among: what it kept of the first n.
Keeps(f, n, s, S) ==
  f = [i \in 0..n |-> IF i = 0 THEN <<>> ELSE IF s[i] \in S THEN Append(f[i - 1], s[i]) ELSE f[i - 1]]

LEMMA KeepsExist ==
  ASSUME NEW s, NEW S, NEW n \in Nat
  PROVE  \E f : Keeps(f, n, s, S)
<1> DEFINE Lacking == {m \in Nat : ~\E f : Keeps(f, m, s, S)}
           On(f, i) == IF s[i] \in S THEN Append(f[i - 1], s[i]) ELSE f[i - 1]
<1>0. \A f, m : Keeps(f, m, s, S) <=> f = [i \in 0..m |-> IF i = 0 THEN <<>> ELSE On(f, i)]
  BY DEF Keeps
<1> HIDE DEF On
<1> SUFFICES ASSUME Lacking # {} PROVE FALSE
  OBVIOUS
<1>1. PICK m \in Lacking : \A k \in Lacking : m <= k
  <2>1. Lacking \subseteq Nat /\ Lacking # {}
    OBVIOUS
  <2> HIDE DEF Lacking
  <2> QED BY <2>1, LeastCase
<1>2. CASE m = 0
  <2> DEFINE g == [i \in 0..0 |-> <<>>]
  <2>1. g = [i \in 0..0 |-> IF i = 0 THEN <<>> ELSE On(g, i)]
    BY DEF g
  <2> HIDE DEF g
  <2>2. Keeps(g, 0, s, S)
    BY <1>0, <2>1
  <2> QED BY <1>1, <1>2, <2>2
<1>3. CASE m # 0
  <2>1. m \in Nat /\ m - 1 \in Nat /\ m - 1 \notin Lacking
    BY <1>1, <1>3
  <2>2. PICK f : Keeps(f, m - 1, s, S)
    BY <2>1
  <2>3. f = [i \in 0..(m - 1) |-> IF i = 0 THEN <<>> ELSE On(f, i)]
    BY <1>0, <2>2
  <2> DEFINE g == [i \in 0..m |-> IF i = m THEN On(f, m) ELSE f[i]]
  <2>4. ASSUME NEW i \in 0..m PROVE g[i] = IF i = 0 THEN <<>> ELSE On(g, i)
    <3>1. i = 0 => g[0] = f[0] /\ f[0] = <<>>
      BY <1>3, <2>1, <2>3
    <3>2. i # 0 => i - 1 \in 0..(m - 1) /\ g[i - 1] = f[i - 1]
      BY <2>1
    <3>3. i # 0 => On(g, i) = On(f, i)
      BY <3>2 DEF On
    <3>4. i # 0 /\ i # m => i \in 0..(m - 1) /\ g[i] = f[i] /\ f[i] = On(f, i)
      BY <2>1, <2>3
    <3>5. i = m => g[i] = On(f, i)
      OBVIOUS
    <3> HIDE DEF g
    <3> QED BY <3>1, <3>3, <3>4, <3>5
  <2>5. g = [i \in 0..m |-> g[i]]
    OBVIOUS
  <2> HIDE DEF g
  <2>6. g = [i \in 0..m |-> IF i = 0 THEN <<>> ELSE On(g, i)]
    BY <2>4, <2>5
  <2>7. Keeps(g, m, s, S)
    BY <1>0, <2>6
  <2> QED BY <1>1, <2>7
<1> QED BY <1>2, <1>3

\* Among keeps exactly the members of S, each once if s names it once.
LEMMA AmongFacts ==
  ASSUME NEW T, NEW s \in Seq(T), IsInjective(s), NEW S
  PROVE  /\ Among(s, S) \in Seq(ToSet(s) \cap S) /\ IsInjective(Among(s, S))
         /\ ToSet(Among(s, S)) = ToSet(s) \cap S
<1> DEFINE f == CHOOSE g : Keeps(g, Len(s), s, S)
           Upto(i) == {s[j] : j \in 1..i}
           KeptAt(i) == f[i] \in Seq(Upto(i) \cap S) /\ IsInjective(f[i]) /\ ToSet(f[i]) = Upto(i) \cap S
           Odd == {i \in 0..Len(s) : ~KeptAt(i)}
<1>0. Len(s) \in Nat /\ DOMAIN s = 1..Len(s)
  OBVIOUS
<1>1. Keeps(f, Len(s), s, S)
  BY <1>0, KeepsExist
<1>2. Among(s, S) = f[Len(s)]
  BY DEF Among, Keeps
<1> HIDE DEF f
<1>3. \A i \in 0..Len(s) : f[i] = IF i = 0 THEN <<>> ELSE IF s[i] \in S THEN Append(f[i - 1], s[i]) ELSE f[i - 1]
  BY <1>1 DEF Keeps
<1> HIDE DEF KeptAt
<1>4. Odd = {}
  <2> SUFFICES ASSUME Odd # {} PROVE FALSE
    OBVIOUS
  <2>1. Odd \subseteq Nat /\ Odd # {}
    BY <1>0
  <2>2. PICK m \in Odd : \A k \in Odd : m <= k
    <3> HIDE DEF Odd
    <3> QED BY <2>1, LeastCase
  <2>3. CASE m = 0
    <3>1. f[0] = <<>> /\ Upto(0) = {}
      BY <1>0, <1>3
    <3>2. <<>> \in Seq({}) /\ IsInjective(<<>>) /\ ToSet(<<>>) = {}
      BY DEF IsInjective, ToSet
    <3>3. KeptAt(0)
      BY <3>1, <3>2 DEF KeptAt
    <3> QED BY <2>2, <2>3, <3>3
  <2>4. CASE m # 0
    <3>1. m \in 1..Len(s) /\ m - 1 \in 0..Len(s) /\ m - 1 \notin Odd
      BY <1>0, <2>2, <2>4
    <3>2. KeptAt(m - 1)
      BY <3>1
    <3>3. Upto(m) = Upto(m - 1) \cup {s[m]} /\ s[m] \notin Upto(m - 1)
      <4>1. \A j \in 1..(m - 1) : j \in DOMAIN s /\ j # m /\ m \in DOMAIN s
        BY <1>0, <3>1
      <4>2. \A j \in 1..(m - 1) : s[j] # s[m]
        BY <4>1 DEF IsInjective
      <4>3. 1..m = (1..(m - 1)) \cup {m}
        BY <3>1
      <4> QED BY <4>2, <4>3
    <3>4. PICK q : q = f[m - 1]
      OBVIOUS
    <3>5. PICK U : U = Upto(m) \cap S
      OBVIOUS
    <3>6. q \in Seq(U) /\ IsInjective(q) /\ ToSet(q) = Upto(m - 1) \cap S
      <4>1. Upto(m - 1) \cap S \subseteq U
        BY <3>3, <3>5
      <4>2. q \in Seq(Upto(m - 1) \cap S) /\ IsInjective(q) /\ ToSet(q) = Upto(m - 1) \cap S
        BY <3>2, <3>4 DEF KeptAt
      <4> HIDE DEF Upto
      <4> QED BY <4>1, <4>2
    <3>7. CASE s[m] \in S
      <4>1. f[m] = Append(q, s[m])
        BY <1>3, <3>1, <3>4, <3>7, <2>4
      <4>2. s[m] \in U /\ s[m] \notin ToSet(q)
        BY <3>3, <3>5, <3>6, <3>7
      <4>3. Append(q, s[m]) \in Seq(U) /\ IsInjective(Append(q, s[m])) /\ ToSet(Append(q, s[m])) = ToSet(q) \cup {s[m]}
        BY <3>6, <4>2, AddLast
      <4>4. ToSet(q) \cup {s[m]} = U
        BY <3>3, <3>5, <3>6, <3>7
      <4>5. KeptAt(m)
        BY <4>1, <4>3, <4>4, <3>5 DEF KeptAt
      <4> QED BY <2>2, <4>5
    <3>8. CASE s[m] \notin S
      <4>1. f[m] = q
        BY <1>3, <3>1, <3>4, <3>8, <2>4
      <4>2. Upto(m - 1) \cap S = U
        BY <3>3, <3>5, <3>8
      <4>3. KeptAt(m)
        BY <4>1, <4>2, <3>5, <3>6 DEF KeptAt
      <4> QED BY <2>2, <4>3
    <3> QED BY <3>7, <3>8
  <2> QED BY <2>3, <2>4
<1>5. KeptAt(Len(s))
  BY <1>0, <1>4
<1>6. Upto(Len(s)) = ToSet(s)
  BY <1>0 DEF ToSet
<1> QED BY <1>2, <1>5, <1>6 DEF KeptAt


-----------------------------------------------------------------------------
HostStates == {"pending", "running", "stopping", "stopped"}
HostFields == {"state", "since", "leaving", "hold", "tagged", "shown"}

PoolTypes ==
  /\ given \in Plans /\ clock \in 0..EndOfTime /\ filled \subseteq DOMAIN given.contests
  /\ work \in {"none", "some", "waiting"} /\ events \in 0..MaxEvents /\ wantedFor \in 0..clock
  /\ hosts = [h \in HostIds |-> hosts[h]]
  /\ \A h \in HostIds : /\ DOMAIN hosts[h] = HostFields /\ hosts[h] = [f \in HostFields |-> hosts[h][f]]
                        /\ hosts[h].state \in HostStates /\ hosts[h].since \in 0..clock
                        /\ hosts[h].leaving \in BOOLEAN /\ (hosts[h].leaving => hosts[h].state = "running")
  /\ ticks = [t \in Invocations |-> ticks[t]]
  /\ \A t \in Invocations : ticks[t].pc \in {"idle", "hosts", "act"}

\* What an invocation is about to start may be started: a host's digest does not change while it is on its way.
StartsMayRun ==
  \A t \in Invocations : ticks[t].pc = "act" => ticks[t].starts \in Seq(HostIds \ given.stale)
StaleIsOff == \A h \in given.stale \cap ToSet(Bursts) : hosts[h].state = "stopped"

PoolIInv == PoolTypes /\ StartsMayRun /\ StaleIsOff

LEMMA HostsAreTwoRoles ==
  /\ ToSet(Primaries) \subseteq HostIds /\ ToSet(Bursts) \subseteq HostIds
  /\ \A h \in ToSet(Bursts) : h \notin ToSet(Primaries)
BY HostAssumption DEF HostIds

LEMMA PoolInitHolds == PoolInit => PoolIInv
<1> SUFFICES ASSUME PoolInit PROVE PoolIInv
  OBVIOUS
<1>1. {MaxEvents, EndOfTime} \subseteq Nat
  BY PoolAssumption
<1>2. /\ given \in Plans /\ clock \in 0..EndOfTime /\ filled \subseteq DOMAIN given.contests
      /\ work \in {"none", "some", "waiting"} /\ events \in 0..MaxEvents /\ wantedFor \in 0..clock
  BY <1>1, PlanAssumption DEF PoolInit
<1>3. /\ hosts = [h \in HostIds |-> hosts[h]] /\ ticks = [t \in Invocations |-> ticks[t]]
      /\ \A t \in Invocations : ticks[t].pc = "idle"
  BY DEF PoolInit, NoTick
<1>4. ASSUME NEW h \in HostIds
      PROVE  /\ DOMAIN hosts[h] = HostFields /\ hosts[h] = [f \in HostFields |-> hosts[h][f]]
             /\ hosts[h].state = (IF h \in ToSet(Primaries) THEN "running" ELSE "stopped") /\ hosts[h].since = 0 /\ hosts[h].leaving = FALSE
  BY DEF PoolInit, HostFields
<1>8. ASSUME NEW h \in HostIds
      PROVE  /\ hosts[h].state \in HostStates /\ hosts[h].since \in 0..clock
             /\ hosts[h].leaving \in BOOLEAN /\ (hosts[h].leaving => hosts[h].state = "running")
  <2>1. clock = 0 /\ hosts[h].state \in {"running", "stopped"} /\ hosts[h].since = 0
    BY <1>4 DEF PoolInit
  <2>2. hosts[h].leaving = FALSE
    BY <1>4
  <2>3. hosts[h].leaving \in BOOLEAN /\ ~hosts[h].leaving
    BY <2>2, Zenon
  <2> QED BY <2>1, <2>3 DEF HostStates
<1>5. PoolTypes
  BY <1>2, <1>3, <1>4, <1>8 DEF PoolTypes
<1>6. StaleIsOff
  BY <1>4, HostsAreTwoRoles DEF StaleIsOff
<1>7. StartsMayRun
  BY <1>3 DEF StartsMayRun
<1> QED BY <1>5, <1>6, <1>7 DEF PoolIInv

\* A host keeps its state and since when it has it, or changes both; one that is stale is not started.
HostMoves(h) ==
  /\ DOMAIN hosts'[h] = HostFields /\ hosts'[h] = [f \in HostFields |-> hosts'[h][f]]
  /\ hosts'[h].state \in HostStates /\ hosts'[h].since \in {hosts[h].since, clock}
  /\ hosts'[h].leaving \in BOOLEAN /\ (hosts'[h].leaving => hosts'[h].state = "running")
  /\ hosts[h].state = "stopped" /\ hosts'[h].state # "stopped" => h \notin given.stale

LEMMA MovesAreTyped ==
  ASSUME PoolIInv, hosts' = [h \in HostIds |-> hosts'[h]], \A h \in HostIds : HostMoves(h),
         UNCHANGED <<given, clock>>, filled' \subseteq DOMAIN given.contests, work' \in {"none", "some", "waiting"},
         events' \in 0..MaxEvents, wantedFor' \in {wantedFor, clock},
         ticks' = [t \in Invocations |-> ticks'[t]], \A t \in Invocations : ticks'[t].pc \in {"idle", "hosts", "act"},
         StartsMayRun'
  PROVE  PoolIInv'
<1>1. clock \in 0..EndOfTime /\ EndOfTime \in Nat
  BY PoolAssumption DEF PoolIInv, PoolTypes
<1>2. \A h \in HostIds : hosts'[h].state \in HostStates /\ hosts'[h].since \in 0..clock
  BY <1>1 DEF PoolIInv, PoolTypes, HostMoves
<1>3. wantedFor' \in 0..clock
  BY <1>1 DEF PoolIInv, PoolTypes
<1>6. given' \in Plans /\ clock' = clock /\ given' = given
  BY DEF PoolIInv, PoolTypes
<1>7. \A h \in HostIds : /\ DOMAIN hosts'[h] = HostFields /\ hosts'[h] = [f \in HostFields |-> hosts'[h][f]]
                         /\ hosts'[h].leaving \in BOOLEAN /\ (hosts'[h].leaving => hosts'[h].state = "running")
  BY DEF HostMoves
<1>4. PoolTypes'
  BY <1>1, <1>2, <1>3, <1>6, <1>7 DEF PoolTypes
<1>5. StaleIsOff'
  BY HostsAreTwoRoles DEF PoolIInv, StaleIsOff, HostMoves
<1> QED BY <1>4, <1>5 DEF PoolIInv

\* Hosts that stay as they are.
LEMMA UnmovedHosts ==
  ASSUME PoolIInv, UNCHANGED hosts
  PROVE  hosts' = [h \in HostIds |-> hosts'[h]] /\ \A h \in HostIds : HostMoves(h)
BY DEF PoolIInv, PoolTypes, HostMoves

\* Invocations that stay as they are.
LEMMA UnmovedTicks ==
  ASSUME PoolIInv, UNCHANGED <<ticks, given>>
  PROVE  /\ ticks' = [t \in Invocations |-> ticks'[t]] /\ \A t \in Invocations : ticks'[t].pc \in {"idle", "hosts", "act"}
         /\ StartsMayRun'
BY DEF PoolIInv, PoolTypes, StartsMayRun

\* One host moves.
LEMMA OneMoves ==
  ASSUME PoolIInv, NEW h \in HostIds, NEW new, hosts' = [hosts EXCEPT ![h] = new],
         DOMAIN new = HostFields, new = [f \in HostFields |-> new[f]], new.state \in HostStates, new.since \in {hosts[h].since, clock},
         new.leaving \in BOOLEAN, new.leaving => new.state = "running",
         hosts[h].state = "stopped" /\ new.state # "stopped" => h \notin given.stale
  PROVE  hosts' = [g \in HostIds |-> hosts'[g]] /\ \A g \in HostIds : HostMoves(g)
<1>1. hosts = [g \in HostIds |-> hosts[g]]
  BY DEF PoolIInv, PoolTypes
<1>2. hosts' = [g \in HostIds |-> IF g = h THEN new ELSE hosts[g]]
  BY <1>1
<1>3. \A g \in HostIds : hosts'[g] = IF g = h THEN new ELSE hosts[g]
  BY <1>2
<1>4. hosts' = [g \in HostIds |-> hosts'[g]]
  BY <1>2
<1> QED BY <1>3, <1>4 DEF PoolIInv, PoolTypes, HostMoves

LEMMA HostAtMoves ==
  ASSUME PoolIInv, NEW h \in HostIds, NEW state \in HostStates, HostAt(h, state), hosts[h].state # "stopped"
  PROVE  hosts' = [g \in HostIds |-> hosts'[g]] /\ \A g \in HostIds : HostMoves(g)
<1>1. PICK new : new = [hosts[h] EXCEPT !.state = state, !.since = clock, !.leaving = FALSE]
  OBVIOUS
<1>2. hosts = [g \in HostIds |-> hosts[g]] /\ DOMAIN hosts[h] = HostFields
  BY DEF PoolIInv, PoolTypes
<1>3. hosts' = [hosts EXCEPT ![h] = new]
  BY <1>1, <1>2 DEF HostAt
<1>4. DOMAIN new = HostFields /\ new = [f \in HostFields |-> new[f]] /\ new.state = state /\ new.since = clock /\ new.leaving = FALSE
  BY <1>1, <1>2 DEF HostFields
<1> QED BY <1>3, <1>4, OneMoves

\* The hosts' own steps.
LEMMA HostStep ==
  ASSUME PoolIInv, NEW h \in HostIds, Boot(h) \/ ShowTag(h) \/ DecideToStop(h) \/ PowerOff(h) \/ HostStops(h) \/ HostFails(h)
  PROVE  PoolIInv'
<1>1. /\ hosts = [g \in HostIds |-> hosts[g]] /\ DOMAIN hosts[h] = HostFields /\ hosts[h].state \in HostStates
      /\ hosts[h].leaving \in BOOLEAN /\ (hosts[h].leaving => hosts[h].state = "running")
  BY DEF PoolIInv, PoolTypes
<1>2. UNCHANGED <<given, clock, filled, work, ticks>>
  BY DEF Boot, ShowTag, DecideToStop, PowerOff, HostStops, HostFails, OnlyHosts
<1>3. events' \in 0..MaxEvents /\ wantedFor' \in {wantedFor, clock}
  <2>1. events \in 0..MaxEvents /\ MaxEvents \in Nat
    BY PoolAssumption DEF PoolIInv, PoolTypes
  <2> QED BY <2>1 DEF Boot, ShowTag, DecideToStop, PowerOff, HostStops, HostFails, OnlyHosts, Event
<1>4. filled' \subseteq DOMAIN given.contests /\ work' \in {"none", "some", "waiting"}
  BY <1>2 DEF PoolIInv, PoolTypes
<1>5. hosts' = [g \in HostIds |-> hosts'[g]] /\ \A g \in HostIds : HostMoves(g)
  <2>1. CASE Boot(h)
    <3>1. HostAt(h, "running") /\ hosts[h].state # "stopped" /\ "running" \in HostStates
      BY <2>1 DEF Boot, HostStates
    <3> QED BY <3>1, HostAtMoves
  <2>2. CASE ShowTag(h)
    <3>1. PICK new : new = [hosts[h] EXCEPT !.shown = hosts[h].hold]
      OBVIOUS
    <3>2. hosts' = [hosts EXCEPT ![h] = new]
      BY <1>1, <2>2, <3>1 DEF ShowTag
    <3>3. DOMAIN new = HostFields /\ new = [f \in HostFields |-> new[f]] /\ new.state = hosts[h].state /\ new.since = hosts[h].since /\ new.leaving = hosts[h].leaving
      BY <1>1, <3>1 DEF HostFields
    <3> QED BY <1>1, <3>2, <3>3, OneMoves
  <2>3. CASE DecideToStop(h)
    <3>1. PICK new : new = [hosts[h] EXCEPT !.leaving = TRUE, !.since = clock]
      OBVIOUS
    <3>2. hosts' = [hosts EXCEPT ![h] = new]
      BY <1>1, <2>3, <3>1 DEF DecideToStop
    <3>3. DOMAIN new = HostFields /\ new = [f \in HostFields |-> new[f]] /\ new.state = "running" /\ new.since = clock /\ new.leaving = TRUE
      BY <1>1, <2>3, <3>1 DEF HostFields, DecideToStop
    <3>4. hosts[h].state = "running" /\ new.leaving \in BOOLEAN /\ new.state \in HostStates
      BY <2>3, <3>3 DEF DecideToStop, HostStates
    <3> QED BY <3>2, <3>3, <3>4, OneMoves
  <2>4. CASE PowerOff(h)
    <3>1. HostAt(h, "stopping") /\ "stopping" \in HostStates
      BY <2>4 DEF PowerOff, HostStates
    <3>2. hosts[h].state # "stopped"
      BY <2>4 DEF PowerOff, PoolIInv, PoolTypes
    <3> QED BY <3>1, <3>2, HostAtMoves
  <2>5. CASE HostStops(h)
    <3>1. HostAt(h, "stopped") /\ hosts[h].state # "stopped" /\ "stopped" \in HostStates
      BY <2>5 DEF HostStops, HostStates
    <3> QED BY <3>1, HostAtMoves
  <2>6. CASE HostFails(h)
    <3>1. HostAt(h, "stopping") /\ hosts[h].state # "stopped" /\ "stopping" \in HostStates
      BY <2>6 DEF HostFails, HostStates
    <3> QED BY <3>1, HostAtMoves
  <2> QED BY <2>1, <2>2, <2>3, <2>4, <2>5, <2>6
<1>6. /\ ticks' = [t \in Invocations |-> ticks'[t]] /\ \A t \in Invocations : ticks'[t].pc \in {"idle", "hosts", "act"}
      /\ StartsMayRun'
  BY <1>2, UnmovedTicks
<1> QED BY <1>2, <1>3, <1>4, <1>5, <1>6, MovesAreTyped


\* Two sequences that name each thing once and have nothing in common.
LEMMA JoinDisjoint ==
  ASSUME NEW T, NEW q \in Seq(T), NEW r \in Seq(T), IsInjective(q), IsInjective(r), ToSet(q) \cap ToSet(r) = {}
  PROVE  q \o r \in Seq(T) /\ IsInjective(q \o r) /\ ToSet(q \o r) = ToSet(q) \cup ToSet(r)
<1>1. /\ Len(q) \in Nat /\ Len(r) \in Nat /\ DOMAIN q = 1..Len(q) /\ DOMAIN r = 1..Len(r)
      /\ q \o r \in Seq(T) /\ Len(q \o r) = Len(q) + Len(r) /\ DOMAIN (q \o r) = 1..(Len(q) + Len(r))
  OBVIOUS
<1>2. \A i \in 1..(Len(q) + Len(r)) : (q \o r)[i] = IF i <= Len(q) THEN q[i] ELSE r[i - Len(q)]
  OBVIOUS
<1>3. \A i \in 1..Len(q) : q[i] \in ToSet(q)
  BY <1>1 DEF ToSet
<1>4. \A i \in 1..Len(r) : r[i] \in ToSet(r)
  BY <1>1 DEF ToSet
<1>5. IsInjective(q \o r)
  <2> SUFFICES ASSUME NEW i \in 1..(Len(q) + Len(r)), NEW j \in 1..(Len(q) + Len(r)), (q \o r)[i] = (q \o r)[j]
               PROVE  i = j
    BY <1>1 DEF IsInjective
  <2>1. CASE i <= Len(q) /\ j <= Len(q)
    <3>1. i \in DOMAIN q /\ j \in DOMAIN q /\ q[i] = q[j]
      BY <1>1, <1>2, <2>1
    <3> QED BY <3>1 DEF IsInjective
  <2>2. CASE ~(i <= Len(q)) /\ ~(j <= Len(q))
    <3>1. i - Len(q) \in DOMAIN r /\ j - Len(q) \in DOMAIN r /\ r[i - Len(q)] = r[j - Len(q)]
      BY <1>1, <1>2, <2>2
    <3>2. i - Len(q) = j - Len(q)
      BY <3>1 DEF IsInjective
    <3> QED BY <1>1, <3>2
  <2>3. CASE i <= Len(q) /\ ~(j <= Len(q))
    <3>1. (q \o r)[i] \in ToSet(q) /\ (q \o r)[j] \in ToSet(r)
      BY <1>1, <1>2, <1>3, <1>4, <2>3
    <3> QED BY <3>1
  <2>4. CASE ~(i <= Len(q)) /\ j <= Len(q)
    <3>1. (q \o r)[j] \in ToSet(q) /\ (q \o r)[i] \in ToSet(r)
      BY <1>1, <1>2, <1>3, <1>4, <2>4
    <3> QED BY <3>1
  <2> QED BY <2>1, <2>2, <2>3, <2>4
<1>6. ToSet(q \o r) = ToSet(q) \cup ToSet(r)
  <2>1. \A i \in 1..(Len(q) + Len(r)) : (q \o r)[i] \in ToSet(q) \cup ToSet(r)
    BY <1>1, <1>2, <1>3, <1>4
  <2>2. \A i \in 1..Len(q) : q[i] = (q \o r)[i] /\ i \in DOMAIN (q \o r)
    BY <1>1, <1>2
  <2>3. \A i \in 1..Len(r) : r[i] = (q \o r)[i + Len(q)] /\ i + Len(q) \in DOMAIN (q \o r)
    BY <1>1, <1>2
  <2>4. \A x \in ToSet(q \o r) : x \in ToSet(q) \cup ToSet(r)
    BY <1>1, <2>1, Zenon DEF ToSet
  <2>5. \A x \in ToSet(q) : x \in ToSet(q \o r)
    BY <1>1, <2>2, Zenon DEF ToSet
  <2>6. \A x \in ToSet(r) : x \in ToSet(q \o r)
    BY <1>1, <2>3, Zenon DEF ToSet
  <2> QED BY <2>4, <2>5, <2>6
<1> QED BY <1>1, <1>5, <1>6

\* Burst hosts are ranked, each once.
LEMMA RankedFacts == Ranked \in Seq(ToSet(Bursts)) /\ IsInjective(Ranked) /\ ToSet(Ranked) = ToSet(Bursts)
<1>1. Bursts \in Seq(ToSet(Bursts)) /\ IsInjective(Bursts)
  BY HostAssumption
<1>2. PICK a, b, c : a = Among(Bursts, Up) /\ b = Among(Bursts, Startable) /\ c = Among(Bursts, HostIds \ (Up \cup Startable))
  OBVIOUS
<1>3. /\ a \in Seq(ToSet(Bursts) \cap Up) /\ IsInjective(a) /\ ToSet(a) = ToSet(Bursts) \cap Up
      /\ b \in Seq(ToSet(Bursts) \cap Startable) /\ IsInjective(b) /\ ToSet(b) = ToSet(Bursts) \cap Startable
      /\ c \in Seq(ToSet(Bursts) \cap (HostIds \ (Up \cup Startable))) /\ IsInjective(c)
      /\ ToSet(c) = ToSet(Bursts) \cap (HostIds \ (Up \cup Startable))
  BY <1>1, <1>2, AmongFacts
<1>4. a \in Seq(ToSet(Bursts)) /\ b \in Seq(ToSet(Bursts)) /\ c \in Seq(ToSet(Bursts))
  BY <1>3
<1>5. \A h : ~(h \in Up /\ h \in Startable)
  BY DEF Up, Startable, CanStart, Active
<1>6. a \o b \in Seq(ToSet(Bursts)) /\ IsInjective(a \o b) /\ ToSet(a \o b) = ToSet(a) \cup ToSet(b)
  <2>1. ToSet(a) \cap ToSet(b) = {}
    BY <1>3, <1>5
  <2> QED BY <1>3, <1>4, <2>1, JoinDisjoint
<1>7. ToSet(a \o b) \cap ToSet(c) = {}
  BY <1>3, <1>6
<1>8. PICK q : q = a \o b
  OBVIOUS
<1>12. q \in Seq(ToSet(Bursts)) /\ IsInjective(q) /\ ToSet(q) \cap ToSet(c) = {}
  BY <1>6, <1>7, <1>8
<1>9. q \o c \in Seq(ToSet(Bursts)) /\ IsInjective(q \o c) /\ ToSet(q \o c) = ToSet(q) \cup ToSet(c)
  <2>1. c \in Seq(ToSet(Bursts)) /\ IsInjective(c)
    BY <1>3, <1>4
  <2> QED BY <1>12, <2>1, JoinDisjoint
<1>10. Ranked = q \o c
  BY <1>2, <1>8 DEF Ranked
<1>11. ToSet(q) \cup ToSet(c) = ToSet(Bursts)
  BY <1>3, <1>6, <1>8, HostsAreTwoRoles
<1> QED BY <1>9, <1>10, <1>11

\* What an invocation will start may be started.
LEMMA StartsArePlanned ==
  ASSUME PoolIInv, NEW d
  PROVE  PlanStarts(d) \in Seq(HostIds \ given.stale)
<1>1. /\ Primaries \in Seq(ToSet(Primaries)) /\ IsInjective(Primaries)
      /\ Bursts \in Seq(ToSet(Bursts)) /\ IsInjective(Bursts)
  BY HostAssumption
<1>2. Startable \subseteq HostIds \ given.stale
  BY DEF Startable, CanStart
<1>3. PICK A : A = HostIds \ given.stale
  OBVIOUS
<1>4. PICK S : S = {h \in Startable \cap ToSet(Bursts) : Wanted(d)[h] > 0}
  OBVIOUS
<1>5. Among(Primaries, Startable) \in Seq(A)
  <2>1. PICK T : T = ToSet(Primaries) \cap Startable
    OBVIOUS
  <2>2. T \subseteq A
    BY <1>2, <1>3, <2>1
  <2>3. Among(Primaries, Startable) \in Seq(T)
    BY <1>1, <2>1, AmongFacts
  <2> QED BY <2>2, <2>3
<1>6. Among(Ranked, S) \in Seq(A)
  <2>1. PICK T : T = ToSet(Ranked) \cap S
    OBVIOUS
  <2>2. T \subseteq A
    BY <1>2, <1>3, <1>4, <2>1
  <2>3. Among(Ranked, S) \in Seq(T)
    BY <2>1, RankedFacts, AmongFacts
  <2> QED BY <2>2, <2>3
<1>7. PlanStarts(d) = Among(Primaries, Startable) \o Among(Ranked, S)
  BY <1>4 DEF PlanStarts
<1> QED BY <1>3, <1>5, <1>6, <1>7


\* What an invocation holds, when it does not change hosts or starts only what may be.
LEMMA TickMoves ==
  ASSUME PoolIInv, NEW t \in Invocations, NEW new, ticks' = [ticks EXCEPT ![t] = new], UNCHANGED given,
         new.pc \in {"idle", "hosts", "act"}, new.pc = "act" => new.starts \in Seq(HostIds \ given.stale)
  PROVE  /\ ticks' = [u \in Invocations |-> ticks'[u]] /\ \A u \in Invocations : ticks'[u].pc \in {"idle", "hosts", "act"}
         /\ StartsMayRun'
<1>1. ticks = [u \in Invocations |-> ticks[u]]
  BY DEF PoolIInv, PoolTypes
<1>2. ticks' = [u \in Invocations |-> IF u = t THEN new ELSE ticks[u]]
  BY <1>1
<1>3. \A u \in Invocations : ticks'[u] = IF u = t THEN new ELSE ticks[u]
  BY <1>2
<1>4. \A u \in Invocations : ticks'[u].pc = "act" => ticks'[u].starts \in Seq(HostIds \ given.stale)
  BY <1>3 DEF PoolIInv, StartsMayRun
<1> QED BY <1>2, <1>3, <1>4 DEF PoolIInv, PoolTypes, StartsMayRun

LEMMA LeftMoves ==
  ASSUME PoolIInv, NEW t \in Invocations, NEW holds, NEW starts \in Seq(HostIds \ given.stale),
         Left(t, holds, starts), UNCHANGED given
  PROVE  /\ ticks' = [u \in Invocations |-> ticks'[u]] /\ \A u \in Invocations : ticks'[u].pc \in {"idle", "hosts", "act"}
         /\ StartsMayRun'
<1>1. PICK new : new = IF holds = {} /\ starts = <<>> THEN NoTick ELSE [pc |-> "act", now |-> ticks[t].now, holds |-> holds, starts |-> starts]
  OBVIOUS
<1>2. ticks' = [ticks EXCEPT ![t] = new]
  BY <1>1 DEF Left
<1>3. new.pc \in {"idle", "hosts", "act"} /\ (new.pc = "act" => new.starts = starts)
  BY <1>1 DEF NoTick
<1> QED BY <1>2, <1>3, TickMoves

LEMMA TickStep ==
  ASSUME PoolIInv, NEW t \in Invocations, LoadDemand(t) \/ Snapshot(t) \/ TagHosts(t) \/ StartHost(t) \/ TickFails(t)
  PROVE  PoolIInv'
<1>1. /\ hosts = [h \in HostIds |-> hosts[h]] /\ UNCHANGED <<given, clock, filled, work>>
      /\ filled \subseteq DOMAIN given.contests /\ work \in {"none", "some", "waiting"}
  BY DEF PoolIInv, PoolTypes, LoadDemand, Snapshot, TagHosts, StartHost, TickFails
<1>2. events' \in 0..MaxEvents /\ wantedFor' \in {wantedFor, clock}
  <2>1. events \in 0..MaxEvents /\ MaxEvents \in Nat
    BY PoolAssumption DEF PoolIInv, PoolTypes
  <2>2. UNCHANGED <<events, wantedFor>> \/ Event
    BY Zenon DEF LoadDemand, Snapshot, TagHosts, StartHost, TickFails
  <2> QED BY <2>1, <2>2 DEF Event
<1>3. hosts' = [h \in HostIds |-> hosts'[h]] /\ \A h \in HostIds : HostMoves(h)
  <2>1. CASE UNCHANGED hosts
    BY <2>1, UnmovedHosts
  <2>2. CASE TagHosts(t)
    <3>1. PICK until, group :
            hosts' = [h \in HostIds |-> IF h \in group THEN [hosts[h] EXCEPT !.hold = until, !.tagged = IF hosts[h].shown = hosts[h].hold THEN clock ELSE @] ELSE hosts[h]]
      BY <2>2 DEF TagHosts
    <3>2. ASSUME NEW h \in HostIds PROVE HostMoves(h)
      <4>1. /\ DOMAIN hosts[h] = HostFields /\ hosts[h] = [f \in HostFields |-> hosts[h][f]]
            /\ hosts[h].state \in HostStates /\ hosts[h].leaving \in BOOLEAN /\ (hosts[h].leaving => hosts[h].state = "running")
        BY DEF PoolIInv, PoolTypes
      <4>2. PICK new : new = hosts'[h]
        OBVIOUS
      <4>3. new = hosts[h] \/ \E x : new = [hosts[h] EXCEPT !.hold = until, !.tagged = x]
        BY <3>1, <4>2
      <4>4. DOMAIN new = HostFields /\ new = [f \in HostFields |-> new[f]]
        BY <4>1, <4>3
      <4>5. new.state = hosts[h].state /\ new.since = hosts[h].since /\ new.leaving = hosts[h].leaving
        BY <4>1, <4>3 DEF HostFields
      <4> QED BY <4>1, <4>2, <4>4, <4>5 DEF HostMoves
    <3> QED BY <3>1, <3>2
  <2>3. CASE StartHost(t) /\ hosts' # hosts
    <3>1. PICK h : h = Head(ticks[t].starts)
      OBVIOUS
    <3>2. hosts[h].state = "stopped" /\ hosts' = [hosts EXCEPT ![h] = [@ EXCEPT !.state = "pending", !.since = clock, !.shown = hosts[h].hold]]
      BY <2>3, <3>1 DEF StartHost
    <3>3. h \in HostIds \ given.stale
      <4>1. ticks[t].starts \in Seq(HostIds \ given.stale) /\ ticks[t].starts # <<>>
        BY <2>3 DEF PoolIInv, StartsMayRun, StartHost
      <4> QED BY <3>1, <4>1
    <3>4. DOMAIN hosts[h] = HostFields /\ hosts[h].leaving \in BOOLEAN /\ (hosts[h].leaving => hosts[h].state = "running")
      BY <3>3 DEF PoolIInv, PoolTypes
    <3>5. PICK new : new = [hosts[h] EXCEPT !.state = "pending", !.since = clock, !.shown = hosts[h].hold]
      OBVIOUS
    <3>6. hosts' = [hosts EXCEPT ![h] = new]
      BY <1>1, <3>2, <3>3, <3>5
    <3>7. DOMAIN new = HostFields /\ new = [f \in HostFields |-> new[f]] /\ new.state = "pending" /\ new.since = clock /\ new.leaving = hosts[h].leaving
      BY <3>4, <3>5 DEF HostFields
    <3>8. new.leaving \in BOOLEAN /\ (new.leaving => new.state = "running") /\ new.state \in HostStates
      BY <3>2, <3>4, <3>7 DEF HostStates
    <3> QED BY <3>3, <3>6, <3>7, <3>8, OneMoves
  <2> QED BY <2>1, <2>2, <2>3 DEF LoadDemand, Snapshot, TickFails
<1>4. /\ ticks' = [u \in Invocations |-> ticks'[u]] /\ \A u \in Invocations : ticks'[u].pc \in {"idle", "hosts", "act"}
      /\ StartsMayRun'
  <2>1. CASE LoadDemand(t)
    <3>1. PICK new : new = [pc |-> "hosts", now |-> clock, contest |-> ContestUntil(clock), work |-> work]
      OBVIOUS
    <3>2. ticks' = [ticks EXCEPT ![t] = new] /\ new.pc = "hosts"
      BY <2>1, <3>1 DEF LoadDemand
    <3> QED BY <1>1, <3>2, TickMoves
  <2>2. CASE Snapshot(t)
    <3>1. PICK starts : starts = PlanStarts(ticks[t])
      OBVIOUS
    <3>2. PICK holds : holds = PlanHolds(ticks[t])
      OBVIOUS
    <3>3. Left(t, holds, starts)
      BY <2>2, <3>1, <3>2 DEF Snapshot
    <3>4. starts \in Seq(HostIds \ given.stale)
      BY <3>1, StartsArePlanned
    <3> QED BY <1>1, <3>3, <3>4, LeftMoves
  <2>3. CASE TagHosts(t)
    <3>1. ticks[t].starts \in Seq(HostIds \ given.stale)
      BY <2>3 DEF TagHosts, PoolIInv, StartsMayRun
    <3>2. PICK holds, starts : Left(t, holds, starts) /\ starts = ticks[t].starts
      BY <2>3 DEF TagHosts
    <3> QED BY <1>1, <3>1, <3>2, LeftMoves
  <2>4. CASE StartHost(t)
    <3>1. PICK q : q = ticks[t].starts
      OBVIOUS
    <3>2. q \in Seq(HostIds \ given.stale) /\ q # <<>>
      BY <2>4, <3>1 DEF StartHost, PoolIInv, StartsMayRun
    <3>3. Tail(q) \in Seq(HostIds \ given.stale)
      BY <3>2
    <3>4. Left(t, {}, Tail(q))
      BY <2>4, <3>1 DEF StartHost
    <3> QED BY <1>1, <3>3, <3>4, LeftMoves
  <2>5. CASE TickFails(t)
    <3>1. ticks' = [ticks EXCEPT ![t] = NoTick] /\ NoTick.pc = "idle"
      BY <2>5 DEF TickFails, NoTick
    <3> QED BY <1>1, <3>1, TickMoves
  <2> QED BY <2>1, <2>2, <2>3, <2>4, <2>5
<1> QED BY <1>1, <1>2, <1>3, <1>4, MovesAreTyped

LEMMA PoolStepHolds == PoolIInv /\ [PoolNext]_poolVars => PoolIInv'
<1> SUFFICES ASSUME PoolIInv, [PoolNext]_poolVars PROVE PoolIInv'
  OBVIOUS
<1>1. /\ hosts = [h \in HostIds |-> hosts[h]] /\ given \in Plans
      /\ filled \subseteq DOMAIN given.contests /\ work \in {"none", "some", "waiting"}
      /\ events \in 0..MaxEvents /\ MaxEvents \in Nat /\ clock \in 0..EndOfTime /\ EndOfTime \in Nat /\ wantedFor \in 0..clock
  BY PoolAssumption DEF PoolIInv, PoolTypes
<1>2. CASE TimePasses
  <2>1. /\ UNCHANGED <<given, filled, work, hosts, begun, ticks, events>> /\ clock' = clock + 1 /\ clock' \in 0..EndOfTime
        /\ wantedFor' \in {wantedFor, clock'}
    BY <1>1, <1>2 DEF TimePasses
  <2>2. wantedFor' \in 0..clock' /\ \A x \in 0..clock : x \in 0..clock'
    BY <1>1, <2>1
  <2>3. PoolTypes'
    BY <2>1, <2>2 DEF PoolIInv, PoolTypes
  <2> QED BY <2>1, <2>3 DEF PoolIInv, StartsMayRun, StaleIsOff
<1>3. CASE \E t \in Invocations : LoadDemand(t) \/ Snapshot(t) \/ TagHosts(t) \/ StartHost(t) \/ TickFails(t)
  BY <1>3, TickStep
<1>4. CASE \E h \in HostIds : Boot(h) \/ ShowTag(h) \/ DecideToStop(h) \/ PowerOff(h) \/ HostStops(h) \/ HostFails(h)
  BY <1>4, HostStep
<1>5. CASE (\E c \in DOMAIN given.contests : FillContest(c)) \/ (\E next \in {"none", "some", "waiting"} : QueueChanges(next))
  <2>1. /\ UNCHANGED <<given, clock, hosts, ticks>> /\ events' \in 0..MaxEvents /\ wantedFor' = clock
        /\ filled' \subseteq DOMAIN given.contests /\ work' \in {"none", "some", "waiting"}
    BY <1>1, <1>5 DEF FillContest, QueueChanges, Event
  <2> QED BY <2>1, UnmovedHosts, UnmovedTicks, MovesAreTyped
<1>6. CASE UNCHANGED poolVars
  BY <1>6 DEF poolVars, PoolIInv, PoolTypes, StartsMayRun, StaleIsOff
<1> QED BY <1>2, <1>3, <1>4, <1>5, <1>6 DEF PoolNext

\* Hosts, invocations and the clock keep their types.
THEOREM PoolIsTyped == PoolSpec => []PoolTypeOK
<1>1. PoolIInv => PoolTypeOK
  BY DEF PoolIInv, PoolTypes, PoolTypeOK, HostStates
<1> QED BY <1>1, PoolInitHolds, PoolStepHolds, PTL DEF PoolSpec

\* For every plan, number of hosts and invocations, and whatever fails: a burst host with another
\* runtime is never started, however old the snapshot was that an invocation acts on.
THEOREM StaleHostsStayOff == PoolSpec => []StaleStaysOff
<1>1. PoolIInv => StaleStaysOff
  BY DEF PoolIInv, StaleIsOff, StaleStaysOff, Active
<1> QED BY <1>1, PoolInitHolds, PoolStepHolds, PTL DEF PoolSpec


-----------------------------------------------------------------------------
(* What contests need: the windows that are admitted.                      *)

\* A finite set can be ordered by a total and transitive relation.
LEMMA InAnyOrder ==
  ASSUME NEW S, IsFiniteSet(S), NEW R,
         \A a, b \in S : <<a, b>> \in R \/ <<b, a>> \in R,
         \A a, b, c \in S : <<a, b>> \in R /\ <<b, c>> \in R => <<a, c>> \in R
  PROVE  \E s \in [1..Cardinality(S) -> S] :
           /\ \A i, j \in 1..Cardinality(S) : i # j => s[i] # s[j]
           /\ \A i, j \in 1..Cardinality(S) : i < j => <<s[i], s[j]>> \in R
           /\ \A a \in S : \E i \in 1..Cardinality(S) : s[i] = a
<1> DEFINE Sorts(s, T) == /\ s \in [1..Cardinality(T) -> T]
                          /\ \A i, j \in 1..Cardinality(T) : i # j => s[i] # s[j]
                          /\ \A i, j \in 1..Cardinality(T) : i < j => <<s[i], s[j]>> \in R
                          /\ \A a \in T : \E i \in 1..Cardinality(T) : s[i] = a
           Lasts(T) == T # {} => \E m \in T : \A a \in T : <<a, m>> \in R
           Lacking == {n \in Nat : \E T \in SUBSET S : Cardinality(T) = n /\ ~Lasts(T)}
           Unsorted == {n \in Nat : \E T \in SUBSET S : Cardinality(T) = n /\ ~\E s : Sorts(s, T)}
<1>1. ASSUME NEW T \in SUBSET S
      PROVE  /\ IsFiniteSet(T) /\ Cardinality(T) \in Nat
             /\ \A x \in T : T \ {x} \in SUBSET S /\ Cardinality(T \ {x}) = Cardinality(T) - 1 /\ Cardinality(T) - 1 \in Nat
  <2>1. IsFiniteSet(T) /\ Cardinality(T) \in Nat
    BY FS_Subset, FS_CardinalityType
  <2>2. ASSUME NEW x \in T PROVE Cardinality(T \ {x}) = Cardinality(T) - 1 /\ Cardinality(T) - 1 \in Nat
    <3>1. IsFiniteSet(T \ {x}) /\ Cardinality(T \ {x}) = Cardinality(T) - 1
      BY <2>1, FS_RemoveElement
    <3>2. Cardinality(T \ {x}) \in Nat
      BY <3>1, FS_CardinalityType
    <3> QED BY <3>1, <3>2
  <2> QED BY <2>1, <2>2
<1>2. Lacking = {}
  <2> SUFFICES ASSUME Lacking # {} PROVE FALSE
    OBVIOUS
  <2>1. Lacking \subseteq Nat /\ Lacking # {}
    OBVIOUS
  <2>2. PICK n \in Lacking : \A k \in Lacking : n <= k
    <3> HIDE DEF Lacking
    <3> QED BY <2>1, LeastCase
  <2>3. PICK T \in SUBSET S : Cardinality(T) = n /\ ~Lasts(T)
    BY <2>2
  <2>4. PICK x \in T : TRUE
    BY <2>3
  <2>5. T \ {x} \in SUBSET S /\ Cardinality(T \ {x}) = n - 1 /\ n - 1 \in Nat /\ n \in Nat
    BY <1>1, <2>3, <2>4
  <2>6. n - 1 \notin Lacking
    BY <2>2, <2>5
  <2>7. Lasts(T \ {x})
    <3> HIDE DEF Lasts
    <3> QED BY <2>5, <2>6
  <2>8. CASE T \ {x} = {}
    <3>1. \A a \in T : a = x
      BY <2>8
    <3>2. <<x, x>> \in R
      BY <2>4
    <3> QED BY <2>3, <2>4, <3>1, <3>2
  <2>9. CASE T \ {x} # {}
    <3>1. PICK m \in T \ {x} : \A a \in T \ {x} : <<a, m>> \in R
      BY <2>7, <2>9
    <3>2. CASE <<x, m>> \in R
      <4>1. \A a \in T : <<a, m>> \in R
        BY <3>1, <3>2
      <4> QED BY <2>3, <3>1, <4>1
    <3>3. CASE <<m, x>> \in R
      <4>1. \A a \in T : <<a, x>> \in R
        BY <3>1, <3>3, <2>4
      <4> QED BY <2>3, <2>4, <4>1
    <3> QED BY <3>2, <3>3, <3>1, <2>4
  <2> QED BY <2>8, <2>9
<1>3. Unsorted = {}
  <2> SUFFICES ASSUME Unsorted # {} PROVE FALSE
    OBVIOUS
  <2>1. Unsorted \subseteq Nat /\ Unsorted # {}
    OBVIOUS
  <2>2. PICK n \in Unsorted : \A k \in Unsorted : n <= k
    <3> HIDE DEF Unsorted
    <3> QED BY <2>1, LeastCase
  <2>3. PICK T \in SUBSET S : Cardinality(T) = n /\ ~\E s : Sorts(s, T)
    <3> HIDE DEF Sorts
    <3> QED BY <2>2
  <2>4. CASE T = {}
    <3>1. Cardinality(T) = 0 /\ 1..0 = {}
      BY <2>4, FS_EmptySet
    <3>2. Sorts(<<>>, T)
      BY <2>4, <3>1
    <3> HIDE DEF Sorts
    <3> QED BY <2>3, <3>2
  <2>5. CASE T # {}
    <3>1. Lasts(T)
      <4>1. Cardinality(T) \notin Lacking /\ Cardinality(T) \in Nat
        BY <1>1, <1>2
      <4> HIDE DEF Lasts
      <4> QED BY <4>1
    <3>2. PICK m \in T : \A a \in T : <<a, m>> \in R
      BY <2>5, <3>1
    <3>3. T \ {m} \in SUBSET S /\ Cardinality(T \ {m}) = n - 1 /\ n - 1 \in Nat /\ n \in Nat
      BY <1>1, <2>3, <3>2
    <3>4. PICK s : Sorts(s, T \ {m})
      <4>1. n - 1 \notin Unsorted
        BY <2>2, <3>3
      <4> HIDE DEF Sorts
      <4> QED BY <3>3, <4>1
    <3>5. PICK U : U = T \ {m}
      OBVIOUS
    <3>6. /\ s \in [1..(n - 1) -> U]
          /\ \A i, j \in 1..(n - 1) : i # j => s[i] # s[j]
          /\ \A i, j \in 1..(n - 1) : i < j => <<s[i], s[j]>> \in R
          /\ \A a \in U : \E i \in 1..(n - 1) : s[i] = a
      BY <3>3, <3>4, <3>5
    <3> DEFINE q == [i \in 1..n |-> IF i = n THEN m ELSE s[i]]
    <3>7. \A i \in 1..n : i # n => i \in 1..(n - 1) /\ s[i] \in U
      BY <3>3, <3>6
    <3>8. q \in [1..n -> T]
      BY <3>5, <3>7
    <3>9. \A i, j \in 1..n : i # j => q[i] # q[j]
      BY <3>5, <3>6, <3>7
    <3>10. \A i, j \in 1..n : i < j => <<q[i], q[j]>> \in R
      <4> SUFFICES ASSUME NEW i \in 1..n, NEW j \in 1..n, i < j PROVE <<q[i], q[j]>> \in R
        OBVIOUS
      <4>1. i # n /\ i \in 1..(n - 1) /\ q[i] = s[i] /\ s[i] \in U
        BY <3>7
      <4>2. CASE j = n
        BY <4>1, <4>2, <3>2, <3>5
      <4>3. CASE j # n
        BY <4>1, <4>3, <3>6, <3>7
      <4> QED BY <4>2, <4>3
    <3>11. \A a \in T : \E i \in 1..n : q[i] = a
      <4> SUFFICES ASSUME NEW a \in T PROVE \E i \in 1..n : q[i] = a
        OBVIOUS
      <4>1. CASE a = m
        <5>1. n \in 1..n /\ q[n] = m
          BY <3>3
        <5> QED BY <5>1, <4>1
      <4>2. CASE a # m
        <5>1. PICK i \in 1..(n - 1) : s[i] = a
          BY <3>5, <3>6, <4>2
        <5>2. i \in 1..n /\ q[i] = a
          BY <3>3, <5>1
        <5> QED BY <5>2
      <4> QED BY <4>1, <4>2
    <3> HIDE DEF q
    <3>12. Sorts(q, T)
      BY <2>3, <3>8, <3>9, <3>10, <3>11
    <3> HIDE DEF Sorts
    <3> QED BY <2>3, <3>12
  <2> QED BY <2>4, <2>5
<1>4. \E s : Sorts(s, S)
  <2>1. Cardinality(S) \in Nat /\ S \in SUBSET S /\ Cardinality(S) \notin Unsorted
    BY <1>1, <1>3
  <2> HIDE DEF Sorts
  <2> QED BY <2>1
<1> QED BY <1>4

\* The recursion of Admitted: what it admitted of the first n.
Admits(f, n, s, contests) ==
  f = [i \in 0..n |-> IF i = 0 THEN <<>>
                     ELSE LET w == WindowOf(contests[s[i]]) IN
                          IF UsedBefore(f[i - 1], w) + LengthOf(w) <= Budget THEN Append(f[i - 1], w) ELSE f[i - 1]]

LEMMA AdmitsExist ==
  ASSUME NEW s, NEW contests, NEW n \in Nat
  PROVE  \E f : Admits(f, n, s, contests)
<1> DEFINE Lacking == {m \in Nat : ~\E f : Admits(f, m, s, contests)}
           On(f, i) == LET w == WindowOf(contests[s[i]]) IN
                       IF UsedBefore(f[i - 1], w) + LengthOf(w) <= Budget THEN Append(f[i - 1], w) ELSE f[i - 1]
<1>0. \A f, m : Admits(f, m, s, contests) <=> f = [i \in 0..m |-> IF i = 0 THEN <<>> ELSE On(f, i)]
  BY DEF Admits
<1> HIDE DEF On
<1> SUFFICES ASSUME Lacking # {} PROVE FALSE
  OBVIOUS
<1>1. PICK m \in Lacking : \A k \in Lacking : m <= k
  <2>1. Lacking \subseteq Nat /\ Lacking # {}
    OBVIOUS
  <2> HIDE DEF Lacking
  <2> QED BY <2>1, LeastCase
<1>2. CASE m = 0
  <2> DEFINE g == [i \in 0..0 |-> <<>>]
  <2>1. g = [i \in 0..0 |-> IF i = 0 THEN <<>> ELSE On(g, i)]
    BY DEF g
  <2> HIDE DEF g
  <2>2. Admits(g, 0, s, contests)
    BY <1>0, <2>1
  <2> QED BY <1>1, <1>2, <2>2
<1>3. CASE m # 0
  <2>1. m \in Nat /\ m - 1 \in Nat /\ m - 1 \notin Lacking
    BY <1>1, <1>3
  <2>2. PICK f : Admits(f, m - 1, s, contests)
    BY <2>1
  <2>3. f = [i \in 0..(m - 1) |-> IF i = 0 THEN <<>> ELSE On(f, i)]
    BY <1>0, <2>2
  <2> DEFINE g == [i \in 0..m |-> IF i = m THEN On(f, m) ELSE f[i]]
  <2>4. ASSUME NEW i \in 0..m PROVE g[i] = IF i = 0 THEN <<>> ELSE On(g, i)
    <3>1. i = 0 => g[0] = f[0] /\ f[0] = <<>>
      BY <1>3, <2>1, <2>3
    <3>2. i # 0 => i - 1 \in 0..(m - 1) /\ g[i - 1] = f[i - 1]
      BY <2>1
    <3>3. i # 0 => On(g, i) = On(f, i)
      BY <3>2 DEF On
    <3>4. i # 0 /\ i # m => i \in 0..(m - 1) /\ g[i] = f[i] /\ f[i] = On(f, i)
      BY <2>1, <2>3
    <3>5. i = m => g[i] = On(f, i)
      OBVIOUS
    <3> HIDE DEF g
    <3> QED BY <3>1, <3>3, <3>4, <3>5
  <2>5. g = [i \in 0..m |-> g[i]]
    OBVIOUS
  <2> HIDE DEF g
  <2>6. g = [i \in 0..m |-> IF i = 0 THEN <<>> ELSE On(g, i)]
    BY <2>4, <2>5
  <2>7. Admits(g, m, s, contests)
    BY <1>0, <2>6
  <2> QED BY <1>1, <2>7
<1> QED BY <1>2, <1>3

\* The times of a plan's contests, and of their windows.
LEMMA WindowTimes ==
  ASSUME NEW p \in Plans, NEW c \in DOMAIN p.contests
  PROVE  LET w == WindowOf(p.contests[c]) IN
         /\ w.opens \in Int /\ w.closes \in Nat /\ w.opens <= w.closes
         /\ w.opens = p.contests[c].starts - Lead /\ w.closes <= p.contests[c].starts + Span + After
         /\ p.contests[c].starts \in Nat
<1> DEFINE starts == p.contests[c].starts
           ends == p.contests[c].ends
           least == Min({ends, starts + Span})
<1>1. starts \in Nat /\ ends \in Nat /\ starts < ends /\ Lead \in Nat /\ Span \in Nat /\ After \in Nat
  BY PlanAssumption, PoolAssumption
<1>2. least \in {ends, starts + Span} /\ least <= starts + Span
  <2>1. {ends, starts + Span} \subseteq Nat /\ {ends, starts + Span} # {}
    BY <1>1
  <2> QED BY <2>1, LeastCase
<1>3. WindowOf(p.contests[c]) = [opens |-> starts - Lead, closes |-> least + After]
  BY DEF WindowOf
<1> HIDE DEF starts, ends, least
<1>4. least \in Nat /\ starts <= least
  BY <1>1, <1>2
<1> QED BY <1>1, <1>2, <1>3, <1>4 DEF starts

\* The recent windows in opening order, each once.
LEMMA OpeningOrderFacts ==
  ASSUME NEW p \in Plans, NEW S \in SUBSET DOMAIN p.contests
  PROVE  LET s == OpeningOrder(p.contests, S) IN
         /\ s \in Seq(S) /\ ToSet(s) = S /\ IsInjective(s)
         /\ \A i, j \in DOMAIN s : i < j => OpensBefore(WindowOf(p.contests[s[i]]), WindowOf(p.contests[s[j]]))
<1> DEFINE w(c) == WindowOf(p.contests[c])
           R == {e \in S \X S : OpensBefore(w(e[1]), w(e[2]))}
           Sorted(s) == \A i, j \in DOMAIN s : i < j => OpensBefore(w(s[i]), w(s[j]))
<1>1. IsFiniteSet(S) /\ Cardinality(S) \in Nat
  BY ContestsAssumption, FS_Subset, FS_CardinalityType
<1>2. \A c \in S : w(c).opens \in Int /\ w(c).closes \in Int
  BY WindowTimes
<1> HIDE DEF w
<1>3. \A a, b \in S : <<a, b>> \in R <=> OpensBefore(w(a), w(b))
  OBVIOUS
<1> HIDE DEF R
<1>4. \A a, b \in S : <<a, b>> \in R \/ <<b, a>> \in R
  <2> SUFFICES ASSUME NEW a \in S, NEW b \in S PROVE <<a, b>> \in R \/ <<b, a>> \in R
    OBVIOUS
  <2>1. OpensBefore(w(a), w(b)) \/ OpensBefore(w(b), w(a))
    BY <1>2 DEF OpensBefore
  <2> QED BY <2>1, <1>3
<1>5. \A a, b, c \in S : <<a, b>> \in R /\ <<b, c>> \in R => <<a, c>> \in R
  BY <1>2, <1>3 DEF OpensBefore
<1>6. PICK q \in [1..Cardinality(S) -> S] :
        /\ \A i, j \in 1..Cardinality(S) : i # j => q[i] # q[j]
        /\ \A i, j \in 1..Cardinality(S) : i < j => <<q[i], q[j]>> \in R
  BY <1>1, <1>4, <1>5, InAnyOrder
<1>7. q \in SetToSeqs(S) /\ Sorted(q)
  <2>1. q \in SetToSeqs(S)
    BY <1>6 DEF SetToSeqs
  <2>2. DOMAIN q = 1..Cardinality(S) /\ \A i \in DOMAIN q : q[i] \in S
    BY <1>6
  <2> QED BY <2>1, <2>2, <1>3, <1>6
<1>8. OpeningOrder(p.contests, S) = CHOOSE s \in SetToSeqs(S) : Sorted(s)
  BY DEF OpeningOrder, w
<1>9. PICK s : s = OpeningOrder(p.contests, S)
  OBVIOUS
<1>10. s \in SetToSeqs(S) /\ Sorted(s)
  <2> HIDE DEF Sorted
  <2> QED BY <1>7, <1>8, <1>9
<1>11. s \in [1..Cardinality(S) -> S] /\ \A i, j \in 1..Cardinality(S) : i # j => s[i] # s[j]
  BY <1>10 DEF SetToSeqs
<1>12. s \in Seq(S) /\ DOMAIN s = 1..Cardinality(S)
  BY <1>1, <1>11
<1>13. IsInjective(s)
  BY <1>11, <1>12 DEF IsInjective
<1>14. ToSet(s) = S
  <2>1. s \in Surjection(1..Cardinality(S), ToSet(s)) /\ s \in Injection(1..Cardinality(S), ToSet(s))
    BY <1>11, <1>12 DEF Surjection, Injection, ToSet, IsInjective
  <2>2. IsFiniteSet(1..Cardinality(S)) /\ Cardinality(1..Cardinality(S)) = Cardinality(S)
    BY <1>1, FS_Interval
  <2>3. Cardinality(ToSet(s)) = Cardinality(S)
    BY <2>1, <2>2, FS_Surjection
  <2>4. ToSet(s) \in SUBSET S
    BY <1>11, <1>12 DEF ToSet
  <2> QED BY <1>1, <2>3, <2>4, FS_Subset
<1> QED BY <1>9, <1>10, <1>12, <1>13, <1>14 DEF w

\* What is admitted are windows of contests that opened lately.
LEMMA AdmittedFacts ==
  ASSUME NEW p \in Plans, NEW full \in SUBSET DOMAIN p.contests, NEW now,
         NEW s, s = OpeningOrder(p.contests, Recent(p.contests, full, now))
  PROVE  \E f : /\ Admits(f, Len(s), s, p.contests) /\ Admitted(p.contests, full, now) = f[Len(s)]
               /\ \A i \in 0..Len(s) : f[i] \in Seq({WindowOf(p.contests[c]) : c \in Recent(p.contests, full, now)})
<1> DEFINE f == CHOOSE g : Admits(g, Len(s), s, p.contests)
           W == {WindowOf(p.contests[c]) : c \in Recent(p.contests, full, now)}
           Odd == {i \in 0..Len(s) : f[i] \notin Seq(W)}
<1>0. Recent(p.contests, full, now) \in SUBSET DOMAIN p.contests
  BY DEF Recent
<1>1. s \in Seq(Recent(p.contests, full, now)) /\ Len(s) \in Nat /\ \A i \in 1..Len(s) : s[i] \in Recent(p.contests, full, now)
  BY <1>0, OpeningOrderFacts
<1>2. Admits(f, Len(s), s, p.contests)
  BY <1>1, AdmitsExist
<1>3. Admitted(p.contests, full, now) = f[Len(s)]
  BY DEF Admitted, Admits
<1> HIDE DEF f
<1>4. \A i \in 0..Len(s) : \/ (i = 0 /\ f[i] = <<>>)
                         \/ (i # 0 /\ (f[i] = f[i - 1] \/ f[i] = Append(f[i - 1], WindowOf(p.contests[s[i]]))))
  BY <1>2 DEF Admits
<1>5. \A i \in 1..Len(s) : WindowOf(p.contests[s[i]]) \in W
  BY <1>1
<1> HIDE DEF W
<1>6. Odd = {}
  <2> SUFFICES ASSUME Odd # {} PROVE FALSE
    OBVIOUS
  <2>1. PICK m \in Odd : \A k \in Odd : m <= k
    <3>1. Odd \subseteq Nat /\ Odd # {}
      BY <1>1
    <3> HIDE DEF Odd
    <3> QED BY <3>1, LeastCase
  <2>2. m # 0
    <3>1. <<>> \in Seq(W) /\ 0 \in 0..Len(s)
      BY <1>1
    <3>2. f[0] = <<>>
      BY <3>1, <1>4
    <3>3. f[m] \notin Seq(W)
      BY <2>1
    <3> QED BY <3>1, <3>2, <3>3
  <2>3. m \in 1..Len(s) /\ m - 1 \in 0..Len(s) /\ m - 1 \notin Odd
    BY <1>1, <2>1, <2>2
  <2>4. PICK q \in Seq(W) : q = f[m - 1]
    BY <2>3
  <2>5. f[m] = q \/ f[m] = Append(q, WindowOf(p.contests[s[m]]))
    BY <1>4, <2>1, <2>2, <2>4
  <2>6. PICK x \in W : x = WindowOf(p.contests[s[m]])
    BY <1>5, <2>3
  <2>7. f[m] \in Seq(W)
    <3>1. Append(q, x) \in Seq(W)
      OBVIOUS
    <3> QED BY <3>1, <2>5, <2>6, Zenon
  <2> QED BY <2>1, <2>7
<1> QED BY <1>2, <1>3, <1>6 DEF W

\* The contests' demand ends later, or there is none; it lasts until the end of each open window it admits.
LEMMA UntilFacts ==
  ASSUME NEW p \in Plans, NEW full \in SUBSET DOMAIN p.contests, NEW now \in Nat
  PROVE  /\ UntilOf(p.contests, full, now) \in Nat
         /\ UntilOf(p.contests, full, now) # 0 => UntilOf(p.contests, full, now) > now
         /\ \A w \in ToSet(Admitted(p.contests, full, now)) :
              w.opens <= now /\ w.closes > now => UntilOf(p.contests, full, now) >= w.closes
<1> DEFINE A == ToSet(Admitted(p.contests, full, now))
           Closings == {0} \cup {w.closes : w \in {v \in A : v.opens <= now /\ v.closes > now}}
           Bound == now + Lead + Span + After
           Spare == {Bound - x : x \in Closings}
<1>1. ASSUME NEW w \in A
      PROVE  w.closes \in Nat /\ w.closes <= w.opens + Lead + Span + After /\ w.opens \in Int
  <2>1. PICK S : S = Recent(p.contests, full, now)
    OBVIOUS
  <2>2. PICK V : V = {WindowOf(p.contests[c]) : c \in S}
    OBVIOUS
  <2>3. Admitted(p.contests, full, now) \in Seq(V)
    <3>1. PICK s : s = OpeningOrder(p.contests, S)
      OBVIOUS
    <3>2. Len(s) \in 0..Len(s)
      <4>1. S \in SUBSET DOMAIN p.contests
        BY <2>1 DEF Recent
      <4>2. s \in Seq(S)
        BY <3>1, <4>1, OpeningOrderFacts
      <4> QED BY <4>2
    <3>3. \E f : Admitted(p.contests, full, now) = f[Len(s)] /\ \A i \in 0..Len(s) : f[i] \in Seq({WindowOf(p.contests[c]) : c \in S})
      BY <2>1, <3>1, AdmittedFacts
    <3> QED BY <2>2, <3>2, <3>3
  <2>4. PICK q \in Seq(V) : q = Admitted(p.contests, full, now)
    BY <2>3
  <2>5. w \in V
    BY <2>4 DEF ToSet
  <2>6. PICK c \in DOMAIN p.contests : w = WindowOf(p.contests[c])
    BY <2>1, <2>2, <2>5 DEF Recent
  <2>7. Lead \in Nat /\ Span \in Nat /\ After \in Nat
    BY PoolAssumption
  <2>8. /\ WindowOf(p.contests[c]).opens \in Int /\ WindowOf(p.contests[c]).closes \in Nat
        /\ WindowOf(p.contests[c]).opens = p.contests[c].starts - Lead
        /\ WindowOf(p.contests[c]).closes <= p.contests[c].starts + Span + After /\ p.contests[c].starts \in Nat
    BY WindowTimes
  <2> QED BY <2>6, <2>7, <2>8
<1>2. Lead \in Nat /\ Span \in Nat /\ After \in Nat /\ Bound \in Nat
  BY PoolAssumption
<1> HIDE DEF A
<1>3. Closings \subseteq Nat /\ \A x \in Closings : x <= Bound /\ (x # 0 => x > now)
  BY <1>1, <1>2
<1>4. Spare \subseteq Nat /\ Spare # {}
  BY <1>2, <1>3
<1>5. PICK r \in Spare : \A y \in Spare : r <= y
  <2> HIDE DEF Spare
  <2> QED BY <1>4, LeastCase
<1>6. PICK m \in Closings : r = Bound - m
  BY <1>5
<1>7. \A x \in Closings : m >= x
  <2> SUFFICES ASSUME NEW x \in Closings PROVE m >= x
    OBVIOUS
  <2>1. Bound - x \in Spare
    OBVIOUS
  <2>2. r <= Bound - x /\ x \in Nat /\ m \in Nat
    BY <2>1, <1>3, <1>5
  <2> HIDE DEF Bound, Closings, Spare
  <2> QED BY <2>2, <1>2, <1>6
<1>8. Max(Closings) \in Closings /\ \A x \in Closings : Max(Closings) >= x
  <2> HIDE DEF Closings
  <2> QED BY <1>7 DEF Max
<1>9. UntilOf(p.contests, full, now) = Max(Closings)
  BY DEF UntilOf, A
<1>10. \A w \in A : w.opens <= now /\ w.closes > now => w.closes \in Closings
  OBVIOUS
<1> HIDE DEF Closings
<1> QED BY <1>3, <1>8, <1>9, <1>10 DEF A

-----------------------------------------------------------------------------
(***************************************************************************)
(* The steps of the pool, as what becomes of each host and invocation.     *)
(***************************************************************************)

Needed == ContestUntil(clock)
Due    == begun * Period

SameDemand == given' = given /\ work' = work /\ wantedFor' = wantedFor /\ Needed' = Needed
SameHosts  == \A h \in HostIds : hosts'[h] = hosts[h]
SameTicks  == \A t \in Invocations : ticks'[t] = ticks[t]
OneTick(t) == \A s \in Invocations : s # t => ticks'[s] = ticks[s]
LeftAs(t, holds, starts) ==
  \/ ticks'[t].pc = "idle" /\ holds = {} /\ starts = <<>>
  \/ ticks'[t].pc = "act" /\ ticks'[t].now = ticks[t].now /\ ticks'[t].holds = holds /\ ticks'[t].starts = starts

\* Time passes: no deadline was reached.
Elapses ==
  /\ clock' = clock + 1 /\ begun' = begun /\ given' = given /\ work' = work
  /\ wantedFor' = clock' \/ (wantedFor' = wantedFor /\ Needed' = Needed)
  /\ SameHosts /\ SameTicks
  /\ clock < Due + Delay
  /\ \A t \in Invocations : ticks[t].pc # "idle" => clock < ticks[t].now + Lag
  /\ \A h \in HostIds :
       /\ hosts[h].state \in {"pending", "stopping"} \/ hosts[h].leaving => clock < hosts[h].since + Lag
       /\ Active(h) /\ hosts[h].shown # hosts[h].hold => clock < hosts[h].tagged + Lag

Loads(t) ==
  /\ begun' = begun + 1 /\ Due <= clock
  /\ SameHosts /\ OneTick(t)
  /\ ticks[t].pc = "idle"
  /\ ticks'[t].pc = "hosts" /\ ticks'[t].now = clock /\ ticks'[t].contest = Needed /\ ticks'[t].work = work
Snaps(t) ==
  /\ begun' = begun /\ SameHosts /\ OneTick(t)
  /\ ticks[t].pc = "hosts" /\ LeftAs(t, PlanHolds(ticks[t]), PlanStarts(ticks[t]))
TaggedTo(h, until) ==
  /\ hosts'[h].state = hosts[h].state /\ hosts'[h].since = hosts[h].since
  /\ hosts'[h].leaving = hosts[h].leaving /\ hosts'[h].shown = hosts[h].shown
  /\ hosts'[h].hold = until /\ hosts'[h].tagged = (IF hosts[h].shown = hosts[h].hold THEN clock ELSE hosts[h].tagged)
Tags(t) ==
  /\ begun' = begun /\ OneTick(t)
  /\ ticks[t].pc = "act"
  /\ \E first \in ticks[t].holds :
       /\ LeftAs(t, {g \in ticks[t].holds : g.until # first.until}, ticks[t].starts)
       /\ \A h \in HostIds : IF \E g \in ticks[t].holds : g.until = first.until /\ g.host = h
                             THEN TaggedTo(h, first.until) ELSE hosts'[h] = hosts[h]
Launched(h) ==
  /\ hosts[h].state = "stopped" /\ hosts'[h].state = "pending" /\ hosts'[h].since = clock
  /\ hosts'[h].leaving = hosts[h].leaving /\ hosts'[h].shown = hosts[h].hold
  /\ hosts'[h].hold = hosts[h].hold /\ hosts'[h].tagged = hosts[h].tagged
Launches(t) ==
  /\ begun' = begun /\ OneTick(t)
  /\ ticks[t].pc = "act" /\ ticks[t].holds = {} /\ ticks[t].starts # <<>>
  /\ LeftAs(t, {}, Tail(ticks[t].starts))
  /\ \A h \in HostIds : IF h = Head(ticks[t].starts) /\ hosts[h].state = "stopped" THEN Launched(h) ELSE hosts'[h] = hosts[h]

Becomes(h, state) ==
  /\ hosts'[h].state = state /\ hosts'[h].since = clock /\ ~hosts'[h].leaving
  /\ hosts'[h].hold = hosts[h].hold /\ hosts'[h].tagged = hosts[h].tagged /\ hosts'[h].shown = hosts[h].shown
Moves(h) ==
  \/ hosts[h].state = "pending" /\ Becomes(h, "running")
  \/ /\ Active(h) /\ hosts[h].shown # hosts[h].hold
     /\ hosts'[h].state = hosts[h].state /\ hosts'[h].since = hosts[h].since /\ hosts'[h].leaving = hosts[h].leaving
     /\ hosts'[h].hold = hosts[h].hold /\ hosts'[h].tagged = hosts[h].tagged /\ hosts'[h].shown = hosts[h].hold
  \/ /\ h \in ToSet(Bursts) /\ hosts[h].state = "running" /\ ~hosts[h].leaving /\ clock >= hosts[h].shown + Grace
     /\ hosts'[h].state = "running" /\ hosts'[h].since = clock /\ hosts'[h].leaving
     /\ hosts'[h].hold = hosts[h].hold /\ hosts'[h].tagged = hosts[h].tagged /\ hosts'[h].shown = hosts[h].shown
  \/ hosts[h].leaving /\ Becomes(h, "stopping")
  \/ hosts[h].state = "stopping" /\ Becomes(h, "stopped")
OneMove(h) ==
  /\ begun' = begun /\ SameTicks /\ Moves(h)
  /\ \A k \in HostIds : k # h => hosts'[k] = hosts[k]
\* A step that is an event: a fault, a contest that fills, a change of the queue.
Disturbs ==
  /\ clock' = clock /\ begun' = begun /\ given' = given /\ wantedFor' = clock
  /\ \A t \in Invocations : ticks'[t] = ticks[t] \/ ticks'[t].pc = "idle"
  /\ \A h \in HostIds : \/ hosts'[h] = hosts[h]
                        \/ hosts[h].state = "running" /\ ~hosts[h].leaving /\ Becomes(h, "stopping")
Rests == begun' = begun /\ SameHosts /\ SameTicks

StepKind ==
  \/ Elapses
  \/ Disturbs
  \/ /\ SameDemand /\ clock' = clock
     /\ \/ \E t \in Invocations : Loads(t) \/ Snaps(t) \/ Tags(t) \/ Launches(t)
        \/ \E h \in HostIds : OneMove(h)
        \/ Rests

LEMMA SameNeed ==
  ASSUME UNCHANGED <<given, clock, filled>>
  PROVE  Needed' = Needed
BY DEF Needed, ContestUntil

LEMMA HostAtBecomes ==
  ASSUME PoolIInv, NEW h \in HostIds, NEW state \in HostStates, HostAt(h, state)
  PROVE  Becomes(h, state) /\ \A k \in HostIds : k # h => hosts'[k] = hosts[k]
<1>1. PICK new : new = [hosts[h] EXCEPT !.state = state, !.since = clock, !.leaving = FALSE]
  OBVIOUS
<1>2. hosts = [g \in HostIds |-> hosts[g]] /\ DOMAIN hosts[h] = HostFields /\ hosts[h] = [f \in HostFields |-> hosts[h][f]]
  BY DEF PoolIInv, PoolTypes
<1>3. hosts' = [hosts EXCEPT ![h] = new]
  BY <1>1, <1>2 DEF HostAt
<1>4. hosts'[h] = new /\ \A k \in HostIds : k # h => hosts'[k] = hosts[k]
  BY <1>2, <1>3
<1>5. /\ new.state = state /\ new.since = clock /\ new.leaving = FALSE
      /\ new.hold = hosts[h].hold /\ new.tagged = hosts[h].tagged /\ new.shown = hosts[h].shown
  BY <1>1, <1>2 DEF HostFields
<1>6. ~new.leaving
  BY <1>5
<1> QED BY <1>4, <1>5, <1>6 DEF Becomes

LEMMA HostKind ==
  ASSUME PoolIInv, NEW h \in HostIds, Boot(h) \/ ShowTag(h) \/ DecideToStop(h) \/ PowerOff(h) \/ HostStops(h)
  PROVE  OneMove(h)
<1>1. hosts = [g \in HostIds |-> hosts[g]] /\ DOMAIN hosts[h] = HostFields /\ hosts[h] = [f \in HostFields |-> hosts[h][f]]
  BY DEF PoolIInv, PoolTypes
<1>2. UNCHANGED <<begun, ticks>>
  BY DEF Boot, ShowTag, DecideToStop, PowerOff, HostStops, OnlyHosts
<1>3. SameTicks /\ begun' = begun
  BY <1>2 DEF SameTicks
<1>4. CASE Boot(h)
  <2>1. HostAt(h, "running") /\ hosts[h].state = "pending" /\ "running" \in HostStates
    BY <1>4 DEF Boot, HostStates
  <2> QED BY <2>1, <1>3, HostAtBecomes DEF OneMove, Moves
<1>5. CASE ShowTag(h)
  <2>1. PICK new : new = [hosts[h] EXCEPT !.shown = hosts[h].hold]
    OBVIOUS
  <2>2. hosts' = [hosts EXCEPT ![h] = new]
    BY <1>1, <1>5, <2>1 DEF ShowTag
  <2>3. hosts'[h] = new /\ \A k \in HostIds : k # h => hosts'[k] = hosts[k]
    BY <1>1, <2>2
  <2>4. /\ new.state = hosts[h].state /\ new.since = hosts[h].since /\ new.leaving = hosts[h].leaving
        /\ new.hold = hosts[h].hold /\ new.tagged = hosts[h].tagged /\ new.shown = hosts[h].hold
    BY <1>1, <2>1 DEF HostFields
  <2>5. Moves(h)
    BY <1>5, <2>3, <2>4 DEF Moves, ShowTag
  <2> QED BY <1>3, <2>3, <2>5 DEF OneMove
<1>6. CASE DecideToStop(h)
  <2>1. PICK new : new = [hosts[h] EXCEPT !.leaving = TRUE, !.since = clock]
    OBVIOUS
  <2>2. hosts' = [hosts EXCEPT ![h] = new]
    BY <1>1, <1>6, <2>1 DEF DecideToStop
  <2>3. hosts'[h] = new /\ \A k \in HostIds : k # h => hosts'[k] = hosts[k]
    BY <1>1, <2>2
  <2>4. /\ new.state = hosts[h].state /\ new.since = clock /\ new.leaving = TRUE
        /\ new.hold = hosts[h].hold /\ new.tagged = hosts[h].tagged /\ new.shown = hosts[h].shown
    BY <1>1, <2>1 DEF HostFields
  <2>5. new.leaving
    BY <2>4
  <2>6. Moves(h)
    BY <1>6, <2>3, <2>4, <2>5 DEF Moves, DecideToStop, MayLeave
  <2> QED BY <1>3, <2>3, <2>6 DEF OneMove
<1>7. CASE PowerOff(h)
  <2>1. HostAt(h, "stopping") /\ hosts[h].leaving /\ "stopping" \in HostStates
    BY <1>7 DEF PowerOff, HostStates
  <2> QED BY <2>1, <1>3, HostAtBecomes DEF OneMove, Moves
<1>8. CASE HostStops(h)
  <2>1. HostAt(h, "stopped") /\ hosts[h].state = "stopping" /\ "stopped" \in HostStates
    BY <1>8 DEF HostStops, HostStates
  <2> QED BY <2>1, <1>3, HostAtBecomes DEF OneMove, Moves
<1> QED BY <1>4, <1>5, <1>6, <1>7, <1>8

LEMMA LeftIsAs ==
  ASSUME PoolIInv, NEW t \in Invocations, NEW holds, NEW starts, Left(t, holds, starts)
  PROVE  LeftAs(t, holds, starts) /\ OneTick(t)
<1>1. PICK new : new = IF holds = {} /\ starts = <<>> THEN NoTick ELSE [pc |-> "act", now |-> ticks[t].now, holds |-> holds, starts |-> starts]
  OBVIOUS
<1>2. ticks' = [ticks EXCEPT ![t] = new]
  BY <1>1 DEF Left
<1>3. ticks = [s \in Invocations |-> ticks[s]]
  BY DEF PoolIInv, PoolTypes
<1>4. ticks'[t] = new /\ \A s \in Invocations : s # t => ticks'[s] = ticks[s]
  BY <1>2, <1>3
<1> QED BY <1>1, <1>4 DEF LeftAs, OneTick, NoTick

LEMMA TickKind ==
  ASSUME PoolIInv, NEW t \in Invocations, LoadDemand(t) \/ Snapshot(t) \/ TagHosts(t) \/ StartHost(t),
         ticks[t].pc = "act" => \A g \in ticks[t].holds : g.until \in Nat
  PROVE  Loads(t) \/ Snaps(t) \/ Tags(t) \/ Launches(t)
<1>1. ticks = [s \in Invocations |-> ticks[s]] /\ hosts = [h \in HostIds |-> hosts[h]]
  BY DEF PoolIInv, PoolTypes
<1>2. CASE LoadDemand(t)
  <2>1. PICK new : new = [pc |-> "hosts", now |-> clock, contest |-> Needed, work |-> work]
    OBVIOUS
  <2>2. ticks' = [ticks EXCEPT ![t] = new]
    BY <1>2, <2>1 DEF LoadDemand, Needed
  <2>3. ticks'[t] = new /\ \A s \in Invocations : s # t => ticks'[s] = ticks[s]
    BY <1>1, <2>2
  <2>4. ticks[t].pc = "idle" /\ begun' = begun + 1 /\ Due <= clock /\ UNCHANGED hosts
    BY <1>2 DEF LoadDemand, NoTick, Due
  <2> QED BY <2>1, <2>3, <2>4 DEF Loads, SameHosts, OneTick
<1>3. CASE Snapshot(t)
  <2>1. ticks[t].pc = "hosts" /\ UNCHANGED <<hosts, begun>> /\ Left(t, PlanHolds(ticks[t]), PlanStarts(ticks[t]))
    BY <1>3 DEF Snapshot
  <2>2. LeftAs(t, PlanHolds(ticks[t]), PlanStarts(ticks[t])) /\ OneTick(t)
    BY <2>1, LeftIsAs
  <2> QED BY <2>1, <2>2 DEF Snaps, SameHosts
<1>4. CASE TagHosts(t)
  <2> DEFINE holds == ticks[t].holds
  <2>1. holds = ticks[t].holds
    OBVIOUS
  <2>2. ticks[t].pc = "act" /\ holds # {} /\ begun' = begun
    BY <1>4, <2>1 DEF TagHosts
  <2>3. PICK U : U = {g.until : g \in holds}
    OBVIOUS
  <2>4. U \subseteq Nat /\ U # {}
    BY <2>1, <2>2, <2>3
  <2>5. PICK first \in holds : first.until = Min(U)
    BY <2>3, <2>4, LeastCase
  <2>6. PICK group : group = {g.host : g \in {x \in holds : x.until = first.until}}
    OBVIOUS
  <2>7. /\ hosts' = [h \in HostIds |-> IF h \in group THEN [hosts[h] EXCEPT !.hold = first.until, !.tagged = IF hosts[h].shown = hosts[h].hold THEN clock ELSE @] ELSE hosts[h]]
        /\ Left(t, {g \in holds : g.until # first.until}, ticks[t].starts)
    BY <1>4, <2>1, <2>3, <2>5, <2>6 DEF TagHosts
  <2>8. LeftAs(t, {g \in holds : g.until # first.until}, ticks[t].starts) /\ OneTick(t)
    BY <2>7, LeftIsAs
  <2>9. ASSUME NEW h \in HostIds
        PROVE  IF \E g \in holds : g.until = first.until /\ g.host = h THEN TaggedTo(h, first.until) ELSE hosts'[h] = hosts[h]
    <3>1. DOMAIN hosts[h] = HostFields /\ hosts[h] = [f \in HostFields |-> hosts[h][f]]
      BY DEF PoolIInv, PoolTypes
    <3>2. h \in group <=> \E g \in holds : g.until = first.until /\ g.host = h
      BY <2>6
    <3>3. CASE h \in group
      <4>1. PICK time : time = IF hosts[h].shown = hosts[h].hold THEN clock ELSE hosts[h].tagged
        OBVIOUS
      <4>2. PICK new : new = [hosts[h] EXCEPT !.hold = first.until, !.tagged = time]
        OBVIOUS
      <4>3. hosts'[h] = new
        BY <2>7, <3>3, <4>1, <4>2
      <4>4. /\ new.state = hosts[h].state /\ new.since = hosts[h].since /\ new.leaving = hosts[h].leaving
            /\ new.hold = first.until /\ new.tagged = time /\ new.shown = hosts[h].shown
        BY <3>1, <4>2 DEF HostFields
      <4> QED BY <3>2, <3>3, <4>1, <4>3, <4>4 DEF TaggedTo
    <3>4. CASE h \notin group
      BY <2>7, <3>2, <3>4
    <3> QED BY <3>3, <3>4
  <2>10. \E f \in holds :
           /\ LeftAs(t, {g \in holds : g.until # f.until}, ticks[t].starts)
           /\ \A h \in HostIds : IF \E g \in holds : g.until = f.until /\ g.host = h
                                 THEN TaggedTo(h, f.until) ELSE hosts'[h] = hosts[h]
    BY <2>8, <2>9, Zenon
  <2>11. Tags(t)
    BY <2>1, <2>2, <2>8, <2>10 DEF Tags
  <2> QED BY <2>11
<1>5. CASE StartHost(t)
  <2>1. PICK q : q = ticks[t].starts
    OBVIOUS
  <2>2. ticks[t].pc = "act" /\ ticks[t].holds = {} /\ q # <<>> /\ begun' = begun /\ Left(t, {}, Tail(q))
    BY <1>5, <2>1 DEF StartHost
  <2>3. LeftAs(t, {}, Tail(q)) /\ OneTick(t)
    BY <2>2, LeftIsAs
  <2>4. q \in Seq(HostIds \ given.stale)
    BY <2>1, <2>2 DEF PoolIInv, StartsMayRun
  <2>5. PICK k \in HostIds : k = Head(q)
    BY <2>2, <2>4
  <2>6. ASSUME NEW h \in HostIds
        PROVE  IF h = Head(q) /\ hosts[h].state = "stopped" THEN Launched(h) ELSE hosts'[h] = hosts[h]
    <3>1. DOMAIN hosts[k] = HostFields /\ hosts[k] = [f \in HostFields |-> hosts[k][f]]
      BY DEF PoolIInv, PoolTypes
    <3>2. CASE hosts[k].state = "stopped"
      <4>1. PICK new : new = [hosts[k] EXCEPT !.state = "pending", !.since = clock, !.shown = hosts[k].hold]
        OBVIOUS
      <4>2. hosts' = [hosts EXCEPT ![k] = new]
        BY <1>1, <1>5, <2>1, <2>5, <3>2, <4>1 DEF StartHost
      <4>3. hosts'[k] = new /\ (h # k => hosts'[h] = hosts[h])
        BY <1>1, <4>2
      <4>4. /\ new.state = "pending" /\ new.since = clock /\ new.leaving = hosts[k].leaving
            /\ new.hold = hosts[k].hold /\ new.tagged = hosts[k].tagged /\ new.shown = hosts[k].hold
        BY <3>1, <4>1 DEF HostFields
      <4> QED BY <2>5, <3>2, <4>3, <4>4 DEF Launched
    <3>3. CASE hosts[k].state # "stopped"
      <4>1. hosts' = hosts
        BY <1>5, <2>1, <2>5, <3>3 DEF StartHost
      <4> QED BY <2>5, <3>3, <4>1
    <3> QED BY <3>2, <3>3
  <2> QED BY <2>1, <2>2, <2>3, <2>6 DEF Launches
<1> QED BY <1>2, <1>3, <1>4, <1>5

\* What the deadlines mean, and the types of the times they are about.
Deadlines ==
  /\ begun \in Nat /\ clock <= Due + Delay /\ Due - Period <= clock
  /\ \A t \in Invocations : ticks[t].pc # "idle" => ticks[t].now \in Nat /\ ticks[t].now <= clock /\ clock <= ticks[t].now + Lag
  /\ \A h \in HostIds :
       /\ hosts[h].hold \in Nat /\ hosts[h].shown \in Nat /\ hosts[h].tagged \in Nat /\ hosts[h].tagged <= clock
       /\ hosts[h].state \in {"pending", "stopping"} \/ hosts[h].leaving => clock <= hosts[h].since + Lag
       /\ Active(h) /\ hosts[h].shown # hosts[h].hold => clock <= hosts[h].tagged + Lag
       /\ hosts[h].leaving => h \in ToSet(Bursts)

LEMMA PoolTimes ==
  /\ Period \in Nat /\ Delay \in Nat /\ Lag \in Nat /\ Grace \in Nat /\ Lag > 0 /\ Grace > Lag
  /\ FallbackHold \in Nat /\ FallbackHold >= Period + Delay + 3 * Lag
BY PoolAssumption, TimeAssumption

LEMMA DueFacts ==
  /\ begun \in Nat => Due \in Nat
  /\ begun \in Nat /\ begun' = begun + 1 => Due' = Due + Period
  /\ begun' = begun => Due' = Due
<1>1. Period \in Nat
  BY PoolTimes
<1> QED BY <1>1 DEF Due

\* Each step of the pool is of one of these kinds.
LEMMA PoolSteps ==
  ASSUME PoolIInv, Deadlines, [PoolNext]_poolVars, \A t \in Invocations : ticks[t].pc = "act" => \A g \in ticks[t].holds : g.until \in Nat
  PROVE  StepKind
<1>1. ticks = [s \in Invocations |-> ticks[s]] /\ hosts = [h \in HostIds |-> hosts[h]] /\ clock \in Nat
  BY PoolAssumption DEF PoolIInv, PoolTypes
<1>2. CASE TimePasses
  <2>1. /\ clock' = clock + 1 /\ UNCHANGED <<given, filled, work, hosts, begun, ticks, events>>
        /\ wantedFor' = (IF ContestUntil(clock') = ContestUntil(clock) THEN wantedFor ELSE clock') /\ ~Urgent
    BY <1>2 DEF TimePasses
  <2>2. Needed' = ContestUntil(clock')
    BY <2>1 DEF Needed, ContestUntil
  <2>3. wantedFor' = clock' \/ (wantedFor' = wantedFor /\ Needed' = Needed)
    BY <2>1, <2>2 DEF Needed
  <2>4. ASSUME NEW t \in Invocations, ticks[t].pc # "idle" PROVE clock < ticks[t].now + Lag
    <3>1. ticks[t] # NoTick
      BY <2>4 DEF NoTick
    <3>2. ~(clock >= ticks[t].now + Lag)
      BY <2>1, <3>1 DEF Urgent
    <3>3. clock \in Nat /\ ticks[t].now \in Nat
      BY <1>1, <2>4 DEF Deadlines
    <3> QED BY <3>2, <3>3, PoolTimes
  <2>5. \A h \in HostIds :
          /\ hosts[h].state \in {"pending", "stopping"} \/ hosts[h].leaving => clock < hosts[h].since + Lag
          /\ Active(h) /\ hosts[h].shown # hosts[h].hold => clock < hosts[h].tagged + Lag
    <3> SUFFICES ASSUME NEW h \in HostIds
                 PROVE  /\ hosts[h].state \in {"pending", "stopping"} \/ hosts[h].leaving => clock < hosts[h].since + Lag
                        /\ Active(h) /\ hosts[h].shown # hosts[h].hold => clock < hosts[h].tagged + Lag
      OBVIOUS
    <3>1. hosts[h].since \in Nat /\ hosts[h].tagged \in Nat
      BY <1>1 DEF PoolIInv, PoolTypes, Deadlines
    <3>2. /\ ~((hosts[h].state \in {"pending", "stopping"} \/ hosts[h].leaving) /\ clock >= hosts[h].since + Lag)
          /\ ~(Active(h) /\ hosts[h].shown # hosts[h].hold /\ clock >= hosts[h].tagged + Lag)
      BY <2>1 DEF Urgent
    <3> QED BY <1>1, <3>1, <3>2, PoolTimes
  <2>6. clock < Due + Delay
    <3>1. ~(clock >= Due + Delay)
      BY <2>1 DEF Urgent, Due
    <3>2. Due \in Nat
      BY DueFacts DEF Deadlines
    <3> QED BY <1>1, <3>1, <3>2, PoolTimes
  <2>7. SameHosts /\ SameTicks /\ begun' = begun /\ given' = given /\ work' = work
    BY <2>1 DEF SameHosts, SameTicks
  <2> QED BY <2>1, <2>3, <2>4, <2>5, <2>6, <2>7 DEF StepKind, Elapses
<1>3. CASE \E t \in Invocations : LoadDemand(t) \/ Snapshot(t) \/ TagHosts(t) \/ StartHost(t)
  <2>1. PICK t \in Invocations : LoadDemand(t) \/ Snapshot(t) \/ TagHosts(t) \/ StartHost(t)
    BY <1>3
  <2>2. Loads(t) \/ Snaps(t) \/ Tags(t) \/ Launches(t)
    BY <2>1, TickKind
  <2>3. UNCHANGED <<given, clock, filled, work, wantedFor>>
    BY <2>1 DEF LoadDemand, Snapshot, TagHosts, StartHost
  <2>4. SameDemand /\ clock' = clock
    BY <2>3, SameNeed DEF SameDemand
  <2> QED BY <2>2, <2>4 DEF StepKind
<1>4. CASE \E h \in HostIds : Boot(h) \/ ShowTag(h) \/ DecideToStop(h) \/ PowerOff(h) \/ HostStops(h)
  <2>1. PICK h \in HostIds : Boot(h) \/ ShowTag(h) \/ DecideToStop(h) \/ PowerOff(h) \/ HostStops(h)
    BY <1>4
  <2>2. OneMove(h)
    BY <2>1, HostKind
  <2>3. UNCHANGED <<given, clock, filled, work, wantedFor>>
    BY <2>1 DEF Boot, ShowTag, DecideToStop, PowerOff, HostStops, OnlyHosts
  <2>4. SameDemand /\ clock' = clock
    BY <2>3, SameNeed DEF SameDemand
  <2> QED BY <2>2, <2>4 DEF StepKind
<1>5. CASE \E t \in Invocations : TickFails(t)
  <2>1. PICK t \in Invocations : TickFails(t)
    BY <1>5
  <2>2. ticks' = [ticks EXCEPT ![t] = NoTick] /\ wantedFor' = clock /\ UNCHANGED <<given, clock, hosts, begun>>
    BY <2>1 DEF TickFails, Event
  <2>3. \A s \in Invocations : ticks'[s] = ticks[s] \/ ticks'[s].pc = "idle"
    BY <1>1, <2>2 DEF NoTick
  <2> QED BY <2>2, <2>3 DEF StepKind, Disturbs
<1>6. CASE \E h \in HostIds : HostFails(h)
  <2>1. PICK h \in HostIds : HostFails(h)
    BY <1>6
  <2>2. /\ hosts[h].state = "running" /\ ~hosts[h].leaving /\ HostAt(h, "stopping") /\ "stopping" \in HostStates
        /\ wantedFor' = clock /\ UNCHANGED <<given, clock, ticks, begun>>
    BY <2>1 DEF HostFails, Event, HostStates
  <2>3. Becomes(h, "stopping") /\ \A k \in HostIds : k # h => hosts'[k] = hosts[k]
    BY <2>2, HostAtBecomes
  <2> QED BY <2>2, <2>3 DEF StepKind, Disturbs
<1>7. CASE (\E c \in DOMAIN given.contests : FillContest(c)) \/ (\E next \in {"none", "some", "waiting"} : QueueChanges(next))
  <2>1. UNCHANGED <<given, clock, hosts, ticks, begun>> /\ wantedFor' = clock
    BY <1>7 DEF FillContest, QueueChanges, Event
  <2> QED BY <2>1 DEF StepKind, Disturbs
<1>8. CASE UNCHANGED poolVars
  <2>1. UNCHANGED <<given, clock, filled, work, wantedFor, hosts, ticks, begun>>
    BY <1>8 DEF poolVars
  <2>2. SameDemand /\ clock' = clock
    BY <2>1, SameNeed DEF SameDemand
  <2> QED BY <2>1, <2>2 DEF StepKind, Rests, SameHosts, SameTicks
<1> QED
  <2>1. PoolNext \/ UNCHANGED poolVars
    OBVIOUS
  <2> QED BY <2>1, <1>2, <1>3, <1>4, <1>5, <1>6, <1>7, <1>8, Zenon DEF PoolNext

-----------------------------------------------------------------------------
(* What a snapshot plans.                                                  *)

Rank(h) == CHOOSE j \in DOMAIN Ranked : Ranked[j] = h

\* A host is wanted until the contests' demand ends, or for the fallback when its rank is high enough.
LEMMA WantedFacts ==
  ASSUME NEW d, d.contest \in Nat, d.now \in Nat, NEW h \in ToSet(Bursts)
  PROVE  /\ Wanted(d)[h] \in Nat /\ Wanted(d)[h] >= d.contest
         /\ Rank(h) <= Fallback(d) => Wanted(d)[h] >= d.now + FallbackHold
         /\ Wanted(d)[h] \in {d.contest, d.now + FallbackHold}
         /\ ~(Rank(h) <= Fallback(d)) => Wanted(d)[h] = d.contest
<1> DEFINE T == {d.contest} \cup {u \in {d.now + FallbackHold} : Rank(h) <= Fallback(d)}
<1>1. Wanted(d)[h] = Max(T)
  BY DEF Wanted, Rank
<1>2. FallbackHold \in Nat
  BY PoolTimes
<1>3. T = {d.contest} \/ T = {d.contest, d.now + FallbackHold}
  OBVIOUS
<1>4. Rank(h) <= Fallback(d) => d.now + FallbackHold \in T
  OBVIOUS
<1>7. ~(Rank(h) <= Fallback(d)) => T = {d.contest}
  OBVIOUS
<1>5. \E m \in T : \A x \in T : m >= x
  BY <1>2, <1>3
<1> HIDE DEF T
<1>6. Max(T) \in T /\ \A x \in T : Max(T) >= x
  BY <1>5 DEF Max
<1> QED BY <1>1, <1>2, <1>3, <1>4, <1>6, <1>7

\* A host that runs or can be started is held, unless its hold is long enough.
LEMMA HoldsFacts ==
  ASSUME NEW d, d.contest \in Nat, d.now \in Nat
  PROVE  /\ \A g \in PlanHolds(d) : g.host \in ToSet(Bursts) /\ g.until = Wanted(d)[g.host] /\ g.until > hosts[g.host].hold
         /\ \A h \in ToSet(Bursts) : Active(h) \/ CanStart(h) =>
              (\E g \in PlanHolds(d) : g.host = h) \/ ~(Wanted(d)[h] > hosts[h].hold)
<1>1. \A g \in PlanHolds(d) : g.host \in ToSet(Bursts) /\ g.until = Wanted(d)[g.host] /\ g.until > hosts[g.host].hold
  BY DEF PlanHolds
<1>2. ASSUME NEW h \in ToSet(Bursts), Active(h) \/ CanStart(h), Wanted(d)[h] > hosts[h].hold
      PROVE  \E g \in PlanHolds(d) : g.host = h
  <2>1. [host |-> h, until |-> Wanted(d)[h]] \in PlanHolds(d)
    BY <1>2 DEF PlanHolds
  <2> QED BY <2>1
<1> QED BY <1>1, <1>2

\* Every primary that can be started is, and every burst host that is wanted.
LEMMA StartsFacts ==
  ASSUME NEW d
  PROVE  ToSet(PlanStarts(d)) = (ToSet(Primaries) \cap Startable) \cup {h \in Startable \cap ToSet(Bursts) : Wanted(d)[h] > 0}
<1>1. Primaries \in Seq(ToSet(Primaries)) /\ IsInjective(Primaries)
  BY HostAssumption
<1>2. PICK S : S = {h \in Startable \cap ToSet(Bursts) : Wanted(d)[h] > 0}
  OBVIOUS
<1>3. PICK q, r : q = Among(Primaries, Startable) /\ r = Among(Ranked, S)
  OBVIOUS
<1>4. q \in Seq(ToSet(Primaries) \cap Startable) /\ IsInjective(q) /\ ToSet(q) = ToSet(Primaries) \cap Startable
  BY <1>1, <1>3, AmongFacts
<1>5. r \in Seq(ToSet(Bursts) \cap S) /\ IsInjective(r) /\ ToSet(r) = ToSet(Bursts) \cap S
  BY <1>3, RankedFacts, AmongFacts
<1>6. q \in Seq(HostIds) /\ r \in Seq(HostIds)
  <2>1. PICK T, U : T = ToSet(Primaries) \cap Startable /\ U = ToSet(Bursts) \cap S
    OBVIOUS
  <2>2. T \subseteq HostIds /\ U \subseteq HostIds /\ q \in Seq(T) /\ r \in Seq(U)
    BY <1>4, <1>5, <2>1, HostsAreTwoRoles
  <2> QED BY <2>2
<1>7. ToSet(q) \cap ToSet(r) = {}
  BY <1>4, <1>5, HostsAreTwoRoles
<1>8. ToSet(q \o r) = ToSet(q) \cup ToSet(r)
  BY <1>4, <1>5, <1>6, <1>7, JoinDisjoint
<1>9. PlanStarts(d) = q \o r
  BY <1>2, <1>3 DEF PlanStarts
<1>10. ToSet(Bursts) \cap S = S
  BY <1>2
<1> QED BY <1>2, <1>4, <1>5, <1>8, <1>9, <1>10

-----------------------------------------------------------------------------
(* What holds of every state: the deadlines, and what an invocation knows. *)

\* An invocation that read the demand after it last changed knows it.
TicksKnow ==
  \A t \in Invocations :
    /\ ticks[t].pc = "hosts" => ticks[t].contest \in Nat
    /\ ticks[t].pc = "act" => \A g \in ticks[t].holds : g.until \in Nat /\ g.host \in ToSet(Bursts)
    /\ ticks[t].pc = "hosts" /\ ticks[t].now > wantedFor => ticks[t].contest = Needed /\ ticks[t].work = work
    /\ ticks[t].pc = "act" /\ ticks[t].now > wantedFor => \A g \in ticks[t].holds :
         IF Needed # 0 THEN g.until >= Needed ELSE g.until = ticks[t].now + FallbackHold
HeldFor(t, h) == IF Needed # 0 THEN hosts[h].hold >= Needed ELSE hosts[h].hold + Lag >= ticks[t].now + FallbackHold
\* What it starts is held before, or for about as long already.
StartsAreHeld ==
  \A t \in Invocations : ticks[t].pc = "act" /\ ticks[t].now > wantedFor + Lag =>
    \A h \in ToSet(ticks[t].starts) \cap ToSet(Bursts) : (\E g \in ticks[t].holds : g.host = h) \/ HeldFor(t, h)

DemandIInv == PoolIInv /\ Deadlines /\ TicksKnow /\ StartsAreHeld

LEMMA NeedFacts ==
  ASSUME PoolIInv
  PROVE  Needed \in Nat /\ (Needed # 0 => Needed > clock)
<1>1. given \in Plans /\ filled \in SUBSET DOMAIN given.contests /\ clock \in Nat
  BY PoolAssumption DEF PoolIInv, PoolTypes
<1>2. PICK until : until = UntilOf(given.contests, filled, clock)
  OBVIOUS
<1>3. until \in Nat /\ (until # 0 => until > clock)
  BY <1>1, <1>2, UntilFacts
<1> QED BY <1>2, <1>3 DEF Needed, ContestUntil

LEMMA PoolNats ==
  ASSUME PoolIInv
  PROVE  /\ clock \in Nat /\ wantedFor \in Nat /\ wantedFor <= clock
         /\ \A h \in HostIds : hosts[h].since \in Nat /\ hosts[h].since <= clock /\ hosts[h].state \in HostStates
                               /\ (hosts[h].leaving => hosts[h].state = "running")
         /\ \A t \in Invocations : ticks[t].pc \in {"idle", "hosts", "act"}
BY PoolAssumption DEF PoolIInv, PoolTypes

LEMMA DeadlinesHold ==
  ASSUME DemandIInv, StepKind
  PROVE  Deadlines'
<1>1. PoolIInv /\ Deadlines /\ TicksKnow
  BY DEF DemandIInv
<1>2. /\ begun \in Nat /\ Due \in Nat /\ clock <= Due + Delay /\ Due - Period <= clock /\ clock \in Nat
      /\ \A t \in Invocations : ticks[t].pc # "idle" => ticks[t].now \in Nat /\ ticks[t].now <= clock /\ clock <= ticks[t].now + Lag
  BY <1>1, DueFacts, PoolNats DEF Deadlines
<1>3. \A h \in HostIds :
       /\ hosts[h].hold \in Nat /\ hosts[h].shown \in Nat /\ hosts[h].tagged \in Nat /\ hosts[h].tagged <= clock
       /\ hosts[h].since \in Nat /\ hosts[h].since <= clock
       /\ hosts[h].state \in {"pending", "stopping"} \/ hosts[h].leaving => clock <= hosts[h].since + Lag
       /\ Active(h) /\ hosts[h].shown # hosts[h].hold => clock <= hosts[h].tagged + Lag
       /\ hosts[h].leaving => h \in ToSet(Bursts)
       /\ hosts[h].leaving => hosts[h].state = "running"
  BY <1>1, PoolNats DEF Deadlines
<1> DEFINE TimeOk == begun' \in Nat /\ clock' <= Due' + Delay /\ Due' - Period <= clock'
           TickOk(t) == ticks'[t].pc # "idle" => ticks'[t].now \in Nat /\ ticks'[t].now <= clock' /\ clock' <= ticks'[t].now + Lag
           HostOk(h) == /\ hosts'[h].hold \in Nat /\ hosts'[h].shown \in Nat /\ hosts'[h].tagged \in Nat /\ hosts'[h].tagged <= clock'
                        /\ hosts'[h].state \in {"pending", "stopping"} \/ hosts'[h].leaving => clock' <= hosts'[h].since + Lag
                        /\ hosts'[h].state \in {"pending", "running"} /\ hosts'[h].shown # hosts'[h].hold => clock' <= hosts'[h].tagged + Lag
                        /\ hosts'[h].leaving => h \in ToSet(Bursts)
<1>4. ASSUME clock' = clock, NEW h \in HostIds, hosts'[h] = hosts[h] PROVE HostOk(h)
  BY <1>3, <1>4 DEF Active
<1>5. ASSUME clock' = clock, NEW t \in Invocations, ticks'[t] = ticks[t] PROVE TickOk(t)
  BY <1>2, <1>5
<1>6. ASSUME clock' = clock, begun' = begun PROVE TimeOk
  BY <1>2, <1>6, DueFacts
<1>7. ASSUME clock' = clock, NEW t \in Invocations, NEW holds, NEW starts, ticks[t].pc # "idle", LeftAs(t, holds, starts), OneTick(t)
      PROVE  \A s \in Invocations : TickOk(s)
  <2>1. TickOk(t)
    BY <1>2, <1>7 DEF LeftAs
  <2> QED BY <2>1, <1>5, <1>7 DEF OneTick
<1>8. TimeOk /\ (\A t \in Invocations : TickOk(t)) /\ \A h \in HostIds : HostOk(h)
  <2>1. CASE Elapses
    <3>1. TimeOk
      BY <1>2, <2>1, DueFacts, PoolTimes DEF Elapses
    <3>2. \A t \in Invocations : TickOk(t)
      BY <1>2, <2>1, PoolTimes DEF Elapses, SameTicks
    <3>3. \A h \in HostIds : HostOk(h)
      BY <1>2, <1>3, <2>1, PoolTimes DEF Elapses, SameHosts, Active
    <3> QED BY <3>1, <3>2, <3>3
  <2>2. CASE Disturbs
    <3>1. clock' = clock /\ begun' = begun
      BY <2>2 DEF Disturbs
    <3>2. \A t \in Invocations : TickOk(t)
      BY <1>2, <2>2 DEF Disturbs
    <3>3. ASSUME NEW h \in HostIds PROVE HostOk(h)
      <4>1. CASE hosts'[h] = hosts[h]
        BY <1>4, <3>1, <4>1
      <4>2. CASE hosts[h].state = "running" /\ ~hosts[h].leaving /\ Becomes(h, "stopping")
        BY <1>2, <1>3, <3>1, <4>2, PoolTimes DEF Becomes
      <4> QED BY <2>2, <4>1, <4>2 DEF Disturbs
    <3> QED BY <1>6, <3>1, <3>2, <3>3
  <2>3. ASSUME clock' = clock, NEW t \in Invocations, Loads(t) PROVE TimeOk /\ (\A s \in Invocations : TickOk(s)) /\ \A h \in HostIds : HostOk(h)
    <3>1. TimeOk
      <4>1. begun' \in Nat /\ Due' = Due + Period /\ Due <= clock
        BY <1>2, <2>3, DueFacts DEF Loads
      <4> QED BY <4>1, <1>2, <2>3, PoolTimes
    <3>2. TickOk(t)
      BY <1>2, <2>3, PoolTimes DEF Loads
    <3> QED BY <1>4, <1>5, <2>3, <3>1, <3>2 DEF Loads, OneTick, SameHosts
  <2>4. ASSUME clock' = clock, NEW t \in Invocations, Snaps(t) PROVE TimeOk /\ (\A s \in Invocations : TickOk(s)) /\ \A h \in HostIds : HostOk(h)
    <3>1. \A s \in Invocations : TickOk(s)
      BY <1>7, <2>4 DEF Snaps
    <3> QED BY <1>4, <1>6, <2>4, <3>1 DEF Snaps, SameHosts
  <2>5. ASSUME clock' = clock, NEW t \in Invocations, Tags(t) PROVE TimeOk /\ (\A s \in Invocations : TickOk(s)) /\ \A h \in HostIds : HostOk(h)
    <3>1. PICK first \in ticks[t].holds :
       /\ LeftAs(t, {g \in ticks[t].holds : g.until # first.until}, ticks[t].starts)
       /\ \A h \in HostIds : TaggedTo(h, first.until) \/ hosts'[h] = hosts[h]
      BY <2>5 DEF Tags
    <3>2. first.until \in Nat
      BY <1>1, <2>5, <3>1 DEF TicksKnow, Tags
    <3>3. \A s \in Invocations : TickOk(s)
      BY <1>7, <2>5, <3>1 DEF Tags
    <3>4. ASSUME NEW h \in HostIds, TaggedTo(h, first.until) PROVE HostOk(h)
      BY <1>2, <1>3, <2>5, <3>2, <3>4, PoolTimes DEF TaggedTo, Active
    <3> QED BY <1>4, <1>6, <2>5, <3>1, <3>3, <3>4 DEF Tags
  <2>6. ASSUME clock' = clock, NEW t \in Invocations, Launches(t) PROVE TimeOk /\ (\A s \in Invocations : TickOk(s)) /\ \A h \in HostIds : HostOk(h)
    <3>1. \A s \in Invocations : TickOk(s)
      BY <1>7, <2>6 DEF Launches
    <3>2. ASSUME NEW h \in HostIds, Launched(h) PROVE HostOk(h)
      BY <1>2, <1>3, <2>6, <3>2, PoolTimes DEF Launched
    <3>3. \A h \in HostIds : Launched(h) \/ hosts'[h] = hosts[h]
      BY <2>6 DEF Launches
    <3> QED BY <1>4, <1>6, <2>6, <3>1, <3>2, <3>3 DEF Launches
  <2>7. ASSUME clock' = clock, NEW h \in HostIds, OneMove(h) PROVE TimeOk /\ (\A s \in Invocations : TickOk(s)) /\ \A k \in HostIds : HostOk(k)
    <3>1. \A s \in Invocations : TickOk(s)
      BY <1>5, <2>7 DEF OneMove, SameTicks
    <3>2. Moves(h)
      BY <2>7 DEF OneMove
    <3>3. HostOk(h)
      <4>1. CASE hosts[h].state = "pending" /\ Becomes(h, "running")
        BY <1>2, <1>3, <2>7, <4>1 DEF Becomes, Active
      <4>2. CASE \E state \in {"stopping", "stopped"} : Becomes(h, state)
        BY <1>2, <1>3, <2>7, <4>2, PoolTimes DEF Becomes
      <4>3. CASE /\ Active(h) /\ hosts[h].shown # hosts[h].hold
                 /\ hosts'[h].state = hosts[h].state /\ hosts'[h].since = hosts[h].since /\ hosts'[h].leaving = hosts[h].leaving
                 /\ hosts'[h].hold = hosts[h].hold /\ hosts'[h].tagged = hosts[h].tagged /\ hosts'[h].shown = hosts[h].hold
        BY <1>2, <1>3, <2>7, <4>3
      <4>4. CASE /\ h \in ToSet(Bursts) /\ hosts[h].state = "running" /\ hosts'[h].state = "running" /\ hosts'[h].since = clock
                 /\ hosts'[h].hold = hosts[h].hold /\ hosts'[h].tagged = hosts[h].tagged /\ hosts'[h].shown = hosts[h].shown
        BY <1>2, <1>3, <2>7, <4>4, PoolTimes DEF Active
      <4> QED BY <3>2, <4>1, <4>2, <4>3, <4>4, Zenon DEF Moves
    <3> QED BY <1>4, <1>6, <2>7, <3>1, <3>3 DEF OneMove
  <2>8. CASE clock' = clock /\ Rests
    BY <1>4, <1>5, <1>6, <2>8 DEF Rests, SameHosts, SameTicks
  <2> QED BY <2>1, <2>2, <2>3, <2>4, <2>5, <2>6, <2>7, <2>8, Zenon DEF StepKind
<1> QED BY <1>8 DEF Deadlines, Active

LEMMA KnowledgeHolds ==
  ASSUME DemandIInv, StepKind
  PROVE  TicksKnow'
<1>1. PoolIInv /\ Deadlines /\ TicksKnow
  BY DEF DemandIInv
<1>2. /\ clock \in Nat /\ wantedFor \in Nat /\ wantedFor <= clock /\ Needed \in Nat
      /\ \A t \in Invocations : ticks[t].pc # "idle" => ticks[t].now \in Nat /\ ticks[t].now <= clock
  BY <1>1, PoolNats, NeedFacts DEF Deadlines
<1> DEFINE Knows(t) ==
      /\ ticks'[t].pc = "hosts" => ticks'[t].contest \in Nat
      /\ ticks'[t].pc = "act" => \A g \in ticks'[t].holds : g.until \in Nat /\ g.host \in ToSet(Bursts)
      /\ ticks'[t].pc = "hosts" /\ ticks'[t].now > wantedFor' => ticks'[t].contest = Needed' /\ ticks'[t].work = work'
      /\ ticks'[t].pc = "act" /\ ticks'[t].now > wantedFor' => \A g \in ticks'[t].holds :
           IF Needed' # 0 THEN g.until >= Needed' ELSE g.until = ticks'[t].now + FallbackHold
<1>3. ASSUME NEW t \in Invocations, ticks'[t] = ticks[t],
             (wantedFor' = wantedFor /\ Needed' = Needed /\ work' = work) \/ wantedFor' \in {clock, clock'},
             clock' \in {clock, clock + 1}
      PROVE  Knows(t)
  <2>1. CASE wantedFor' = wantedFor /\ Needed' = Needed /\ work' = work
    BY <1>1, <1>3, <2>1 DEF TicksKnow
  <2>2. CASE wantedFor' \in {clock, clock'}
    <3>1. ticks[t].pc # "idle" => ~(ticks[t].now > wantedFor')
      BY <1>2, <1>3, <2>2
    <3> QED BY <1>1, <1>3, <3>1 DEF TicksKnow
  <2> QED BY <1>3, <2>1, <2>2
<1>4. ASSUME clock' = clock, SameDemand, NEW t \in Invocations, OneTick(t), Knows(t) PROVE \A s \in Invocations : Knows(s)
  <2>1. wantedFor' = wantedFor /\ Needed' = Needed /\ work' = work
    BY <1>4 DEF SameDemand
  <2>2. \A s \in Invocations : s # t => Knows(s)
    BY <1>3, <1>4, <2>1 DEF OneTick
  <2> QED BY <1>4, <2>2
<1>5. ASSUME NEW t \in Invocations, NEW holds, NEW starts, ticks[t].pc = "act", LeftAs(t, holds, starts), holds \subseteq ticks[t].holds,
             SameDemand
      PROVE  Knows(t)
  BY <1>1, <1>5 DEF TicksKnow, LeftAs, SameDemand
<1>6. \A t \in Invocations : Knows(t)
  <2>1. CASE Elapses
    <3>1. clock' = clock + 1 /\ ((wantedFor' = wantedFor /\ Needed' = Needed /\ work' = work) \/ wantedFor' = clock')
      BY <2>1 DEF Elapses
    <3> QED BY <1>3, <2>1, <3>1 DEF Elapses, SameTicks
  <2>2. CASE Disturbs
    <3>1. clock' = clock /\ wantedFor' = clock
      BY <2>2 DEF Disturbs
    <3>2. ASSUME NEW t \in Invocations, ticks'[t].pc = "idle" PROVE Knows(t)
      BY <3>2
    <3>3. ASSUME NEW t \in Invocations, ticks'[t] = ticks[t] PROVE Knows(t)
      BY <1>3, <3>1, <3>3
    <3> QED BY <2>2, <3>2, <3>3 DEF Disturbs
  <2>3. ASSUME clock' = clock, SameDemand, NEW t \in Invocations, Loads(t) PROVE \A s \in Invocations : Knows(s)
    <3>1. Knows(t)
      BY <1>2, <2>3 DEF Loads, SameDemand
    <3> QED BY <1>4, <2>3, <3>1 DEF Loads
  <2>4. ASSUME clock' = clock, SameDemand, NEW t \in Invocations, Snaps(t) PROVE \A s \in Invocations : Knows(s)
    <3>1. PICK d : d = ticks[t]
      OBVIOUS
    <3>2. /\ d.pc = "hosts" /\ d.contest \in Nat /\ d.now \in Nat
          /\ d.now > wantedFor => d.contest = Needed /\ d.work = work
      BY <1>1, <1>2, <2>4, <3>1 DEF Snaps, TicksKnow
    <3>3. PICK holds, starts : holds = PlanHolds(d) /\ starts = PlanStarts(d)
      OBVIOUS
    <3>4. LeftAs(t, holds, starts)
      BY <2>4, <3>1, <3>3 DEF Snaps
    <3>5. ASSUME NEW g \in holds
          PROVE  /\ g.until \in Nat /\ g.host \in ToSet(Bursts)
                 /\ d.now > wantedFor => IF Needed # 0 THEN g.until >= Needed ELSE g.until = d.now + FallbackHold
      <4>1. g.host \in ToSet(Bursts) /\ g.until = Wanted(d)[g.host] /\ g.until > hosts[g.host].hold
        BY <3>2, <3>3, HoldsFacts
      <4>2. hosts[g.host].hold \in Nat
        BY <1>1, <4>1, HostsAreTwoRoles DEF Deadlines
      <4>3. Wanted(d)[g.host] \in Nat /\ Wanted(d)[g.host] >= d.contest /\ Wanted(d)[g.host] \in {d.contest, d.now + FallbackHold}
        BY <3>2, <4>1, WantedFacts
      <4> QED BY <1>2, <3>2, <4>1, <4>2, <4>3
    <3>6. Needed' = Needed /\ wantedFor' = wantedFor /\ work' = work
      BY <2>4 DEF SameDemand
    <3>7. Knows(t)
      BY <3>1, <3>4, <3>5, <3>6 DEF LeftAs
    <3> QED BY <1>4, <2>4, <3>7 DEF Snaps
  <2>5. ASSUME clock' = clock, SameDemand, NEW t \in Invocations, Tags(t) PROVE \A s \in Invocations : Knows(s)
    <3>1. PICK first \in ticks[t].holds : LeftAs(t, {g \in ticks[t].holds : g.until # first.until}, ticks[t].starts)
      BY <2>5 DEF Tags
    <3>2. {g \in ticks[t].holds : g.until # first.until} \subseteq ticks[t].holds /\ ticks[t].pc = "act"
      BY <2>5 DEF Tags
    <3>3. Knows(t)
      BY <1>5, <2>5, <3>1, <3>2
    <3> QED BY <1>4, <2>5, <3>3 DEF Tags
  <2>6. ASSUME clock' = clock, SameDemand, NEW t \in Invocations, Launches(t) PROVE \A s \in Invocations : Knows(s)
    <3>1. Knows(t)
      BY <1>5, <2>6 DEF Launches
    <3> QED BY <1>4, <2>6, <3>1 DEF Launches
  <2>7. ASSUME clock' = clock, SameDemand, SameTicks PROVE \A s \in Invocations : Knows(s)
    <3>1. wantedFor' = wantedFor /\ Needed' = Needed /\ work' = work
      BY <2>7 DEF SameDemand
    <3> QED BY <1>3, <2>7, <3>1 DEF SameTicks
  <2>8. \A h \in HostIds : OneMove(h) => SameTicks
    BY DEF OneMove
  <2>9. Rests => SameTicks
    BY DEF Rests
  <2> QED BY <2>1, <2>2, <2>3, <2>4, <2>5, <2>6, <2>7, <2>8, <2>9, Zenon DEF StepKind
<1> HIDE DEF Knows
<1> QED
  <2>1. \A t \in Invocations :
      /\ ticks'[t].pc = "hosts" => ticks'[t].contest \in Nat
      /\ ticks'[t].pc = "act" => \A g \in ticks'[t].holds : g.until \in Nat /\ g.host \in ToSet(Bursts)
      /\ ticks'[t].pc = "hosts" /\ ticks'[t].now > wantedFor' => ticks'[t].contest = Needed' /\ ticks'[t].work = work'
      /\ ticks'[t].pc = "act" /\ ticks'[t].now > wantedFor' => \A g \in ticks'[t].holds :
           IF Needed' # 0 THEN g.until >= Needed' ELSE g.until = ticks'[t].now + FallbackHold
    BY <1>6, Zenon DEF Knows
  <2> QED BY <2>1, Zenon DEF TicksKnow

LEMMA StartsStayHeld ==
  ASSUME DemandIInv, StepKind
  PROVE  StartsAreHeld'
<1>1. PoolIInv /\ Deadlines /\ TicksKnow /\ StartsAreHeld
  BY DEF DemandIInv
<1>2. /\ clock \in Nat /\ wantedFor \in Nat /\ wantedFor <= clock /\ Needed \in Nat /\ Lag \in Nat /\ FallbackHold \in Nat
      /\ \A t \in Invocations : ticks[t].pc # "idle" => ticks[t].now \in Nat /\ ticks[t].now <= clock /\ clock <= ticks[t].now + Lag
      /\ \A h \in HostIds : hosts[h].hold \in Nat
  BY <1>1, PoolNats, NeedFacts, PoolTimes DEF Deadlines
<1> DEFINE Named(t, h) == \E g \in ticks'[t].holds : g.host = h
           IsHeld(t, h) == IF Needed' # 0 THEN hosts'[h].hold >= Needed' ELSE hosts'[h].hold + Lag >= ticks'[t].now + FallbackHold
           Fine(t) == ticks'[t].pc = "act" /\ ticks'[t].now > wantedFor' + Lag =>
             \A h \in ToSet(ticks'[t].starts) \cap ToSet(Bursts) : Named(t, h) \/ IsHeld(t, h)
<1>3. ASSUME NEW t \in Invocations, ticks'[t] = ticks[t], wantedFor' \in {clock, clock'}, clock' \in {clock, clock + 1} PROVE Fine(t)
  BY <1>2, <1>3
\* Holds that do not become shorter.
<1>4. ASSUME SameDemand, NEW t \in Invocations, ticks'[t] = ticks[t],
             \A h \in ToSet(Bursts) : hosts'[h].hold = hosts[h].hold PROVE Fine(t)
  BY <1>1, <1>4 DEF SameDemand, StartsAreHeld, HeldFor
<1>6. \A t \in Invocations : Fine(t)
  <2>1. CASE Elapses
    <3>1. CASE wantedFor' = clock'
      BY <1>3, <2>1, <3>1 DEF Elapses, SameTicks
    <3>2. CASE wantedFor' # clock'
      <4>1. SameDemand
        BY <2>1, <3>2 DEF Elapses, SameDemand
      <4> QED BY <1>4, <2>1, <4>1, HostsAreTwoRoles DEF Elapses, SameTicks, SameHosts
    <3> QED BY <3>1, <3>2
  <2>2. CASE Disturbs
    <3>1. ASSUME NEW t \in Invocations, ticks'[t].pc = "idle" PROVE Fine(t)
      BY <3>1
    <3> QED BY <1>3, <2>2, <3>1 DEF Disturbs
  <2>3. ASSUME clock' = clock, SameDemand, NEW t \in Invocations, Loads(t) PROVE \A s \in Invocations : Fine(s)
    <3>1. Fine(t)
      BY <2>3 DEF Loads
    <3> QED BY <1>4, <2>3, <3>1, HostsAreTwoRoles DEF Loads, OneTick, SameHosts
  <2>4. ASSUME clock' = clock, SameDemand, NEW t \in Invocations, Snaps(t) PROVE \A s \in Invocations : Fine(s)
    <3>1. PICK d : d = ticks[t]
      OBVIOUS
    <3>2. /\ d.pc = "hosts" /\ d.contest \in Nat /\ d.now \in Nat
          /\ d.now > wantedFor => d.contest = Needed /\ d.work = work
      BY <1>1, <1>2, <2>4, <3>1 DEF Snaps, TicksKnow
    <3>3. PICK holds, starts : holds = PlanHolds(d) /\ starts = PlanStarts(d)
      OBVIOUS
    <3>4. LeftAs(t, holds, starts) /\ OneTick(t)
      BY <2>4, <3>1, <3>3 DEF Snaps
    <3>5. ASSUME NEW h \in ToSet(starts) \cap ToSet(Bursts), d.now > wantedFor
          PROVE  (\E g \in holds : g.host = h) \/ (IF Needed # 0 THEN hosts[h].hold >= Needed ELSE hosts[h].hold >= d.now + FallbackHold)
      <4>1. h \in Startable /\ Wanted(d)[h] > 0
        BY <3>3, <3>5, StartsFacts, HostsAreTwoRoles
      <4>2. CanStart(h) /\ hosts[h].hold \in Nat
        BY <1>2, <4>1 DEF Startable
      <4>3. (\E g \in holds : g.host = h) \/ ~(Wanted(d)[h] > hosts[h].hold)
        BY <3>2, <3>3, <3>5, <4>2, HoldsFacts
      <4>4. Wanted(d)[h] \in Nat /\ Wanted(d)[h] >= d.contest /\ Wanted(d)[h] \in {d.contest, d.now + FallbackHold}
        BY <3>2, <3>5, WantedFacts
      <4> QED BY <1>2, <3>2, <3>5, <4>1, <4>2, <4>3, <4>4
    <3>6. Needed' = Needed /\ wantedFor' = wantedFor /\ \A h \in ToSet(Bursts) : hosts'[h] = hosts[h]
      BY <2>4, HostsAreTwoRoles DEF SameDemand, Snaps, SameHosts
    <3>7. Fine(t)
      <4> SUFFICES ASSUME ticks'[t].pc = "act", ticks'[t].now > wantedFor' + Lag, NEW h \in ToSet(ticks'[t].starts) \cap ToSet(Bursts)
                   PROVE  Named(t, h) \/ IsHeld(t, h)
        OBVIOUS
      <4>1. ticks'[t].now = d.now /\ ticks'[t].holds = holds /\ ticks'[t].starts = starts
        BY <3>1, <3>4 DEF LeftAs
      <4>2. d.now > wantedFor /\ h \in ToSet(starts) \cap ToSet(Bursts)
        BY <1>2, <3>2, <3>6, <4>1
      <4>3. hosts[h].hold \in Nat /\ hosts'[h] = hosts[h]
        BY <1>2, <3>6, HostsAreTwoRoles
      <4> QED BY <1>2, <3>2, <3>5, <3>6, <4>1, <4>2, <4>3
    <3> QED BY <1>4, <2>4, <3>4, <3>6, <3>7 DEF OneTick
  <2>5. ASSUME clock' = clock, SameDemand, NEW t \in Invocations, Tags(t) PROVE \A s \in Invocations : Fine(s)
    <3>1. PICK first \in ticks[t].holds :
       /\ LeftAs(t, {g \in ticks[t].holds : g.until # first.until}, ticks[t].starts)
       /\ \A h \in HostIds : IF \E g \in ticks[t].holds : g.until = first.until /\ g.host = h
                             THEN TaggedTo(h, first.until) ELSE hosts'[h] = hosts[h]
      BY <2>5 DEF Tags
    <3>2. ticks[t].pc = "act" /\ first.until \in Nat
      BY <1>1, <2>5 DEF Tags, TicksKnow
    <3>3. Needed' = Needed /\ wantedFor' = wantedFor
      BY <2>5 DEF SameDemand
    <3>4. ASSUME NEW h \in ToSet(Bursts) PROVE hosts'[h].hold = hosts[h].hold \/ hosts'[h].hold = first.until
      BY <3>1, HostsAreTwoRoles DEF TaggedTo
    <3>5. ASSUME NEW s \in Invocations, ticks[s].pc = "act", ticks[s].now > wantedFor + Lag, NEW h \in ToSet(ticks[s].starts) \cap ToSet(Bursts)
          PROVE  \/ hosts'[h].hold = hosts[h].hold
                 \/ IF Needed # 0 THEN hosts'[h].hold >= Needed ELSE hosts'[h].hold + Lag >= ticks[s].now + FallbackHold
      <4>1. ticks[t].now > wantedFor /\ ticks[t].now + Lag >= ticks[s].now /\ ticks[t].now \in Nat /\ ticks[s].now \in Nat
        BY <1>2, <3>2, <3>5
      <4>2. IF Needed # 0 THEN first.until >= Needed ELSE first.until = ticks[t].now + FallbackHold
        BY <1>1, <3>2, <4>1 DEF TicksKnow
      <4>3. hosts'[h].hold = hosts[h].hold \/ hosts'[h].hold = first.until
        BY <3>4, <3>5
      <4> QED BY <1>2, <3>2, <4>1, <4>2, <4>3
    <3>6. ASSUME NEW s \in Invocations, s # t PROVE Fine(s)
      <4>1. ticks'[s] = ticks[s]
        BY <2>5, <3>6 DEF Tags, OneTick
      <4>2. ASSUME ticks[s].pc = "act", ticks[s].now > wantedFor + Lag, NEW h \in ToSet(ticks[s].starts) \cap ToSet(Bursts)
            PROVE  Named(s, h) \/ IsHeld(s, h)
        <5>1. (\E g \in ticks[s].holds : g.host = h) \/ HeldFor(s, h)
          BY <1>1, <4>2 DEF StartsAreHeld
        <5> QED BY <3>3, <3>5, <4>1, <4>2, <5>1 DEF HeldFor
      <4> QED BY <3>3, <4>1, <4>2
    <3>7. Fine(t)
      <4> SUFFICES ASSUME ticks'[t].pc = "act", ticks'[t].now > wantedFor' + Lag, NEW h \in ToSet(ticks'[t].starts) \cap ToSet(Bursts)
                   PROVE  Named(t, h) \/ IsHeld(t, h)
        OBVIOUS
      <4>1. ticks'[t].now = ticks[t].now /\ ticks'[t].holds = {g \in ticks[t].holds : g.until # first.until} /\ ticks'[t].starts = ticks[t].starts
        BY <3>1 DEF LeftAs
      <4>2. ticks[t].now > wantedFor + Lag /\ h \in ToSet(ticks[t].starts) \cap ToSet(Bursts)
        BY <3>3, <4>1
      <4>3. (\E g \in ticks[t].holds : g.host = h) \/ HeldFor(t, h)
        BY <1>1, <3>2, <4>2 DEF StartsAreHeld
      <4>4. CASE \E g \in ticks[t].holds : g.host = h
        <5>1. PICK g \in ticks[t].holds : g.host = h
          BY <4>4
        <5>2. CASE g.until = first.until
          <6>1. hosts'[h].hold = first.until
            BY <3>1, <5>1, <5>2, HostsAreTwoRoles DEF TaggedTo
          <6>2. ticks[t].now > wantedFor /\ ticks[t].now \in Nat
            BY <1>2, <3>2, <4>2
          <6>3. IF Needed # 0 THEN first.until >= Needed ELSE first.until = ticks[t].now + FallbackHold
            BY <1>1, <3>2, <6>2 DEF TicksKnow
          <6> QED BY <1>2, <3>2, <3>3, <4>1, <6>1, <6>2, <6>3
        <5>3. CASE g.until # first.until
          BY <4>1, <5>1, <5>3
        <5> QED BY <5>2, <5>3
      <4>5. CASE HeldFor(t, h)
        BY <3>2, <3>3, <3>5, <4>1, <4>2, <4>5 DEF HeldFor
      <4> QED BY <4>3, <4>4, <4>5
    <3> QED BY <3>6, <3>7
  <2>6. ASSUME clock' = clock, SameDemand, NEW t \in Invocations, Launches(t) PROVE \A s \in Invocations : Fine(s)
    <3>1. \A h \in ToSet(Bursts) : hosts'[h].hold = hosts[h].hold
      BY <2>6, HostsAreTwoRoles DEF Launches, Launched
    <3>2. PICK q : q = ticks[t].starts
      OBVIOUS
    <3>3. ticks[t].pc = "act" /\ ticks[t].holds = {} /\ q # <<>> /\ LeftAs(t, {}, Tail(q))
      BY <2>6, <3>2 DEF Launches
    <3>4. q \in Seq(HostIds \ given.stale)
      BY <1>1, <3>2, <3>3 DEF PoolIInv, StartsMayRun
    <3>5. ToSet(Tail(q)) \subseteq ToSet(q)
      BY <3>3, <3>4 DEF ToSet
    <3>6. Fine(t)
      BY <1>1, <2>6, <3>1, <3>2, <3>3, <3>5 DEF LeftAs, SameDemand, StartsAreHeld, HeldFor
    <3> QED BY <1>4, <2>6, <3>1, <3>6 DEF Launches, OneTick
  <2>7. ASSUME clock' = clock, SameDemand, NEW h \in HostIds, OneMove(h) PROVE \A s \in Invocations : Fine(s)
    <3>1. Moves(h) => hosts'[h].hold = hosts[h].hold
      BY DEF Moves, Becomes
    <3>2. \A k \in ToSet(Bursts) : hosts'[k].hold = hosts[k].hold
      BY <2>7, <3>1, HostsAreTwoRoles DEF OneMove
    <3> QED BY <1>4, <2>7, <3>2 DEF OneMove, SameTicks
  <2>8. CASE SameDemand /\ Rests
    BY <1>4, <2>8, HostsAreTwoRoles DEF Rests, SameTicks, SameHosts
  <2> QED BY <2>1, <2>2, <2>3, <2>4, <2>5, <2>6, <2>7, <2>8, Zenon DEF StepKind
<1>7. \A t \in Invocations : ticks'[t].pc = "act" /\ ticks'[t].now > wantedFor' + Lag =>
       \A h \in ToSet(ticks'[t].starts) \cap ToSet(Bursts) : (\E g \in ticks'[t].holds : g.host = h)
         \/ (IF Needed' # 0 THEN hosts'[h].hold >= Needed' ELSE hosts'[h].hold + Lag >= ticks'[t].now + FallbackHold)
  BY <1>6
<1> QED BY <1>7, Zenon DEF StartsAreHeld, HeldFor

LEMMA DemandInitHolds == PoolInit => DemandIInv
<1> SUFFICES ASSUME PoolInit PROVE DemandIInv
  OBVIOUS
<1>1. PoolIInv
  BY PoolInitHolds
<1>2. \A t \in Invocations : ticks[t].pc = "idle"
  BY DEF PoolInit, NoTick
<1>3. Deadlines
  <2>1. begun = 0 /\ clock = 0 /\ Due = 0
    BY PoolTimes DEF PoolInit, Due
  <2>2. ASSUME NEW h \in HostIds
        PROVE  /\ hosts[h].hold = 0 /\ hosts[h].shown = 0 /\ hosts[h].tagged = 0 /\ ~hosts[h].leaving
               /\ hosts[h].state \in {"running", "stopped"}
    <3>1. hosts[h].leaving = FALSE /\ hosts[h].hold = 0 /\ hosts[h].shown = 0 /\ hosts[h].tagged = 0 /\ hosts[h].state \in {"running", "stopped"}
      BY DEF PoolInit
    <3>2. ~hosts[h].leaving
      BY <3>1, Zenon
    <3> QED BY <3>1, <3>2
  <2> QED BY <1>2, <2>1, <2>2, PoolTimes DEF Deadlines
<1> QED BY <1>1, <1>2, <1>3 DEF DemandIInv, TicksKnow, StartsAreHeld

LEMMA DemandStep ==
  ASSUME DemandIInv, [PoolNext]_poolVars
  PROVE  StepKind /\ DemandIInv'
<1>1. StepKind
  BY PoolSteps DEF DemandIInv, TicksKnow
<1>2. PoolIInv'
  BY PoolStepHolds DEF DemandIInv
<1> QED BY <1>1, <1>2, DeadlinesHold, KnowledgeHolds, StartsStayHeld DEF DemandIInv

-----------------------------------------------------------------------------
(***************************************************************************)
(* While contests need the hosts.  Until Quiet an invocation that is open  *)
(* may have read the old demand, or may be about to start a host without   *)
(* the hold it wants.  By TagBy the next one has read the demand, and its *)
(* tags are seen Lag after it tagged; a host that decided to stop before   *)
(* that is off by OffBy, and the invocation after that has started it    *)
(* Lag after StartBy.                                                        *)
(***************************************************************************)

Quiet   == wantedFor + 2 * Lag
TagBy   == Quiet + Period + Delay
OffBy   == TagBy + 4 * Lag
StartBy == OffBy + Period + Delay

\* An invocation that has read, or will read, that h is needed, and has not yet tagged it.
Covers(t, h) == ticks[t].pc = "hosts" \/ (ticks[t].pc = "act" /\ \E g \in ticks[t].holds : g.host = h)
IsStaying(h) ==
  /\ Active(h) /\ ~hosts[h].leaving /\ hosts[h].hold >= Needed
  /\ hosts[h].shown >= Needed \/ (hosts[h].shown # hosts[h].hold /\ hosts[h].tagged <= TagBy + Lag)
IsGoing(h) ==
  \/ hosts[h].leaving /\ hosts[h].since <= TagBy + 2 * Lag
  \/ hosts[h].state = "stopping" /\ hosts[h].since <= TagBy + 3 * Lag
  \/ hosts[h].state = "stopped"
HostsAreTagged ==
  Needed # 0 /\ clock > Quiet => \A h \in ToSet(Bursts) \ given.stale :
    \/ Due - Period <= Quiet
    \/ \E t \in Invocations : ticks[t].pc # "idle" /\ ticks[t].now <= TagBy /\ Covers(t, h)
    \/ IsStaying(h)
    \/ IsGoing(h)
\* An invocation that will start h.
Brings(t, h) == ticks[t].pc = "hosts" \/ (ticks[t].pc = "act" /\ h \in ToSet(ticks[t].starts))
HostsAreStarted ==
  Needed # 0 /\ clock > OffBy => \A h \in ToSet(Bursts) \ given.stale : hosts[h].state = "stopped" =>
    \/ Due - Period <= OffBy
    \/ \E t \in Invocations : ticks[t].pc # "idle" /\ ticks[t].now <= StartBy /\ Brings(t, h)

ContestIInv == DemandIInv /\ HostsAreTagged /\ HostsAreStarted

LEMMA WaitFacts ==
  ASSUME PoolIInv
  PROVE  /\ Quiet \in Nat /\ TagBy = Quiet + Period + Delay /\ OffBy = Quiet + Period + Delay + 4 * Lag
         /\ StartBy = Quiet + Period + Delay + 4 * Lag + Period + Delay /\ Quiet = wantedFor + 2 * Lag
         /\ wantedFor + Recovery = Quiet + Period + Delay + 4 * Lag + Period + Delay + Lag
BY PoolNats, PoolTimes DEF Quiet, TagBy, OffBy, StartBy, Recovery

\* After wantedFor no step is an event, and the demand stays.
LEMMA CalmSteps ==
  ASSUME DemandIInv, StepKind, clock' > wantedFor'
  PROVE  /\ SameDemand /\ ~Disturbs
         /\ (clock' = clock + 1 /\ Elapses) \/ clock' = clock
<1>1. wantedFor' # clock' /\ ~Disturbs
  <2>1. clock \in Nat /\ (clock' = clock + 1 \/ clock' = clock)
    BY PoolNats DEF DemandIInv, StepKind, Elapses, Disturbs
  <2>2. wantedFor' # clock'
    BY <2>1
  <2> QED BY <2>1, <2>2 DEF Disturbs
<1> QED BY <1>1 DEF StepKind, Elapses, SameDemand

LEMMA TaggingHolds ==
  ASSUME DemandIInv, HostsAreTagged, StepKind
  PROVE  HostsAreTagged'
<1> SUFFICES ASSUME Needed' # 0, clock' > Quiet', NEW h \in ToSet(Bursts) \ given'.stale
             PROVE  (\/ Due - Period <= Quiet
                     \/ \E t \in Invocations : ticks[t].pc # "idle" /\ ticks[t].now <= TagBy /\ Covers(t, h)
                     \/ IsStaying(h)
                     \/ IsGoing(h))'
  BY Zenon DEF HostsAreTagged
<1>1. PoolIInv /\ Deadlines /\ TicksKnow /\ StartsAreHeld
  BY DEF DemandIInv
<1>2. /\ clock \in Nat /\ wantedFor \in Nat /\ wantedFor <= clock /\ Needed \in Nat /\ (Needed # 0 => Needed > clock)
      /\ Period \in Nat /\ Delay \in Nat /\ Lag \in Nat /\ Grace \in Nat /\ Due \in Nat
      /\ clock <= Due + Delay /\ Due - Period <= clock
      /\ \A t \in Invocations : ticks[t].pc # "idle" => ticks[t].now \in Nat /\ ticks[t].now <= clock /\ clock <= ticks[t].now + Lag
  BY <1>1, PoolNats, NeedFacts, PoolTimes, DueFacts DEF Deadlines
<1>3. /\ Quiet \in Nat /\ TagBy \in Nat /\ Quiet = wantedFor + 2 * Lag /\ TagBy = Quiet + Period + Delay
  BY <1>1, <1>2, WaitFacts
<1>4. SameDemand /\ ~Disturbs /\ ((clock' = clock + 1 /\ Elapses) \/ clock' = clock)
  <2>1. clock' > wantedFor'
    <3>1. clock' \in Nat /\ wantedFor' \in Nat
      <4>1. (clock' = clock \/ clock' = clock + 1) /\ wantedFor' \in {wantedFor, clock, clock'}
        BY DEF StepKind, Elapses, Disturbs, SameDemand
      <4> QED BY <1>2, <4>1
    <3>2. clock' > wantedFor' + 2 * Lag
      BY Zenon DEF Quiet
    <3>3. \A a, b, c \in Nat : a > b + 2 * c => a > b
      OBVIOUS
    <3> QED BY <1>2, <3>1, <3>2, <3>3
  <2> QED BY <2>1, CalmSteps
<1>5. Needed' = Needed /\ wantedFor' = wantedFor /\ given' = given /\ work' = work /\ Quiet' = Quiet /\ TagBy' = TagBy
  BY <1>4 DEF SameDemand, Quiet, TagBy
<1>6. h \in ToSet(Bursts) /\ h \notin given.stale /\ h \in HostIds /\ Needed # 0 /\ clock' > Quiet
  BY <1>5, HostsAreTwoRoles
<1>7. /\ hosts[h].hold \in Nat /\ hosts[h].shown \in Nat /\ hosts[h].tagged \in Nat /\ hosts[h].tagged <= clock
      /\ hosts[h].since \in Nat /\ hosts[h].since <= clock
      /\ hosts[h].state \in {"pending", "stopping"} \/ hosts[h].leaving => clock <= hosts[h].since + Lag
      /\ Active(h) /\ hosts[h].shown # hosts[h].hold => clock <= hosts[h].tagged + Lag
      /\ hosts[h].leaving => hosts[h].state = "running"
      /\ hosts[h].state \in HostStates
  BY <1>1, <1>6, PoolNats DEF Deadlines
<1> DEFINE Early == Due' - Period <= Quiet
           Covered == \E t \in Invocations : ticks'[t].pc # "idle" /\ ticks'[t].now <= TagBy
                        /\ (ticks'[t].pc = "hosts" \/ (ticks'[t].pc = "act" /\ \E g \in ticks'[t].holds : g.host = h))
           Staying == /\ hosts'[h].state \in {"pending", "running"} /\ ~hosts'[h].leaving /\ hosts'[h].hold >= Needed
                      /\ hosts'[h].shown >= Needed \/ (hosts'[h].shown # hosts'[h].hold /\ hosts'[h].tagged <= TagBy + Lag)
           Going == \/ hosts'[h].leaving /\ hosts'[h].since <= TagBy + 2 * Lag
                    \/ hosts'[h].state = "stopping" /\ hosts'[h].since <= TagBy + 3 * Lag
                    \/ hosts'[h].state = "stopped"
<1>8. Early \/ Covered \/ Staying \/ Going
  <2>1. CASE clock <= Quiet
    <3>1. Elapses /\ Due' = Due
      BY <1>2, <1>3, <1>4, <1>6, <2>1, DueFacts DEF Elapses
    <3> QED BY <1>2, <1>3, <2>1, <3>1
  <2> SUFFICES ASSUME clock > Quiet PROVE Early \/ Covered \/ Staying \/ Going
    BY <1>2, <1>3, <2>1
  <2>2. \A t \in Invocations : ticks[t].pc # "idle" => ticks[t].now > wantedFor + Lag
    BY <1>2, <1>3
  <2>3. \/ Due - Period <= Quiet
        \/ \E t \in Invocations : ticks[t].pc # "idle" /\ ticks[t].now <= TagBy /\ Covers(t, h)
        \/ IsStaying(h)
        \/ IsGoing(h)
    BY <1>6 DEF HostsAreTagged
  <2>4. ASSUME hosts'[h] = hosts[h], IsStaying(h) \/ IsGoing(h) PROVE Staying \/ Going
    BY <2>4 DEF IsStaying, IsGoing, Active
  <2>5. ASSUME NEW t \in Invocations, ticks[t].pc # "idle", ticks[t].now <= TagBy, Covers(t, h), ticks'[t] = ticks[t] PROVE Covered
    BY <2>5 DEF Covers
  <2>6. ASSUME SameHosts, SameTicks, begun' = begun PROVE Early \/ Covered \/ Staying \/ Going
    <3>1. hosts'[h] = hosts[h] /\ Due' = Due /\ \A t \in Invocations : ticks'[t] = ticks[t]
      BY <1>6, <2>6, DueFacts DEF SameHosts, SameTicks
    <3> QED BY <2>3, <2>4, <2>5, <3>1
  <2>7. CASE Elapses
    BY <2>6, <2>7 DEF Elapses
  <2>8. ASSUME NEW t \in Invocations, Loads(t), clock' = clock PROVE Early \/ Covered \/ Staying \/ Going
    <3>1. hosts'[h] = hosts[h] /\ \A s \in Invocations : s # t => ticks'[s] = ticks[s]
      BY <1>6, <2>8 DEF Loads, SameHosts, OneTick
    <3>2. ticks[t].pc = "idle" /\ ticks'[t].pc = "hosts" /\ ticks'[t].now = clock
      BY <2>8 DEF Loads
    <3>3. CASE Due - Period <= Quiet
      <4>1. clock <= TagBy
        BY <1>2, <1>3, <3>3
      <4> QED BY <3>2, <4>1
    <3> QED BY <2>3, <2>4, <2>5, <3>1, <3>2, <3>3
  \* What an invocation does to the host it covers.
  <2>9. ASSUME NEW t \in Invocations, Snaps(t), clock' = clock PROVE Early \/ Covered \/ Staying \/ Going
    <3>1. hosts'[h] = hosts[h] /\ Due' = Due /\ \A s \in Invocations : s # t => ticks'[s] = ticks[s]
      BY <1>6, <2>9, DueFacts DEF Snaps, SameHosts, OneTick
    <3>2. PICK d : d = ticks[t]
      OBVIOUS
    <3>3. PICK holds, starts : holds = PlanHolds(d) /\ starts = PlanStarts(d)
      OBVIOUS
    <3>4. d.pc = "hosts" /\ LeftAs(t, holds, starts)
      BY <2>9, <3>2, <3>3 DEF Snaps
    <3>5. d.contest = Needed /\ d.now \in Nat /\ clock <= d.now + Lag
      BY <1>1, <1>2, <2>2, <3>2, <3>4 DEF TicksKnow
    <3>6. CASE d.now <= TagBy
      <4>1. CASE hosts[h].state = "stopped"
        BY <3>1, <4>1
      <4>2. CASE hosts[h].state = "stopping"
        BY <1>2, <1>3, <1>7, <3>1, <3>5, <3>6, <4>2
      <4>3. CASE hosts[h].leaving
        BY <1>2, <1>3, <1>7, <3>1, <3>5, <3>6, <4>3
      <4>4. CASE Active(h) /\ ~hosts[h].leaving
        <5>1. (\E g \in holds : g.host = h) \/ ~(Wanted(d)[h] > hosts[h].hold)
          BY <1>2, <1>6, <3>3, <3>5, <4>4, HoldsFacts
        <5>2. Wanted(d)[h] \in Nat /\ Wanted(d)[h] >= Needed
          BY <1>2, <1>6, <3>5, WantedFacts
        <5>3. CASE \E g \in holds : g.host = h
          <6>1. ticks'[t].pc = "act" /\ ticks'[t].now = d.now /\ ticks'[t].holds = holds
            BY <3>2, <3>4, <5>3 DEF LeftAs
          <6> QED BY <3>6, <5>3, <6>1
        <5>4. CASE ~(Wanted(d)[h] > hosts[h].hold)
          <6>1. hosts[h].hold >= Needed /\ hosts[h].tagged <= TagBy + Lag
            BY <1>2, <1>3, <1>7, <3>5, <3>6, <5>2, <5>4
          <6> QED BY <1>7, <3>1, <4>4, <6>1 DEF Active
        <5> QED BY <5>1, <5>3, <5>4
      <4> QED BY <1>7, <4>1, <4>2, <4>3, <4>4 DEF HostStates, Active
    <3>7. CASE ~(d.now <= TagBy)
      <4>1. \A s \in Invocations : ticks[s].now <= TagBy => s # t
        BY <3>2, <3>7
      <4> QED BY <2>3, <2>4, <2>5, <3>1, <4>1
    <3> QED BY <3>6, <3>7
  <2>10. ASSUME NEW t \in Invocations, Tags(t), clock' = clock PROVE Early \/ Covered \/ Staying \/ Going
    <3>1. PICK first \in ticks[t].holds :
       /\ LeftAs(t, {g \in ticks[t].holds : g.until # first.until}, ticks[t].starts)
       /\ \A k \in HostIds : IF \E g \in ticks[t].holds : g.until = first.until /\ g.host = k
                             THEN TaggedTo(k, first.until) ELSE hosts'[k] = hosts[k]
      BY <2>10 DEF Tags
    <3>2. ticks[t].pc = "act" /\ first.until \in Nat /\ first.until >= Needed /\ Due' = Due
          /\ \A s \in Invocations : s # t => ticks'[s] = ticks[s]
      <4>1. ticks[t].pc = "act" /\ ticks[t].now > wantedFor /\ begun' = begun
        BY <1>2, <2>2, <2>10 DEF Tags
      <4> QED BY <1>1, <1>6, <2>10, <4>1, DueFacts DEF TicksKnow, Tags, OneTick
    <3>3. CASE \E g \in ticks[t].holds : g.until = first.until /\ g.host = h
      <4>1. TaggedTo(h, first.until)
        BY <1>6, <3>1, <3>3
      <4>2. CASE ticks[t].now <= TagBy
        <5>1. clock <= TagBy + Lag
          BY <1>2, <1>3, <3>2, <4>2
        <5>2. CASE hosts[h].state = "stopped"
          BY <4>1, <5>2 DEF TaggedTo
        <5>3. CASE hosts[h].state = "stopping" \/ hosts[h].leaving
          BY <1>2, <1>3, <1>7, <4>1, <5>1, <5>3 DEF TaggedTo
        <5>4. CASE Active(h) /\ ~hosts[h].leaving
          BY <1>2, <1>3, <1>7, <3>2, <4>1, <5>1, <5>4 DEF TaggedTo, Active
        <5> QED BY <1>7, <5>2, <5>3, <5>4 DEF HostStates, Active
      <4>3. CASE ~(ticks[t].now <= TagBy)
        <5>1. CASE IsStaying(h)
          BY <1>2, <1>3, <1>7, <3>2, <4>1, <5>1 DEF TaggedTo, IsStaying, Active
        <5>2. CASE IsGoing(h)
          BY <4>1, <5>2 DEF TaggedTo, IsGoing
        <5>3. \A s \in Invocations : ticks[s].now <= TagBy => s # t
          BY <4>3
        <5> QED BY <2>3, <2>5, <3>2, <5>1, <5>2, <5>3
      <4> QED BY <4>2, <4>3
    <3>4. CASE ~\E g \in ticks[t].holds : g.until = first.until /\ g.host = h
      <4>1. hosts'[h] = hosts[h]
        BY <1>6, <3>1, <3>4
      <4>2. ASSUME ticks[t].now <= TagBy, Covers(t, h) PROVE Covered
        <5>1. PICK g \in ticks[t].holds : g.host = h
          BY <3>2, <4>2 DEF Covers
        <5>2. g \in {x \in ticks[t].holds : x.until # first.until}
          BY <3>4, <5>1
        <5>3. ticks'[t].pc = "act" /\ ticks'[t].now = ticks[t].now /\ ticks'[t].holds = {x \in ticks[t].holds : x.until # first.until}
          BY <3>1, <5>2 DEF LeftAs
        <5> QED BY <4>2, <5>1, <5>2, <5>3
      <4> QED BY <2>3, <2>4, <2>5, <3>2, <4>1, <4>2
    <3> QED BY <3>3, <3>4
  <2>11. ASSUME NEW t \in Invocations, Launches(t), clock' = clock PROVE Early \/ Covered \/ Staying \/ Going
    <3>1. /\ Due' = Due /\ ticks[t].pc = "act" /\ ticks[t].holds = {} /\ ticks[t].starts # <<>>
          /\ \A s \in Invocations : s # t => ticks'[s] = ticks[s]
      BY <2>11, DueFacts DEF Launches, OneTick
    <3>2. ~Covers(t, h)
      BY <3>1 DEF Covers
    <3>3. CASE hosts'[h] = hosts[h]
      BY <2>3, <2>4, <2>5, <3>1, <3>2, <3>3
    <3>4. CASE hosts'[h] # hosts[h]
      <4>1. h = Head(ticks[t].starts) /\ Launched(h)
        BY <1>6, <2>11, <3>4 DEF Launches
      <4>2. h \in ToSet(ticks[t].starts)
        <5>1. ticks[t].starts \in Seq(HostIds \ given.stale)
          BY <1>1, <3>1 DEF PoolIInv, StartsMayRun
        <5> QED BY <3>1, <4>1, <5>1 DEF ToSet
      <4>3. hosts[h].hold >= Needed
        BY <1>1, <1>6, <2>2, <3>1, <4>2 DEF StartsAreHeld, HeldFor
      <4>4. ~hosts[h].leaving
        BY <1>7, <4>1 DEF Launched
      <4> QED BY <4>1, <4>3, <4>4 DEF Launched
    <3> QED BY <3>3, <3>4
  <2>12. ASSUME NEW k \in HostIds, OneMove(k), clock' = clock PROVE Early \/ Covered \/ Staying \/ Going
    <3>1. Due' = Due /\ (\A s \in Invocations : ticks'[s] = ticks[s]) /\ (k # h => hosts'[h] = hosts[h]) /\ (k = h => Moves(h))
      BY <1>6, <2>12, DueFacts DEF OneMove, SameTicks
    <3>2. CASE k # h
      BY <2>3, <2>4, <2>5, <3>1, <3>2
    <3>3. ASSUME Moves(h), IsStaying(h) PROVE Staying \/ Going
      <4>1. CASE hosts[h].state = "pending" /\ Becomes(h, "running")
        BY <3>3, <4>1 DEF Becomes, IsStaying
      <4>2. CASE hosts'[h].leaving /\ hosts'[h].since = clock /\ clock >= hosts[h].shown + Grace
        BY <1>2, <1>3, <1>6, <1>7, <3>3, <4>2 DEF IsStaying
      <4>3. CASE hosts'[h].shown = hosts[h].hold /\ hosts'[h].hold = hosts[h].hold /\ hosts'[h].state = hosts[h].state /\ hosts'[h].leaving = hosts[h].leaving
        BY <3>3, <4>3 DEF IsStaying, Active
      <4>4. hosts[h].state \in {"pending", "running"} /\ ~hosts[h].leaving
        BY <3>3 DEF IsStaying, Active
      <4> QED BY <3>3, <4>1, <4>2, <4>3, <4>4 DEF Moves
    <3>4. ASSUME Moves(h), IsGoing(h) PROVE Staying \/ Going
      <4>1. CASE hosts[h].leaving /\ Becomes(h, "stopping")
        BY <1>2, <1>3, <1>7, <3>4, <4>1 DEF Becomes, IsGoing
      <4>2. CASE hosts[h].state = "stopping" /\ Becomes(h, "stopped")
        BY <4>2 DEF Becomes
      <4>3. CASE /\ Active(h) /\ hosts'[h].state = hosts[h].state /\ hosts'[h].since = hosts[h].since /\ hosts'[h].leaving = hosts[h].leaving
        BY <3>4, <4>3 DEF IsGoing, Active
      <4>4. hosts[h].leaving \/ hosts[h].state \in {"stopping", "stopped"}
        BY <3>4 DEF IsGoing
      <4> QED BY <1>7, <3>4, <4>1, <4>2, <4>3, <4>4 DEF Moves
    <3> QED BY <2>3, <2>5, <3>1, <3>2, <3>3, <3>4
  <2>13. CASE Rests
    BY <2>6, <2>13 DEF Rests
  <2> HIDE DEF Early, Covered, Staying, Going
  <2> QED BY <1>4, <2>7, <2>8, <2>9, <2>10, <2>11, <2>12, <2>13, Zenon DEF StepKind
<1> QED BY <1>5, <1>8 DEF Covers, IsStaying, IsGoing, Active

\* Then a host that may judge is up and stays, or is off.
LEMMA TaggingDone ==
  ASSUME DemandIInv, HostsAreTagged, Needed # 0, clock > OffBy, NEW h \in ToSet(Bursts) \ given.stale
  PROVE  (Active(h) /\ ~hosts[h].leaving /\ hosts[h].hold >= Needed /\ hosts[h].shown >= Needed) \/ hosts[h].state = "stopped"
<1>1. PoolIInv /\ Deadlines
  BY DEF DemandIInv
<1>2. /\ clock \in Nat /\ Period \in Nat /\ Delay \in Nat /\ Lag \in Nat /\ Lag > 0 /\ Due \in Nat
      /\ clock <= Due + Delay
      /\ \A t \in Invocations : ticks[t].pc # "idle" => ticks[t].now \in Nat /\ ticks[t].now <= clock /\ clock <= ticks[t].now + Lag
  BY <1>1, PoolNats, NeedFacts, PoolTimes, DueFacts DEF Deadlines
<1>3. Quiet \in Nat /\ TagBy = Quiet + Period + Delay /\ OffBy = Quiet + Period + Delay + 4 * Lag
  BY <1>1, WaitFacts
<1>4. h \in HostIds
  BY HostsAreTwoRoles
<1>5. /\ hosts[h].tagged \in Nat /\ hosts[h].since \in Nat
      /\ hosts[h].state \in {"pending", "stopping"} \/ hosts[h].leaving => clock <= hosts[h].since + Lag
      /\ Active(h) /\ hosts[h].shown # hosts[h].hold => clock <= hosts[h].tagged + Lag
  BY <1>1, <1>4, PoolNats DEF Deadlines
<1>6. clock > Quiet + Period + Delay + 4 * Lag
  BY <1>3
<1>7. ~(Due - Period <= Quiet)
  BY <1>2, <1>3, <1>6
<1>8. ~\E t \in Invocations : ticks[t].pc # "idle" /\ ticks[t].now <= TagBy
  BY <1>2, <1>3, <1>6
<1>9. IsStaying(h) \/ IsGoing(h)
  <2>1. clock > Quiet
    BY <1>2, <1>3, <1>6
  <2> QED BY <1>7, <1>8, <2>1 DEF HostsAreTagged
<1>10. IsGoing(h) => hosts[h].state = "stopped"
  BY <1>2, <1>3, <1>5, <1>6 DEF IsGoing
<1>11. IsStaying(h) => Active(h) /\ ~hosts[h].leaving /\ hosts[h].hold >= Needed /\ hosts[h].shown >= Needed
  BY <1>2, <1>3, <1>5, <1>6 DEF IsStaying
<1> QED BY <1>9, <1>10, <1>11

\* Since b no invocation was due, or one that started in time will start h.
IsBrought(h, b) ==
  \/ Due - Period <= b
  \/ \E t \in Invocations : ticks[t].pc # "idle" /\ ticks[t].now <= b + Period + Delay /\ Brings(t, h)

\* The members of a sequence are still to come when another is taken from it.
LEMMA OthersRemain ==
  ASSUME NEW T, NEW q \in Seq(T), q # <<>>, NEW x \in ToSet(q), x # Head(q)
  PROVE  x \in ToSet(Tail(q)) /\ Tail(q) # <<>>
<1>1. PICK i \in DOMAIN q : q[i] = x
  BY DEF ToSet
<1>2. i \in 1..Len(q) /\ i # 1 /\ Head(q) = q[1] /\ Len(Tail(q)) = Len(q) - 1
  BY <1>1
<1>3. i - 1 \in DOMAIN Tail(q) /\ Tail(q)[i - 1] = x
  BY <1>1, <1>2
<1>4. x \in ToSet(Tail(q))
  BY <1>3 DEF ToSet
<1> QED BY <1>4 DEF ToSet

\* A stopped host that every snapshot starts is brought.
LEMMA BringingHolds ==
  ASSUME DemandIInv, StepKind, ~Disturbs, given' = given, NEW h \in HostIds \ given.stale, NEW b \in Nat, clock' > b,
         hosts[h].state = "stopped", hosts'[h].state = "stopped",
         clock > b => IsBrought(h, b),
         \A t \in Invocations : ticks[t].pc = "hosts" /\ clock > b => h \in ToSet(PlanStarts(ticks[t]))
  PROVE  IsBrought(h, b)'
<1>1. PoolIInv /\ Deadlines
  BY DEF DemandIInv
<1>2. /\ clock \in Nat /\ Period \in Nat /\ Delay \in Nat /\ Lag \in Nat /\ Due \in Nat
      /\ clock <= Due + Delay /\ Due - Period <= clock
  BY <1>1, PoolNats, PoolTimes, DueFacts DEF Deadlines
<1> DEFINE Early == Due' - Period <= b
           Brought == \E t \in Invocations : ticks'[t].pc # "idle" /\ ticks'[t].now <= b + Period + Delay
                        /\ (ticks'[t].pc = "hosts" \/ (ticks'[t].pc = "act" /\ h \in ToSet(ticks'[t].starts)))
<1>3. Early \/ Brought
  <2>1. CASE clock <= b
    <3>1. Elapses
      <4>1. clock' # clock
        BY <1>2, <2>1
      <4> QED BY <4>1 DEF StepKind
    <3>2. Due' = Due
      BY <3>1, DueFacts DEF Elapses
    <3> QED BY <1>2, <2>1, <3>2
  <2> SUFFICES ASSUME clock > b PROVE Early \/ Brought
    BY <1>2, <2>1
  <2>2. \/ Due - Period <= b
        \/ \E t \in Invocations : ticks[t].pc # "idle" /\ ticks[t].now <= b + Period + Delay /\ Brings(t, h)
    BY DEF IsBrought
  <2>3. ASSUME NEW t \in Invocations, ticks[t].pc # "idle", ticks[t].now <= b + Period + Delay, Brings(t, h), ticks'[t] = ticks[t]
        PROVE  Brought
    BY <2>3 DEF Brings
  <2>4. ASSUME SameTicks, begun' = begun PROVE Early \/ Brought
    <3>1. Due' = Due /\ \A t \in Invocations : ticks'[t] = ticks[t]
      BY <2>4, DueFacts DEF SameTicks
    <3> QED BY <2>2, <2>3, <3>1
  \* An invocation that brings h still does.
  <2>5. ASSUME NEW t \in Invocations, OneTick(t), begun' = begun,
               ticks[t].pc # "idle" /\ ticks[t].now <= b + Period + Delay /\ Brings(t, h) =>
                 ticks'[t].pc = "act" /\ ticks'[t].now = ticks[t].now /\ h \in ToSet(ticks'[t].starts)
        PROVE  Early \/ Brought
    <3>1. Due' = Due /\ \A s \in Invocations : s # t => ticks'[s] = ticks[s]
      BY <2>5, DueFacts DEF OneTick
    <3>2. CASE Due - Period <= b
      BY <3>1, <3>2
    <3>3. ASSUME NEW s \in Invocations, ticks[s].pc # "idle" /\ ticks[s].now <= b + Period + Delay /\ Brings(s, h) PROVE Brought
      <4>1. CASE s = t
        BY <2>5, <3>3, <4>1
      <4>2. CASE s # t
        BY <2>3, <3>1, <3>3, <4>2
      <4> QED BY <4>1, <4>2
    <3> QED BY <2>2, <3>2, <3>3
  <2>6. CASE Elapses
    BY <2>4, <2>6 DEF Elapses
  <2>7. ASSUME NEW t \in Invocations, Loads(t) PROVE Early \/ Brought
    <3>1. \A s \in Invocations : s # t => ticks'[s] = ticks[s]
      BY <2>7 DEF Loads, OneTick
    <3>2. ticks[t].pc = "idle" /\ ticks'[t].pc = "hosts" /\ ticks'[t].now = clock
      BY <2>7 DEF Loads
    <3>3. CASE Due - Period <= b
      <4>1. clock <= b + Period + Delay
        BY <1>2, <3>3
      <4> QED BY <3>2, <4>1
    <3> QED BY <2>2, <2>3, <3>1, <3>2, <3>3
  <2>8. ASSUME NEW t \in Invocations, Snaps(t) PROVE Early \/ Brought
    <3>1. PICK holds, starts : holds = PlanHolds(ticks[t]) /\ starts = PlanStarts(ticks[t])
      OBVIOUS
    <3>2. LeftAs(t, holds, starts) /\ OneTick(t) /\ begun' = begun /\ ticks[t].pc = "hosts"
      BY <2>8, <3>1 DEF Snaps
    <3>3. h \in ToSet(starts)
      BY <3>1, <3>2
    <3>4. ticks'[t].pc = "act" /\ ticks'[t].now = ticks[t].now /\ h \in ToSet(ticks'[t].starts)
      BY <3>2, <3>3 DEF LeftAs, ToSet
    <3> QED BY <2>5, <3>2, <3>4
  <2>9. ASSUME NEW t \in Invocations, Tags(t) PROVE Early \/ Brought
    <3>1. PICK first \in ticks[t].holds : LeftAs(t, {g \in ticks[t].holds : g.until # first.until}, ticks[t].starts)
      BY <2>9 DEF Tags
    <3>2. ticks[t].pc = "act" /\ OneTick(t) /\ begun' = begun
      BY <2>9 DEF Tags
    <3>3. Brings(t, h) => h \in ToSet(ticks[t].starts)
      BY <3>2 DEF Brings
    <3>4. Brings(t, h) => ticks'[t].pc = "act" /\ ticks'[t].now = ticks[t].now /\ h \in ToSet(ticks'[t].starts)
      BY <3>1, <3>3 DEF LeftAs, ToSet
    <3> QED BY <2>5, <3>2, <3>4
  <2>10. ASSUME NEW t \in Invocations, Launches(t) PROVE Early \/ Brought
    <3>1. PICK q : q = ticks[t].starts
      OBVIOUS
    <3>2. ticks[t].pc = "act" /\ q # <<>> /\ LeftAs(t, {}, Tail(q)) /\ OneTick(t) /\ begun' = begun
      BY <2>10, <3>1 DEF Launches
    <3>3. q \in Seq(HostIds \ given.stale)
      BY <1>1, <3>1, <3>2 DEF PoolIInv, StartsMayRun
    <3>4. h # Head(q)
      <4>1. h = Head(q) => Launched(h)
        BY <2>10, <3>1 DEF Launches
      <4> QED BY <4>1 DEF Launched
    <3>5. h \in ToSet(q) => h \in ToSet(Tail(q)) /\ Tail(q) # <<>>
      BY <3>2, <3>3, <3>4, OthersRemain
    <3>6. Brings(t, h) => h \in ToSet(q)
      BY <3>1, <3>2 DEF Brings
    <3>7. Brings(t, h) => ticks'[t].pc = "act" /\ ticks'[t].now = ticks[t].now /\ h \in ToSet(ticks'[t].starts)
      BY <3>2, <3>5, <3>6 DEF LeftAs
    <3> QED BY <2>5, <3>2, <3>7
  <2>11. ASSUME NEW k \in HostIds, OneMove(k) PROVE Early \/ Brought
    BY <2>4, <2>11 DEF OneMove
  <2>12. CASE Rests
    BY <2>4, <2>12 DEF Rests
  <2> HIDE DEF Early, Brought
  <2> QED BY <2>6, <2>7, <2>8, <2>9, <2>10, <2>11, <2>12, Zenon DEF StepKind
<1> QED BY <1>3 DEF IsBrought, Brings

LEMMA StartingHolds ==
  ASSUME DemandIInv, HostsAreTagged, HostsAreStarted, StepKind
  PROVE  HostsAreStarted'
<1> SUFFICES ASSUME Needed' # 0, clock' > OffBy', NEW h \in ToSet(Bursts) \ given'.stale, hosts'[h].state = "stopped"
             PROVE  (\/ Due - Period <= OffBy
                     \/ \E t \in Invocations : ticks[t].pc # "idle" /\ ticks[t].now <= StartBy /\ Brings(t, h))'
  BY Zenon DEF HostsAreStarted
<1>1. PoolIInv /\ Deadlines /\ TicksKnow
  BY DEF DemandIInv
<1>2. /\ clock \in Nat /\ wantedFor \in Nat /\ wantedFor <= clock /\ Needed \in Nat
      /\ Period \in Nat /\ Delay \in Nat /\ Lag \in Nat /\ Due \in Nat
      /\ clock <= Due + Delay /\ Due - Period <= clock
      /\ \A t \in Invocations : ticks[t].pc # "idle" => ticks[t].now \in Nat /\ ticks[t].now <= clock /\ clock <= ticks[t].now + Lag
  BY <1>1, PoolNats, NeedFacts, PoolTimes, DueFacts DEF Deadlines
<1>3. OffBy \in Nat /\ StartBy = OffBy + Period + Delay /\ OffBy = wantedFor + (2 * Lag + Period + Delay + 4 * Lag)
  BY <1>1, <1>2, WaitFacts
<1>4. SameDemand /\ ~Disturbs /\ ((clock' = clock + 1 /\ Elapses) \/ clock' = clock)
  <2>1. clock' > wantedFor'
    <3>1. clock' \in Nat /\ wantedFor' \in Nat
      <4>1. (clock' = clock \/ clock' = clock + 1) /\ wantedFor' \in {wantedFor, clock, clock'}
        BY DEF StepKind, Elapses, Disturbs, SameDemand
      <4> QED BY <1>2, <4>1
    <3>2. clock' > wantedFor' + 2 * Lag + Period + Delay + 4 * Lag
      BY Zenon DEF OffBy, TagBy, Quiet
    <3>3. \A a, b, c, d, e \in Nat : a > b + 2 * c + d + e + 4 * c => a > b
      OBVIOUS
    <3> QED BY <1>2, <3>1, <3>2, <3>3
  <2> QED BY <2>1, CalmSteps
<1>5. Needed' = Needed /\ wantedFor' = wantedFor /\ given' = given /\ work' = work /\ OffBy' = OffBy /\ StartBy' = StartBy
  BY <1>4 DEF SameDemand, Quiet, TagBy, OffBy, StartBy
<1>6. h \in ToSet(Bursts) /\ h \notin given.stale /\ h \in HostIds /\ Needed # 0 /\ clock' > OffBy
  BY <1>5, HostsAreTwoRoles
<1>7. ASSUME clock > OffBy PROVE hosts[h].state = "stopped"
  <2>1. (Active(h) /\ ~hosts[h].leaving) \/ hosts[h].state = "stopped"
    BY <1>6, <1>7, TaggingDone
  <2>2. Active(h) /\ ~hosts[h].leaving => hosts'[h].state # "stopped"
    <3>1. \A k \in HostIds : OneMove(k) => hosts'[h] = hosts[h] \/ Moves(h)
      BY <1>6 DEF OneMove
    <3>2. \A t \in Invocations : Tags(t) => hosts'[h].state = hosts[h].state
      BY <1>6 DEF Tags, TaggedTo
    <3>3. \A t \in Invocations : Launches(t) => hosts'[h] = hosts[h] \/ Launched(h)
      BY <1>6 DEF Launches
    <3>4. Elapses \/ Rests \/ (\E t \in Invocations : Loads(t) \/ Snaps(t)) => hosts'[h] = hosts[h]
      BY <1>6 DEF Elapses, Rests, Loads, Snaps, SameHosts
    <3>5. hosts'[h] = hosts[h] \/ Moves(h) \/ hosts'[h].state = hosts[h].state \/ Launched(h)
      BY <1>4, <3>1, <3>2, <3>3, <3>4, Zenon DEF StepKind
    <3> QED BY <3>5 DEF Moves, Becomes, Launched, Active
  <2> QED BY <2>1, <2>2
<1>8. clock <= OffBy => hosts'[h].state = hosts[h].state
  <2>1. clock <= OffBy => Elapses
    BY <1>2, <1>3, <1>4, <1>6
  <2> QED BY <1>6, <2>1 DEF Elapses, SameHosts
<1>9. hosts[h].state = "stopped"
  BY <1>2, <1>3, <1>7, <1>8
<1>10. clock > OffBy => IsBrought(h, OffBy)
  BY <1>3, <1>6, <1>9 DEF HostsAreStarted, IsBrought
<1>11. ASSUME NEW t \in Invocations, ticks[t].pc = "hosts", clock > OffBy PROVE h \in ToSet(PlanStarts(ticks[t]))
  <2>1. PICK d : d = ticks[t]
    OBVIOUS
  <2>2. d.contest = Needed /\ d.now \in Nat
    <3>1. d.now \in Nat /\ d.now > wantedFor
      BY <1>2, <1>3, <1>11, <2>1
    <3> QED BY <1>1, <1>11, <2>1, <3>1 DEF TicksKnow
  <2>3. h \in Startable
    BY <1>6, <1>9 DEF Startable, CanStart
  <2>4. Wanted(d)[h] \in Nat /\ Wanted(d)[h] >= Needed
    BY <1>2, <1>6, <2>2, WantedFacts
  <2>5. Wanted(d)[h] > 0
    BY <1>2, <1>6, <2>4
  <2>6. ToSet(PlanStarts(d)) = (ToSet(Primaries) \cap Startable) \cup {k \in Startable \cap ToSet(Bursts) : Wanted(d)[k] > 0}
    BY StartsFacts
  <2> QED BY <1>6, <2>1, <2>3, <2>5, <2>6
<1>12. PICK b \in Nat : b = OffBy
  BY <1>3
<1>13. IsBrought(h, b)'
  BY <1>4, <1>5, <1>6, <1>9, <1>10, <1>11, <1>12, BringingHolds
<1> QED BY <1>3, <1>5, <1>12, <1>13 DEF IsBrought, Brings

LEMMA ContestInitHolds == PoolInit => ContestIInv
<1> SUFFICES ASSUME PoolInit PROVE ContestIInv
  OBVIOUS
<1>1. DemandIInv
  BY DemandInitHolds
<1>2. clock = 0 /\ wantedFor = 0
  BY DEF PoolInit
<1>3. ~(clock > Quiet) /\ ~(clock > OffBy)
  BY <1>1, <1>2, WaitFacts, PoolTimes DEF DemandIInv
<1> QED BY <1>1, <1>3 DEF ContestIInv, HostsAreTagged, HostsAreStarted

LEMMA ContestImplies == ContestIInv => UpForContests
<1> SUFFICES ASSUME ContestIInv, clock > wantedFor + Recovery, ContestUntil(clock) # 0, NEW h \in ToSet(Bursts) \ given.stale
             PROVE  Active(h) /\ ~hosts[h].leaving
  BY DEF UpForContests
<1>1. DemandIInv /\ HostsAreTagged /\ HostsAreStarted /\ PoolIInv /\ Deadlines
  BY DEF ContestIInv, DemandIInv
<1>2. /\ clock \in Nat /\ Period \in Nat /\ Delay \in Nat /\ Lag \in Nat /\ Lag > 0 /\ Due \in Nat
      /\ clock <= Due + Delay
      /\ \A t \in Invocations : ticks[t].pc # "idle" => ticks[t].now \in Nat /\ ticks[t].now <= clock /\ clock <= ticks[t].now + Lag
  BY <1>1, PoolNats, NeedFacts, PoolTimes, DueFacts DEF Deadlines
<1>3. /\ OffBy \in Nat /\ StartBy = OffBy + Period + Delay /\ clock > OffBy + Period + Delay + Lag
  BY <1>1, <1>2, WaitFacts
<1>4. Needed # 0 /\ clock > OffBy
  BY <1>2, <1>3 DEF Needed
<1>5. hosts[h].state # "stopped"
  <2>1. ~(Due - Period <= OffBy)
    BY <1>2, <1>3
  <2>2. ~\E t \in Invocations : ticks[t].pc # "idle" /\ ticks[t].now <= StartBy
    BY <1>2, <1>3
  <2> QED BY <1>1, <1>4, <2>1, <2>2 DEF HostsAreStarted
<1> QED BY <1>1, <1>4, <1>5, TaggingDone

\* For every plan, number of hosts and invocations, and whatever fails: once contests have needed the
\* hosts for Recovery and nothing else happened, every burst host that may judge is up and stays up.
THEOREM ContestsHaveTheirHosts == PoolSpec => []UpForContests
<1>1. ContestIInv /\ [PoolNext]_poolVars => ContestIInv'
  BY DemandStep, TaggingHolds, StartingHolds DEF ContestIInv
<1> QED BY <1>1, ContestInitHolds, ContestImplies, PTL DEF PoolSpec

-----------------------------------------------------------------------------
(* What fits the budget.                                                   *)

\* The recursion of MapThenSumSet over the sets within S.
SumsTo(h, S, g) ==
  h = [T \in SUBSET S |-> IF T = {} THEN 0 ELSE g[CHOOSE x \in T : TRUE] + h[T \ {CHOOSE x \in T : TRUE}]]

LEMMA SmallerSets ==
  ASSUME NEW S, IsFiniteSet(S), NEW T \in SUBSET S
  PROVE  /\ IsFiniteSet(T) /\ Cardinality(T) \in Nat
         /\ \A x \in T : T \ {x} \in SUBSET S /\ Cardinality(T) - 1 \in Nat /\ Cardinality(T \ {x}) = Cardinality(T) - 1
<1>1. IsFiniteSet(T) /\ Cardinality(T) \in Nat
  BY FS_Subset, FS_CardinalityType
<1>2. ASSUME NEW x \in T
      PROVE  T \ {x} \in SUBSET S /\ Cardinality(T) - 1 \in Nat /\ Cardinality(T \ {x}) = Cardinality(T) - 1
  <2>1. IsFiniteSet(T \ {x}) /\ Cardinality(T \ {x}) = Cardinality(T) - 1 /\ Cardinality(T \ {x}) \in Nat
    BY <1>1, FS_RemoveElement, FS_CardinalityType
  <2> QED BY <2>1
<1> QED BY <1>1, <1>2

LEMMA SumsExist ==
  ASSUME NEW S, IsFiniteSet(S), NEW g
  PROVE  \E h : SumsTo(h, S, g)
<1> DEFINE Upto(n) == {T \in SUBSET S : Cardinality(T) <= n}
           From(h, T) == IF T = {} THEN 0 ELSE g[CHOOSE x \in T : TRUE] + h[T \ {CHOOSE x \in T : TRUE}]
           Lacking == {n \in Nat : ~\E h : h = [T \in Upto(n) |-> From(h, T)]}
<1>1. ASSUME Lacking # {} PROVE FALSE
  <2>1. PICK n \in Lacking : \A k \in Lacking : n <= k
    <3>1. Lacking \subseteq Nat /\ Lacking # {}
      BY <1>1
    <3> HIDE DEF Lacking
    <3> QED BY <3>1, LeastCase
  <2>2. PICK h : n # 0 => h = [T \in Upto(n - 1) |-> From(h, T)]
    <3> HIDE DEF From, Upto
    <3>1. n # 0 => n - 1 \in Nat /\ n - 1 \notin Lacking
      <4>1. n \in Nat
        OBVIOUS
      <4> HIDE DEF Lacking
      <4> QED BY <2>1, <4>1
    <3> QED BY <3>1
  <2> DEFINE k == [T \in Upto(n) |-> From(h, T)]
  <2>3. ASSUME NEW T \in Upto(n) PROVE From(k, T) = From(h, T)
    <3>1. CASE T # {}
      <4>1. PICK x \in T : x = CHOOSE y \in T : TRUE
        BY <3>1
      <4>2. n # 0 /\ T \ {x} \in Upto(n - 1) /\ T \ {x} \in Upto(n)
        BY <2>1, SmallerSets
      <4>3. k[T \ {x}] = From(h, T \ {x}) /\ h[T \ {x}] = From(h, T \ {x})
        <5> HIDE DEF From, Upto
        <5> QED BY <2>2, <4>2
      <4> HIDE DEF k
      <4> QED BY <3>1, <4>1, <4>3
    <3> QED BY <3>1
  <2>4. k = [T \in Upto(n) |-> From(k, T)]
    <3> HIDE DEF From, Upto
    <3> QED BY <2>3
  <2> HIDE DEF k, From, Upto
  <2> QED BY <2>1, <2>4
<1>2. Cardinality(S) \in Nat /\ Upto(Cardinality(S)) = SUBSET S
  <2>1. \A T \in SUBSET S : Cardinality(T) <= Cardinality(S)
    BY FS_Subset
  <2> QED BY <2>1, FS_CardinalityType
<1>3. PICK h : h = [T \in SUBSET S |-> From(h, T)]
  <2>1. Cardinality(S) \notin Lacking
    BY <1>1
  <2> HIDE DEF From, Upto
  <2> QED BY <1>2, <2>1
<1> QED BY <1>3 DEF SumsTo

\* A sum may be taken in any order, and of more it is no smaller.
LEMMA SumFacts ==
  ASSUME NEW S, IsFiniteSet(S), NEW g \in [S -> Nat], NEW h, SumsTo(h, S, g)
  PROVE  /\ h[{}] = 0
         /\ \A T \in SUBSET S : h[T] \in Nat
         /\ \A T \in SUBSET S : \A x \in T : h[T] = g[x] + h[T \ {x}]
         /\ \A T, U \in SUBSET S : T \subseteq U => h[T] <= h[U]
<1>1. h[{}] = 0
  BY DEF SumsTo
<1>2. ASSUME NEW T \in SUBSET S, T # {}
      PROVE  \E x \in T : h[T] = g[x] + h[T \ {x}]
  <2>1. (CHOOSE x \in T : TRUE) \in T
    BY <1>2
  <2>2. h[T] = g[CHOOSE x \in T : TRUE] + h[T \ {CHOOSE x \in T : TRUE}]
    BY <1>2 DEF SumsTo
  <2> QED BY <2>1, <2>2
<1> DEFINE Odd == {n \in Nat : \E T \in SUBSET S : Cardinality(T) = n /\ h[T] \notin Nat}
           Uneven == {n \in Nat : \E T \in SUBSET S : Cardinality(T) = n /\ \E x \in T : h[T] # g[x] + h[T \ {x}]}
           Larger == {n \in Nat : \E T, U \in SUBSET S : Cardinality(U) = n /\ T \subseteq U /\ ~(h[T] <= h[U])}
<1>3. Odd = {}
  <2> SUFFICES ASSUME Odd # {} PROVE FALSE
    OBVIOUS
  <2>1. PICK n \in Odd : \A k \in Odd : n <= k
    <3>1. Odd \subseteq Nat /\ Odd # {}
      OBVIOUS
    <3> HIDE DEF Odd
    <3> QED BY <3>1, LeastCase
  <2>2. PICK T \in SUBSET S : Cardinality(T) = n /\ h[T] \notin Nat
    BY <2>1
  <2>3. T # {}
    BY <1>1, <2>2
  <2>4. PICK x \in T : h[T] = g[x] + h[T \ {x}]
    BY <1>2, <2>3
  <2>5. T \ {x} \in SUBSET S /\ n - 1 \in Nat /\ Cardinality(T \ {x}) = n - 1
    BY <2>2, SmallerSets
  <2>6. h[T \ {x}] \in Nat
    <3>1. n - 1 \notin Odd
      BY <2>1, <2>5
    <3> QED BY <2>5, <3>1
  <2>7. g[x] \in Nat
    OBVIOUS
  <2> HIDE DEF Odd
  <2> QED BY <2>2, <2>4, <2>6, <2>7
<1>4. \A T \in SUBSET S : h[T] \in Nat
  BY <1>3, SmallerSets
<1>5. Uneven = {}
  <2> SUFFICES ASSUME Uneven # {} PROVE FALSE
    OBVIOUS
  <2>1. PICK n \in Uneven : \A k \in Uneven : n <= k
    <3>1. Uneven \subseteq Nat /\ Uneven # {}
      OBVIOUS
    <3> HIDE DEF Uneven
    <3> QED BY <3>1, LeastCase
  <2>2. PICK T \in SUBSET S : Cardinality(T) = n /\ \E x \in T : h[T] # g[x] + h[T \ {x}]
    BY <2>1
  <2> PICK x \in T : h[T] # g[x] + h[T \ {x}]
    BY <2>2
  <2>3. PICK c \in T : h[T] = g[c] + h[T \ {c}]
    BY <1>2
  <2>4. c # x
    BY <2>2, <2>3
  <2>5. /\ T \ {x} \in SUBSET S /\ T \ {c} \in SUBSET S /\ n - 1 \in Nat
        /\ Cardinality(T \ {x}) = n - 1 /\ Cardinality(T \ {c}) = n - 1
    BY <2>2, SmallerSets
  <2>6. n - 1 \notin Uneven
    BY <2>1, <2>5
  <2>7. h[T \ {c}] = g[x] + h[(T \ {c}) \ {x}]
    BY <2>4, <2>5, <2>6
  <2>8. h[T \ {x}] = g[c] + h[(T \ {x}) \ {c}]
    BY <2>4, <2>5, <2>6
  <2>9. (T \ {x}) \ {c} = (T \ {c}) \ {x} /\ (T \ {x}) \ {c} \in SUBSET S
    OBVIOUS
  <2>10. h[(T \ {x}) \ {c}] \in Nat /\ g[x] \in Nat /\ g[c] \in Nat
    BY <1>4, <2>9
  <2>11. \A a, b, d \in Nat : \A u, v, w : u = b + v /\ v = a + d /\ w = b + d => u = a + w
    OBVIOUS
  <2>12. h[T] = g[x] + h[T \ {x}]
    <3>1. PICK R : R = (T \ {x}) \ {c} /\ R = (T \ {c}) \ {x}
      BY <2>9
    <3>2. h[T \ {c}] = g[x] + h[R] /\ h[T \ {x}] = g[c] + h[R] /\ h[R] \in Nat
      BY <2>7, <2>8, <2>10, <3>1
    <3> HIDE DEF Uneven
    <3> QED BY <2>3, <2>10, <2>11, <3>2
  <2> QED BY <2>12
<1>6. \A T \in SUBSET S : \A x \in T : h[T] = g[x] + h[T \ {x}]
  BY <1>5, SmallerSets
<1>7. Larger = {}
  <2> SUFFICES ASSUME Larger # {} PROVE FALSE
    OBVIOUS
  <2>1. PICK n \in Larger : \A k \in Larger : n <= k
    <3>1. Larger \subseteq Nat /\ Larger # {}
      OBVIOUS
    <3> HIDE DEF Larger
    <3> QED BY <3>1, LeastCase
  <2>2. PICK T \in SUBSET S, U \in SUBSET S : Cardinality(U) = n /\ T \subseteq U /\ ~(h[T] <= h[U])
    BY <2>1
  <2>3. T # U
    BY <1>4, <2>2
  <2>4. PICK x \in U : x \notin T
    BY <2>2, <2>3
  <2>5. U \ {x} \in SUBSET S /\ n - 1 \in Nat /\ Cardinality(U \ {x}) = n - 1 /\ T \subseteq U \ {x}
    BY <2>2, <2>4, SmallerSets
  <2>6. n - 1 \notin Larger
    <3>1. n \in Nat
      OBVIOUS
    <3> HIDE DEF Larger
    <3> QED BY <2>1, <2>5, <3>1
  <2>7. h[T] <= h[U \ {x}]
    BY <2>5, <2>6
  <2>8. h[U] = g[x] + h[U \ {x}] /\ g[x] \in Nat /\ h[U \ {x}] \in Nat /\ h[T] \in Nat
    BY <1>4, <1>6, <2>5
  <2> HIDE DEF Larger
  <2> QED BY <2>2, <2>7, <2>8
<1>8. \A T, U \in SUBSET S : T \subseteq U => h[T] <= h[U]
  BY <1>7, SmallerSets
<1> QED BY <1>1, <1>4, <1>6, <1>8

\* The recursion of UsedBefore over the first n windows.
Uses(u, n, a, w) ==
  u = [i \in 0..n |-> IF i = 0 THEN 0 ELSE u[i - 1] + IF a[i].closes > w.opens - Day THEN LengthOf(a[i]) ELSE 0]

LEMMA UsesExist ==
  ASSUME NEW a, NEW w, NEW n \in Nat
  PROVE  \E u : Uses(u, n, a, w)
<1> DEFINE On(u, i) == IF i = 0 THEN 0 ELSE u[i - 1] + IF a[i].closes > w.opens - Day THEN LengthOf(a[i]) ELSE 0
           Lacking == {m \in Nat : ~\E u : u = [i \in 0..m |-> On(u, i)]}
<1>1. ASSUME Lacking # {} PROVE FALSE
  <2>1. PICK m \in Lacking : \A k \in Lacking : m <= k
    <3>1. Lacking \subseteq Nat /\ Lacking # {}
      BY <1>1
    <3> HIDE DEF Lacking
    <3> QED BY <3>1, LeastCase
  <2>2. PICK u : m # 0 => u = [i \in 0..(m - 1) |-> On(u, i)]
    <3> HIDE DEF On
    <3>1. m # 0 => m - 1 \in Nat /\ m - 1 \notin Lacking
      <4>1. m \in Nat
        OBVIOUS
      <4> HIDE DEF Lacking
      <4> QED BY <2>1, <4>1
    <3> QED BY <3>1
  <2> DEFINE v == [i \in 0..m |-> On(u, i)]
  <2>3. ASSUME NEW i \in 0..m PROVE On(v, i) = On(u, i)
    <3>1. CASE i # 0
      <4>1. m # 0 /\ i - 1 \in 0..(m - 1) /\ i - 1 \in 0..m
        BY <3>1
      <4>2. v[i - 1] = On(u, i - 1) /\ u[i - 1] = On(u, i - 1)
        <5> HIDE DEF On
        <5> QED BY <2>2, <4>1
      <4> HIDE DEF v
      <4> QED BY <4>2
    <3> QED BY <3>1
  <2>4. v = [i \in 0..m |-> On(v, i)]
    <3> HIDE DEF On
    <3> QED BY <2>3
  <2> HIDE DEF v, On
  <2> QED BY <2>1, <2>4
<1>2. PICK u : u = [i \in 0..n |-> On(u, i)]
  <2> HIDE DEF On
  <2> QED BY <1>1
<1> QED BY <1>2 DEF Uses

\* A window that is admitted uses no more than its length.
LEMMA UsedFacts ==
  ASSUME NEW W, \A v \in W : v.opens \in Int /\ v.closes \in Nat /\ v.opens <= v.closes,
         NEW w \in W, NEW a \in Seq(W), NEW v \in W
  PROVE  /\ UsedBefore(<<>>, w) = 0
         /\ UsedBefore(a, w) \in Nat
         /\ UsedBefore(Append(a, v), w) <= UsedBefore(a, w) + LengthOf(v)
<1>0. Day \in Nat /\ w.opens - Day \in Int
  BY PoolAssumption
<1>1. \A x \in W : LengthOf(x) \in Nat
  BY DEF LengthOf
<1> DEFINE U(s) == CHOOSE u : Uses(u, Len(s), s, w)
<1>2. ASSUME NEW s \in Seq(W)
      PROVE  Uses(U(s), Len(s), s, w) /\ UsedBefore(s, w) = U(s)[Len(s)]
  <2>1. Len(s) \in Nat
    OBVIOUS
  <2>2. Uses(U(s), Len(s), s, w)
    BY <2>1, UsesExist
  <2> QED BY <2>2 DEF UsedBefore, Uses
<1> HIDE DEF U
<1>3. UsedBefore(<<>>, w) = 0
  <2>1. <<>> \in Seq(W) /\ Len(<<>>) = 0
    OBVIOUS
  <2>2. Uses(U(<<>>), 0, <<>>, w) /\ UsedBefore(<<>>, w) = U(<<>>)[0]
    BY <1>2, <2>1
  <2> QED BY <2>2 DEF Uses
<1>4. ASSUME NEW s \in Seq(W), NEW i \in 0..Len(s)
      PROVE  /\ i = 0 => U(s)[i] = 0
             /\ i # 0 => i - 1 \in 0..Len(s) /\ U(s)[i] = U(s)[i - 1] + IF s[i].closes > w.opens - Day THEN LengthOf(s[i]) ELSE 0
  <2>1. U(s)[i] = IF i = 0 THEN 0 ELSE U(s)[i - 1] + IF s[i].closes > w.opens - Day THEN LengthOf(s[i]) ELSE 0
    BY <1>2 DEF Uses
  <2> QED BY <2>1
<1> DEFINE Odd(s) == {i \in 0..Len(s) : U(s)[i] \notin Nat}
           b == Append(a, v)
           Unlike == {i \in 0..Len(a) : U(b)[i] # U(a)[i]}
<1>5. ASSUME NEW s \in Seq(W) PROVE Odd(s) = {}
  <2> SUFFICES ASSUME Odd(s) # {} PROVE FALSE
    OBVIOUS
  <2>1. PICK m \in Odd(s) : \A k \in Odd(s) : m <= k
    <3>1. Odd(s) \subseteq Nat /\ Odd(s) # {}
      OBVIOUS
    <3> HIDE DEF Odd
    <3> QED BY <3>1, LeastCase
  <2>2. m \in 0..Len(s) /\ U(s)[m] \notin Nat
    OBVIOUS
  <2>3. m # 0
    BY <1>4, <2>2
  <2>4. m - 1 \in 0..Len(s) /\ m - 1 \notin Odd(s) /\ m \in 1..Len(s)
    <3>1. m \in Nat /\ m - 1 \in 0..Len(s) /\ m \in 1..Len(s)
      BY <2>2, <2>3
    <3> HIDE DEF Odd
    <3> QED BY <2>1, <3>1
  <2>5. U(s)[m - 1] \in Nat
    BY <2>4
  <2>6. s[m] \in W
    BY <2>4
  <2>7. LengthOf(s[m]) \in Nat
    BY <1>1, <2>6
  <2>8. U(s)[m] = U(s)[m - 1] + IF s[m].closes > w.opens - Day THEN LengthOf(s[m]) ELSE 0
    BY <1>4, <2>2, <2>3
  <2> HIDE DEF Odd
  <2> QED BY <2>2, <2>5, <2>7, <2>8
<1>6. ASSUME NEW s \in Seq(W) PROVE UsedBefore(s, w) \in Nat
  <2>1. Len(s) \in 0..Len(s) /\ Len(s) \notin Odd(s)
    BY <1>5
  <2> QED BY <1>2, <2>1
<1>7. b \in Seq(W) /\ Len(b) = Len(a) + 1 /\ b[Len(b)] = v /\ \A i \in 1..Len(a) : b[i] = a[i]
  OBVIOUS
<1>8. Unlike = {}
  <2> SUFFICES ASSUME Unlike # {} PROVE FALSE
    OBVIOUS
  <2>1. PICK m \in Unlike : \A k \in Unlike : m <= k
    <3>1. Unlike \subseteq Nat /\ Unlike # {}
      OBVIOUS
    <3> HIDE DEF Unlike
    <3> QED BY <3>1, LeastCase
  <2>2. m \in 0..Len(a) /\ U(b)[m] # U(a)[m]
    OBVIOUS
  <2> HIDE DEF b
  <2>3. m \in 0..Len(b)
    BY <1>7, <2>2
  <2>4. m # 0
    BY <1>4, <1>7, <2>2, <2>3
  <2>5. m - 1 \in 0..Len(a) /\ m - 1 \notin Unlike /\ b[m] = a[m]
    <3>1. m - 1 \in 0..Len(a) /\ m - 1 \in Nat /\ m \in 1..Len(a) /\ m \in Nat
      BY <2>2, <2>4
    <3> HIDE DEF Unlike
    <3> QED BY <1>7, <2>1, <3>1
  <2>6. U(b)[m - 1] = U(a)[m - 1]
    BY <2>5
  <2>7. U(b)[m] = U(b)[m - 1] + IF b[m].closes > w.opens - Day THEN LengthOf(b[m]) ELSE 0
    BY <1>4, <1>7, <2>3, <2>4
  <2>8. U(a)[m] = U(a)[m - 1] + IF a[m].closes > w.opens - Day THEN LengthOf(a[m]) ELSE 0
    BY <1>4, <2>2, <2>4
  <2> HIDE DEF Unlike
  <2> QED BY <2>2, <2>5, <2>6, <2>7, <2>8
<1>9. UsedBefore(b, w) <= UsedBefore(a, w) + LengthOf(v)
  <2> HIDE DEF b
  <2>1. Len(b) \in 0..Len(b) /\ Len(b) # 0 /\ Len(b) - 1 = Len(a) /\ Len(a) \in 0..Len(a)
    BY <1>7
  <2>2. U(b)[Len(a)] = U(a)[Len(a)]
    BY <1>8, <2>1
  <2>3. U(b)[Len(b)] = U(b)[Len(a)] + IF v.closes > w.opens - Day THEN LengthOf(v) ELSE 0
    BY <1>4, <1>7, <2>1
  <2>4. UsedBefore(b, w) = U(b)[Len(b)] /\ UsedBefore(a, w) = U(a)[Len(a)] /\ UsedBefore(a, w) \in Nat /\ LengthOf(v) \in Nat
    BY <1>1, <1>2, <1>6, <1>7
  <2> QED BY <2>2, <2>3, <2>4
<1> QED BY <1>3, <1>6, <1>9

TotalOf(C, S) == MapThenSumSet(LAMBDA d : LengthOf(WindowOf(C[d])), S)

LEMMA SumsOfLengths ==
  ASSUME NEW C, NEW S, IsFiniteSet(S)
  PROVE  \E h : /\ SumsTo(h, S, [d \in S |-> LengthOf(WindowOf(C[d]))])
                /\ TotalOf(C, S) = h[S]
<1> DEFINE len(d) == LengthOf(WindowOf(C[d]))
           g == [d \in S |-> len(d)]
           h == CHOOSE k : k = [T \in SUBSET S |-> IF T = {} THEN 0 ELSE len(CHOOSE x \in T : TRUE) + k[T \ {CHOOSE x \in T : TRUE}]]
<1>1. ASSUME NEW k
      PROVE  SumsTo(k, S, g) <=> k = [T \in SUBSET S |-> IF T = {} THEN 0 ELSE len(CHOOSE x \in T : TRUE) + k[T \ {CHOOSE x \in T : TRUE}]]
  <2> DEFINE One(T) == IF T = {} THEN 0 ELSE len(CHOOSE x \in T : TRUE) + k[T \ {CHOOSE x \in T : TRUE}]
             Two(T) == IF T = {} THEN 0 ELSE g[CHOOSE x \in T : TRUE] + k[T \ {CHOOSE x \in T : TRUE}]
  <2>1. ASSUME NEW T \in SUBSET S PROVE One(T) = Two(T)
    <3>1. T # {} => (CHOOSE x \in T : TRUE) \in S
      OBVIOUS
    <3>2. T # {} => g[CHOOSE x \in T : TRUE] = len(CHOOSE x \in T : TRUE)
      BY <3>1
    <3> HIDE DEF g, len
    <3> QED BY <3>2
  <2>2. SumsTo(k, S, g) <=> k = [T \in SUBSET S |-> Two(T)]
    BY DEF SumsTo
  <2> HIDE DEF One, Two
  <2>3. [T \in SUBSET S |-> Two(T)] = [T \in SUBSET S |-> One(T)]
    BY <2>1
  <2>4. SumsTo(k, S, g) <=> k = [T \in SUBSET S |-> One(T)]
    BY <2>2, <2>3
  <2> QED BY <2>4 DEF One
<1>2. PICK j : SumsTo(j, S, g)
  BY SumsExist
<1>3. j = [T \in SUBSET S |-> IF T = {} THEN 0 ELSE len(CHOOSE x \in T : TRUE) + j[T \ {CHOOSE x \in T : TRUE}]]
  BY <1>1, <1>2
<1>4. h = [T \in SUBSET S |-> IF T = {} THEN 0 ELSE len(CHOOSE x \in T : TRUE) + h[T \ {CHOOSE x \in T : TRUE}]]
  <2> HIDE DEF len
  <2> QED BY <1>3
<1>5. SumsTo(h, S, g)
  BY <1>1, <1>4
<1>6. TotalOf(C, S) = h[S]
  BY DEF TotalOf, MapThenSumSet, MapThenFoldSet
<1> HIDE DEF h
<1> QED BY <1>5, <1>6

\* Windows of contests that fit the budget with all that opened before them are admitted.
LEMMA FittingAdmitted ==
  ASSUME NEW p \in Plans, NEW full \in SUBSET DOMAIN p.contests, NEW now \in Nat, NEW c \in full,
         WindowOf(p.contests[c]).opens <= now, WindowOf(p.contests[c]).closes > now,
         NEW D, D = {d \in full : WindowOf(p.contests[d]).opens <= WindowOf(p.contests[c]).opens},
         NEW h, SumsTo(h, D, [d \in D |-> LengthOf(WindowOf(p.contests[d]))]), Budget >= h[D]
  PROVE  WindowOf(p.contests[c]) \in ToSet(Admitted(p.contests, full, now))
<1> DEFINE w(d) == WindowOf(p.contests[d])
           W == {w(d) : d \in Recent(p.contests, full, now)}
           g == [d \in D |-> LengthOf(w(d))]
<1>0. {Lead, Span, After, Horizon, Budget} \subseteq Nat /\ Horizon >= Span + After
  BY PoolAssumption, TimeAssumption
<1>1. \A d \in DOMAIN p.contests : w(d).opens \in Int /\ w(d).closes \in Nat /\ w(d).opens <= w(d).closes
  BY WindowTimes
<1>2. IsFiniteSet(D) /\ D \subseteq DOMAIN p.contests
  <2>1. IsFiniteSet(DOMAIN p.contests)
    BY ContestsAssumption
  <2> QED BY <2>1, FS_Subset
<1>3. g \in [D -> Nat]
  <2>1. ASSUME NEW d \in D PROVE LengthOf(w(d)) \in Nat
    <3>1. w(d).opens \in Int /\ w(d).closes \in Nat /\ w(d).opens <= w(d).closes
      BY <1>1, <1>2
    <3> HIDE DEF w
    <3> QED BY <3>1 DEF LengthOf
  <2> HIDE DEF w
  <2> QED BY <2>1
<1>4. SumsTo(h, D, g)
  OBVIOUS
<1> HIDE DEF g
<1>7. h[{}] = 0 /\ (\A T \in SUBSET D : h[T] \in Nat) /\ (\A T \in SUBSET D : \A x \in T : h[T] = g[x] + h[T \ {x}])
      /\ \A T \in SUBSET D : h[T] <= h[D]
  BY <1>2, <1>3, <1>4, SumFacts
<1>8. \A d \in D : g[d] = LengthOf(w(d))
  BY DEF g
<1>9. Recent(p.contests, full, now) \in SUBSET full /\ Recent(p.contests, full, now) \in SUBSET DOMAIN p.contests
  BY DEF Recent
<1>10. c \in Recent(p.contests, full, now)
  <2>1. w(c).opens = p.contests[c].starts - Lead /\ w(c).closes <= p.contests[c].starts + Span + After /\ p.contests[c].starts \in Nat
    BY WindowTimes
  <2>2. w(c).opens <= now /\ w(c).closes > now /\ w(c).closes \in Nat
    BY <1>1
  <2> HIDE DEF w
  <2> QED BY <1>0, <2>1, <2>2 DEF Recent
<1>11. PICK s : s = OpeningOrder(p.contests, Recent(p.contests, full, now))
  OBVIOUS
<1>12. /\ s \in Seq(Recent(p.contests, full, now)) /\ ToSet(s) = Recent(p.contests, full, now) /\ IsInjective(s)
       /\ \A i, j \in DOMAIN s : i < j => OpensBefore(w(s[i]), w(s[j]))
  BY <1>9, <1>11, OpeningOrderFacts
<1>13. PICK f : /\ Admits(f, Len(s), s, p.contests) /\ Admitted(p.contests, full, now) = f[Len(s)]
                /\ \A i \in 0..Len(s) : f[i] \in Seq(W)
  BY <1>11, AdmittedFacts
<1>14. PICK n \in 1..Len(s) : s[n] = c
  BY <1>10, <1>12 DEF ToSet
<1> n \in Nat /\ n >= 1 /\ Len(s) \in Nat /\ n - 1 \in Nat
  BY <1>12
<1>15. \A i \in 1..n : s[i] \in D
  <2> SUFFICES ASSUME NEW i \in 1..n PROVE s[i] \in D
    OBVIOUS
  <2>1. i \in DOMAIN s /\ n \in DOMAIN s /\ s[i] \in full
    BY <1>9, <1>12
  <2>2. i # n => w(s[i]).opens <= w(c).opens
    <3>1. i # n => OpensBefore(w(s[i]), w(c))
      BY <1>12, <1>14, <2>1
    <3>2. w(s[i]).opens \in Int /\ w(c).opens \in Int
      BY <1>1, <1>9, <2>1
    <3> HIDE DEF w
    <3> QED BY <3>1, <3>2 DEF OpensBefore
  <2>3. w(c).opens <= w(c).opens
    BY <1>1
  <2> QED BY <1>14, <2>1, <2>2, <2>3
<1>16. \A x \in W : x.opens \in Int /\ x.closes \in Nat /\ x.opens <= x.closes
  BY <1>1, <1>9
<1>17. w(c) \in W /\ \A i \in 1..Len(s) : w(s[i]) \in W
  BY <1>10, <1>12
<1> DEFINE Taken(i) == {s[j] : j \in 1..i}
           Excess == {i \in 0..(n - 1) : ~(UsedBefore(f[i], w(c)) <= h[Taken(i)])}
<1>18. \A i \in 0..Len(s) : \/ (i = 0 /\ f[i] = <<>>)
                          \/ (i # 0 /\ (f[i] = f[i - 1] \/ f[i] = Append(f[i - 1], w(s[i]))))
  BY <1>13 DEF Admits
<1>19. \A i \in 0..n : Taken(i) \in SUBSET D
  BY <1>15
<1>20. ASSUME NEW i \in 1..n
       PROVE  /\ h[Taken(i)] = LengthOf(w(s[i])) + h[Taken(i - 1)]
              /\ LengthOf(w(s[i])) \in Nat /\ h[Taken(i)] \in Nat /\ h[Taken(i - 1)] \in Nat
  <2>1. s[i] \in Taken(i) /\ i - 1 \in 0..n /\ i \in 0..n
    OBVIOUS
  <2>2. s[i] \notin Taken(i - 1)
    <3> SUFFICES ASSUME NEW j \in 1..(i - 1), s[j] = s[i] PROVE FALSE
      OBVIOUS
    <3>1. i \in DOMAIN s /\ j \in DOMAIN s /\ j # i
      BY <1>12
    <3> QED BY <1>12, <3>1 DEF IsInjective
  <2>3. Taken(i) = Taken(i - 1) \cup {s[i]}
    <3>1. \A j \in 1..i : j \in 1..(i - 1) \/ j = i
      OBVIOUS
    <3>2. \A j \in 1..(i - 1) : j \in 1..i
      OBVIOUS
    <3> QED BY <2>1, <3>1, <3>2
  <2>4. Taken(i) \ {s[i]} = Taken(i - 1)
    <3> HIDE DEF Taken
    <3> QED BY <2>2, <2>3
  <2>5. s[i] \in D /\ g[s[i]] = LengthOf(w(s[i])) /\ g[s[i]] \in Nat
    BY <1>3, <1>8, <1>15
  <2>6. Taken(i) \in SUBSET D /\ Taken(i - 1) \in SUBSET D
    BY <1>19, <2>1
  <2>7. h[Taken(i)] = g[s[i]] + h[Taken(i) \ {s[i]}]
    <3> HIDE DEF Taken
    <3> QED BY <1>7, <2>1, <2>6
  <2>8. h[Taken(i)] \in Nat /\ h[Taken(i - 1)] \in Nat
    <3> HIDE DEF Taken
    <3> QED BY <1>7, <2>6
  <2> HIDE DEF Taken, w
  <2> QED BY <2>4, <2>5, <2>7, <2>8
<1>21. ASSUME NEW i \in 1..Len(s)
       PROVE  /\ i - 1 \in 0..Len(s) /\ UsedBefore(f[i - 1], w(c)) \in Nat
              /\ UsedBefore(Append(f[i - 1], w(s[i])), w(c)) <= UsedBefore(f[i - 1], w(c)) + LengthOf(w(s[i]))
  <2>1. i - 1 \in 0..Len(s)
    OBVIOUS
  <2>2. f[i - 1] \in Seq(W) /\ w(s[i]) \in W
    BY <1>13, <1>17, <2>1
  <2> HIDE DEF W, w
  <2> QED BY <1>16, <1>17, <2>1, <2>2, UsedFacts
<1>22. Excess = {}
  <2> SUFFICES ASSUME Excess # {} PROVE FALSE
    OBVIOUS
  <2>1. PICK m \in Excess : \A k \in Excess : m <= k
    <3>1. Excess \subseteq Nat /\ Excess # {}
      <4> HIDE DEF Taken, w
      <4> QED OBVIOUS
    <3> HIDE DEF Excess
    <3> QED BY <3>1, LeastCase
  <2>2. m \in 0..(n - 1) /\ ~(UsedBefore(f[m], w(c)) <= h[Taken(m)])
    OBVIOUS
  <2>3. m # 0
    <3> SUFFICES ASSUME m = 0 PROVE FALSE
      OBVIOUS
    <3>1. f[0] = <<>> /\ Taken(0) = {}
      BY <1>18
    <3>2. UsedBefore(<<>>, w(c)) = 0
      <4>1. <<>> \in Seq(W)
        OBVIOUS
      <4> HIDE DEF W, w
      <4> QED BY <1>16, <1>17, <4>1, UsedFacts
    <3> HIDE DEF Taken, Excess
    <3> QED BY <1>7, <2>2, <3>1, <3>2
  <2>4. m \in 1..n /\ m \in 1..Len(s) /\ m \in 0..Len(s) /\ m - 1 \in 0..(n - 1) /\ m - 1 \notin Excess
    <3>1. m \in 1..n /\ m \in 1..Len(s) /\ m \in 0..Len(s) /\ m - 1 \in 0..(n - 1) /\ m \in Nat
      BY <2>2, <2>3
    <3> HIDE DEF Excess
    <3> QED BY <2>1, <3>1
  <2>5. UsedBefore(f[m - 1], w(c)) <= h[Taken(m - 1)]
    BY <2>4
  <2>6. f[m] = f[m - 1] \/ f[m] = Append(f[m - 1], w(s[m]))
    BY <1>18, <2>3, <2>4
  <2>7. UsedBefore(f[m], w(c)) = UsedBefore(f[m - 1], w(c)) \/ UsedBefore(f[m], w(c)) <= UsedBefore(f[m - 1], w(c)) + LengthOf(w(s[m]))
    BY <1>21, <2>4, <2>6
  <2>8. UsedBefore(f[m], w(c)) \in Nat
    <3>1. f[m] \in Seq(W)
      BY <1>13, <2>4
    <3> HIDE DEF W, w
    <3> QED BY <1>16, <1>17, <3>1, UsedFacts
  <2>9. /\ h[Taken(m)] = LengthOf(w(s[m])) + h[Taken(m - 1)] /\ UsedBefore(f[m - 1], w(c)) \in Nat
        /\ LengthOf(w(s[m])) \in Nat /\ h[Taken(m)] \in Nat /\ h[Taken(m - 1)] \in Nat
    <3> HIDE DEF Taken, w
    <3> QED BY <1>20, <1>21, <2>4
  <2>10. \A a, b, d, e, g1 \in Nat : b <= d /\ (a = b \/ a <= b + e) /\ g1 = e + d => a <= g1
    OBVIOUS
  <2> HIDE DEF Excess, Taken, w
  <2> QED BY <2>2, <2>5, <2>7, <2>8, <2>9, <2>10
<1>23. f[n] = Append(f[n - 1], w(c))
  <2>1. n - 1 \in 0..(n - 1) /\ n - 1 \notin Excess /\ n \in 1..n /\ n # 0 /\ n \in 0..Len(s)
    <3> HIDE DEF Excess
    <3> QED BY <1>22
  <2>2. UsedBefore(f[n - 1], w(c)) <= h[Taken(n - 1)]
    <3> HIDE DEF Taken, w
    <3> QED BY <2>1
  <2>3. h[Taken(n)] <= h[D] /\ h[D] \in Nat
    <3>1. Taken(n) \in SUBSET D /\ D \in SUBSET D
      BY <1>19
    <3> HIDE DEF Taken
    <3> QED BY <1>7, <3>1
  <2>4. UsedBefore(f[n - 1], w(c)) + LengthOf(w(c)) <= Budget
    <3>1. /\ h[Taken(n)] = LengthOf(w(c)) + h[Taken(n - 1)] /\ UsedBefore(f[n - 1], w(c)) \in Nat
          /\ LengthOf(w(c)) \in Nat /\ h[Taken(n)] \in Nat /\ h[Taken(n - 1)] \in Nat
      <4> HIDE DEF Taken, w
      <4> QED BY <1>14, <1>20, <1>21, <2>1
    <3>2. \A a, b, d, e, g1, x \in Nat : a <= b /\ d = e + b /\ d <= g1 /\ x >= g1 => a + e <= x
      OBVIOUS
    <3>3. Budget \in Nat
      BY <1>0
    <3> HIDE DEF Taken, w, Excess
    <3> QED BY <2>2, <2>3, <3>1, <3>2, <3>3
  <2>5. f[n] = IF n = 0 THEN <<>> ELSE IF UsedBefore(f[n - 1], w(s[n])) + LengthOf(w(s[n])) <= Budget THEN Append(f[n - 1], w(s[n])) ELSE f[n - 1]
    BY <1>13, <2>1 DEF Admits
  <2> HIDE DEF w, Excess
  <2> QED BY <1>14, <2>1, <2>4, <2>5
<1> DEFINE Missing == {i \in n..Len(s) : w(c) \notin ToSet(f[i])}
<1>24. ASSUME NEW q \in Seq(W), NEW x \in W
       PROVE  x \in ToSet(Append(q, x)) /\ ToSet(q) \subseteq ToSet(Append(q, x))
  <2>1. Len(Append(q, x)) = Len(q) + 1 /\ Append(q, x)[Len(q) + 1] = x /\ \A i \in 1..Len(q) : Append(q, x)[i] = q[i]
    OBVIOUS
  <2>2. Len(q) + 1 \in DOMAIN Append(q, x) /\ DOMAIN q \subseteq DOMAIN Append(q, x) /\ DOMAIN q = 1..Len(q)
    BY <2>1
  <2> HIDE DEF W
  <2> QED BY <2>1, <2>2 DEF ToSet
<1>25. Missing = {}
  <2> SUFFICES ASSUME Missing # {} PROVE FALSE
    OBVIOUS
  <2>1. PICK m \in Missing : \A k \in Missing : m <= k
    <3>1. Missing \subseteq Nat /\ Missing # {}
      OBVIOUS
    <3> HIDE DEF Missing
    <3> QED BY <3>1, LeastCase
  <2>2. m \in n..Len(s) /\ w(c) \notin ToSet(f[m])
    OBVIOUS
  <2>3. m # n
    <3>1. n - 1 \in 0..Len(s)
      OBVIOUS
    <3>2. f[n - 1] \in Seq(W)
      BY <1>13, <3>1
    <3> HIDE DEF Missing, W, w
    <3> QED BY <1>17, <1>23, <1>24, <2>2, <3>2
  <2>4. m - 1 \in n..Len(s) /\ m - 1 \notin Missing /\ m \in 0..Len(s) /\ m # 0 /\ m - 1 \in 0..Len(s) /\ m \in 1..Len(s)
    <3>1. m - 1 \in n..Len(s) /\ m \in 0..Len(s) /\ m # 0 /\ m - 1 \in 0..Len(s) /\ m \in Nat /\ m \in 1..Len(s)
      BY <2>2, <2>3
    <3> HIDE DEF Missing
    <3> QED BY <2>1, <3>1
  <2>5. w(c) \in ToSet(f[m - 1])
    BY <2>4
  <2>6. f[m - 1] \in Seq(W) /\ w(s[m]) \in W
    BY <1>13, <1>17, <2>4
  <2>7. f[m] = f[m - 1] \/ f[m] = Append(f[m - 1], w(s[m]))
    BY <1>18, <2>4
  <2> HIDE DEF Missing, W, w
  <2> QED BY <1>24, <2>2, <2>5, <2>6, <2>7
<1>26. Len(s) \in n..Len(s)
  OBVIOUS
<1> QED BY <1>13, <1>25, <1>26

\* For every plan: an open window that fits the budget with all that opened before it is admitted, and
\* the contests' demand lasts until it closes.
THEOREM FittingWindowsCount == PoolSpec => []FittingCount
<1>1. PoolIInv => FittingCount
  <2> SUFFICES ASSUME PoolIInv, NEW c \in filled, Fits(c) PROVE ContestUntil(clock) >= WindowOf(given.contests[c]).closes
    BY DEF FittingCount
  <2>1. given \in Plans /\ filled \in SUBSET DOMAIN given.contests /\ clock \in Nat
    BY PoolAssumption DEF PoolIInv, PoolTypes
  <2>2. WindowOf(given.contests[c]).opens <= clock /\ WindowOf(given.contests[c]).closes > clock
    BY DEF Fits
  <2>3. PICK D : D = {d \in filled : WindowOf(given.contests[d]).opens <= WindowOf(given.contests[c]).opens}
    OBVIOUS
  <2>4. IsFiniteSet(D)
    <3>1. IsFiniteSet(DOMAIN given.contests) /\ D \subseteq DOMAIN given.contests
      BY <2>1, <2>3, ContestsAssumption
    <3> QED BY <3>1, FS_Subset
  <2>5. PICK h : /\ SumsTo(h, D, [d \in D |-> LengthOf(WindowOf(given.contests[d]))])
                 /\ TotalOf(given.contests, D) = h[D]
    BY <2>4, SumsOfLengths
  <2>6. Budget >= h[D]
    BY <2>3, <2>5 DEF Fits, TotalOf
  <2>7. WindowOf(given.contests[c]) \in ToSet(Admitted(given.contests, filled, clock))
    BY <2>1, <2>2, <2>3, <2>5, <2>6, FittingAdmitted
  <2> QED BY <2>1, <2>2, <2>7, UntilFacts DEF ContestUntil
<1> QED BY <1>1, PoolInitHolds, PoolStepHolds, PTL DEF PoolSpec

-----------------------------------------------------------------------------
(***************************************************************************)
(* The primary hosts.  Only an event stops one, so Lag later it is off,    *)
(* and each invocation after that starts it.                               *)
(***************************************************************************)

\* What a step may make of a host.
LEMMA HostChanges ==
  ASSUME StepKind, ~Disturbs, NEW h \in HostIds
  PROVE  \/ hosts'[h] = hosts[h]
         \/ Moves(h) /\ clock' = clock /\ SameTicks /\ begun' = begun
         \/ \E t \in Invocations : Tags(t) /\ clock' = clock /\ \E g \in ticks[t].holds : g.host = h /\ TaggedTo(h, g.until)
         \/ \E t \in Invocations : Launches(t) /\ clock' = clock /\ h = Head(ticks[t].starts) /\ Launched(h)
<1>1. ASSUME NEW k \in HostIds, OneMove(k), clock' = clock
      PROVE  hosts'[h] = hosts[h] \/ (Moves(h) /\ clock' = clock /\ SameTicks /\ begun' = begun)
  BY <1>1 DEF OneMove
<1>2. ASSUME NEW t \in Invocations, Tags(t), clock' = clock
      PROVE  hosts'[h] = hosts[h] \/ (Tags(t) /\ clock' = clock /\ \E g \in ticks[t].holds : g.host = h /\ TaggedTo(h, g.until))
  BY <1>2 DEF Tags
<1>3. ASSUME NEW t \in Invocations, Launches(t), clock' = clock
      PROVE  hosts'[h] = hosts[h] \/ (Launches(t) /\ clock' = clock /\ h = Head(ticks[t].starts) /\ Launched(h))
  BY <1>3 DEF Launches
<1>4. Elapses \/ Rests \/ (\E t \in Invocations : Loads(t) \/ Snaps(t)) => hosts'[h] = hosts[h]
  BY DEF Elapses, Rests, Loads, Snaps, SameHosts
<1> QED BY <1>1, <1>2, <1>3, <1>4, Zenon DEF StepKind

Back == wantedFor + Lag
PrimariesStop ==
  clock > wantedFor => \A h \in ToSet(Primaries) : hosts[h].state = "stopping" => hosts[h].since <= wantedFor
PrimariesReturn ==
  clock > Back => \A h \in ToSet(Primaries) \ given.stale : Active(h) \/ (hosts[h].state = "stopped" /\ IsBrought(h, Back))

\* A primary host that is up stays up, and one that is off does not stop again.
LEMMA PrimaryChanges ==
  ASSUME DemandIInv, StepKind, ~Disturbs, NEW h \in ToSet(Primaries)
  PROVE  /\ Active(h) => hosts'[h].state \in {"pending", "running"}
         /\ hosts[h].state = "stopped" => hosts'[h].state \in {"pending", "stopped"}
         /\ hosts[h].state = "stopping" => hosts'[h].state \in {"stopping", "stopped"}
         /\ hosts'[h].state = "stopping" => hosts[h].state = "stopping" /\ hosts'[h].since = hosts[h].since
<1>1. h \in HostIds /\ h \notin ToSet(Bursts)
  BY HostsAreTwoRoles
<1>2. ~hosts[h].leaving /\ hosts[h].state \in HostStates
  BY <1>1, PoolNats DEF DemandIInv, Deadlines
<1>3. CASE hosts'[h] = hosts[h]
  BY <1>2, <1>3 DEF Active
<1>4. CASE Moves(h)
  BY <1>1, <1>2, <1>4 DEF Moves, Becomes, Active
<1>5. ASSUME NEW until, TaggedTo(h, until)
      PROVE  hosts'[h].state = hosts[h].state /\ hosts'[h].since = hosts[h].since
  BY <1>5 DEF TaggedTo
<1>6. CASE Launched(h)
  BY <1>6 DEF Launched, Active
<1>7. hosts'[h] = hosts[h] \/ Moves(h) \/ Launched(h) \/ (hosts'[h].state = hosts[h].state /\ hosts'[h].since = hosts[h].since)
  BY <1>1, <1>5, HostChanges, Zenon
<1>8. CASE hosts'[h].state = hosts[h].state /\ hosts'[h].since = hosts[h].since
  BY <1>8 DEF Active
<1> QED BY <1>3, <1>4, <1>6, <1>7, <1>8

LEMMA PrimariesHold ==
  ASSUME DemandIInv, PrimariesStop, PrimariesReturn, StepKind
  PROVE  PrimariesStop' /\ PrimariesReturn'
<1>1. PoolIInv /\ Deadlines
  BY DEF DemandIInv
<1>2. /\ clock \in Nat /\ wantedFor \in Nat /\ wantedFor <= clock /\ Lag \in Nat /\ Lag > 0 /\ Back = wantedFor + Lag
  BY <1>1, PoolNats, PoolTimes DEF Back
<1>3. ASSUME clock' > wantedFor' PROVE SameDemand /\ ~Disturbs /\ wantedFor' = wantedFor /\ given' = given /\ ((clock' = clock + 1 /\ Elapses) \/ clock' = clock)
  BY <1>3, CalmSteps DEF SameDemand
<1>4. PrimariesStop'
  <2> SUFFICES ASSUME clock' > wantedFor', NEW h \in ToSet(Primaries), hosts'[h].state = "stopping" PROVE hosts'[h].since <= wantedFor'
    BY DEF PrimariesStop
  <2>1. hosts[h].state = "stopping" /\ hosts'[h].since = hosts[h].since /\ wantedFor' = wantedFor
    BY <1>3, PrimaryChanges
  <2>2. CASE clock > wantedFor
    BY <2>1, <2>2 DEF PrimariesStop
  <2>3. CASE ~(clock > wantedFor)
    <3>1. h \in HostIds
      BY HostsAreTwoRoles
    <3>2. hosts[h].since \in Nat /\ hosts[h].since <= clock
      BY <1>1, <3>1, PoolNats
    <3> QED BY <1>2, <2>1, <2>3, <3>2
  <2> QED BY <2>2, <2>3
<1>5. PrimariesReturn'
  <2> SUFFICES ASSUME clock' > Back', NEW h \in ToSet(Primaries) \ given'.stale
               PROVE  (Active(h) \/ (hosts[h].state = "stopped" /\ IsBrought(h, Back)))'
    BY DEF PrimariesReturn
  <2>1. clock' \in Nat /\ wantedFor' \in Nat
    <3>1. (clock' = clock \/ clock' = clock + 1) /\ wantedFor' \in {wantedFor, clock, clock'}
      BY DEF StepKind, Elapses, Disturbs, SameDemand
    <3> QED BY <1>2, <3>1
  <2>2. clock' > wantedFor'
    <3>1. clock' > wantedFor' + Lag
      BY Zenon DEF Back
    <3>2. \A a, b, c \in Nat : a > b + c => a > b
      OBVIOUS
    <3> QED BY <1>2, <2>1, <3>1, <3>2
  <2>3. /\ SameDemand /\ ~Disturbs /\ wantedFor' = wantedFor /\ given' = given /\ ((clock' = clock + 1 /\ Elapses) \/ clock' = clock)
        /\ Back' = Back
    BY <1>3, <2>2 DEF Back
  <2>4. h \in HostIds \ given.stale /\ h \in ToSet(Primaries)
    BY <2>3, HostsAreTwoRoles
  <2>5. hosts[h].state # "stopping"
    <3>1. hosts[h].state = "stopping" => hosts[h].since \in Nat /\ clock <= hosts[h].since + Lag
      BY <1>1, <2>4, PoolNats DEF Deadlines
    <3>2. CASE clock > Back
      BY <2>4, <3>2 DEF PrimariesReturn, Active
    <3>3. CASE ~(clock > Back)
      <4>1. clock = Back /\ Elapses
        BY <1>2, <2>3, <3>3
      <4>2. hosts[h].state = "stopping" => hosts[h].since <= wantedFor
        BY <1>2, <2>4, <4>1 DEF PrimariesStop
      <4>3. hosts[h].state = "stopping" => clock < hosts[h].since + Lag
        BY <2>4, <4>1 DEF Elapses
      <4> QED BY <1>2, <3>1, <4>1, <4>2, <4>3
    <3> QED BY <3>2, <3>3
  <2>6. hosts[h].state \in HostStates
    BY <1>1, <2>4, PoolNats
  <2>7. CASE Active(h)
    BY <2>3, <2>4, <2>7, PrimaryChanges DEF Active
  <2>8. CASE hosts[h].state = "stopped"
    <3>1. hosts'[h].state \in {"pending", "stopped"}
      BY <2>3, <2>4, <2>8, PrimaryChanges
    <3>2. CASE hosts'[h].state = "stopped"
      <4>1. ASSUME NEW t \in Invocations PROVE h \in ToSet(PlanStarts(ticks[t]))
        <5>1. PICK d : d = ticks[t]
          OBVIOUS
        <5>2. h \in Startable
          BY <2>4, <2>8 DEF Startable, CanStart
        <5> QED BY <2>4, <5>1, <5>2, StartsFacts
      <4>2. clock > Back => IsBrought(h, Back)
        BY <2>4, <2>8 DEF PrimariesReturn, Active
      <4>3. PICK b \in Nat : b = Back
        BY <1>2
      <4>4. IsBrought(h, b)'
        BY <2>3, <2>4, <2>8, <3>2, <4>1, <4>2, <4>3, BringingHolds
      <4> QED BY <2>3, <3>2, <4>3, <4>4 DEF IsBrought, Brings
    <3> QED BY <3>1, <3>2 DEF Active
  <2> QED BY <2>5, <2>6, <2>7, <2>8 DEF HostStates, Active
<1> QED BY <1>4, <1>5

LEMMA PrimariesAreUp ==
  ASSUME DemandIInv, PrimariesReturn, clock > wantedFor + Period + Delay + 2 * Lag, NEW h \in ToSet(Primaries) \ given.stale
  PROVE  Active(h)
<1>1. PoolIInv /\ Deadlines
  BY DEF DemandIInv
<1>2. /\ clock \in Nat /\ wantedFor \in Nat /\ Period \in Nat /\ Delay \in Nat /\ Lag \in Nat /\ Due \in Nat /\ Back = wantedFor + Lag
      /\ clock <= Due + Delay
      /\ \A t \in Invocations : ticks[t].pc # "idle" => ticks[t].now \in Nat /\ ticks[t].now <= clock /\ clock <= ticks[t].now + Lag
  BY <1>1, PoolNats, PoolTimes, DueFacts DEF Deadlines, Back
<1>3. clock > Back /\ ~(Due - Period <= Back) /\ \A t \in Invocations : ticks[t].pc # "idle" => ~(ticks[t].now <= Back + Period + Delay)
  BY <1>2
<1>4. ~IsBrought(h, Back)
  BY <1>3 DEF IsBrought
<1> QED BY <1>3, <1>4 DEF PrimariesReturn

-----------------------------------------------------------------------------
(***************************************************************************)
(* The rank of a burst host: those that run come first, in order of name.  *)
(***************************************************************************)

\* The first host, in order of name, of those that run.
FirstUp(h) ==
  /\ h \in ToSet(Bursts) /\ Active(h)
  /\ \A i, j \in DOMAIN Bursts : Bursts[i] = h /\ Active(Bursts[j]) => i <= j

LEMMA BurstFacts ==
  /\ Bursts \in Seq(ToSet(Bursts)) /\ IsInjective(Bursts) /\ Len(Bursts) \in Nat /\ DOMAIN Bursts = 1..Len(Bursts)
  /\ \A i, j \in DOMAIN Bursts : Bursts[i] = Bursts[j] => i = j
  /\ \A h \in ToSet(Bursts) : \E i \in DOMAIN Bursts : Bursts[i] = h
  /\ \A i \in DOMAIN Bursts : Bursts[i] \in ToSet(Bursts)
BY HostAssumption DEF IsInjective, ToSet

LEMMA SomeFirstUp ==
  ASSUME NEW h \in ToSet(Bursts), Active(h)
  PROVE  \E k \in ToSet(Bursts) : FirstUp(k)
<1> DEFINE S == {i \in DOMAIN Bursts : Active(Bursts[i])}
<1>1. S \subseteq Nat /\ S # {}
  BY BurstFacts
<1>2. PICK i \in S : \A j \in S : i <= j
  <2> HIDE DEF S
  <2> QED BY <1>1, LeastCase
<1>3. FirstUp(Bursts[i])
  <2>1. Bursts[i] \in ToSet(Bursts) /\ Active(Bursts[i])
    BY BurstFacts
  <2>2. \A k, j \in DOMAIN Bursts : Bursts[k] = Bursts[i] /\ Active(Bursts[j]) => k <= j
    BY <1>2, BurstFacts
  <2> QED BY <2>1, <2>2 DEF FirstUp
<1> QED BY <1>3 DEF FirstUp

LEMMA OneFirstUp ==
  ASSUME NEW h, FirstUp(h), NEW k, FirstUp(k)
  PROVE  h = k
<1>1. PICK i, j \in DOMAIN Bursts : Bursts[i] = h /\ Bursts[j] = k
  BY BurstFacts DEF FirstUp
<1>2. i <= j /\ j <= i /\ i \in Nat /\ j \in Nat
  BY <1>1, BurstFacts DEF FirstUp
<1> QED BY <1>1, <1>2

\* Among keeps the first member of S first.
LEMMA AmongFirst ==
  ASSUME NEW T, NEW s \in Seq(T), NEW S, NEW n \in 1..Len(s), s[n] \in S, \A j \in 1..(n - 1) : s[j] \notin S, IsInjective(s)
  PROVE  Among(s, S)[1] = s[n] /\ Among(s, S) # <<>>
<1> DEFINE f == CHOOSE g : Keeps(g, Len(s), s, S)
           KeptAt(i) == IF i < n THEN f[i] = <<>> ELSE f[i] \in Seq(ToSet(s)) /\ f[i] # <<>> /\ f[i][1] = s[n]
           Odd == {i \in 0..Len(s) : ~KeptAt(i)}
<1>0. Len(s) \in Nat /\ n \in Nat /\ n > 0 /\ n <= Len(s) /\ \A i \in 1..Len(s) : s[i] \in ToSet(s)
  BY DEF ToSet
<1>1. Keeps(f, Len(s), s, S)
  BY <1>0, KeepsExist
<1>2. Among(s, S) = f[Len(s)]
  BY DEF Among, Keeps
<1> HIDE DEF f
<1>3. \A i \in 0..Len(s) : f[i] = IF i = 0 THEN <<>> ELSE IF s[i] \in S THEN Append(f[i - 1], s[i]) ELSE f[i - 1]
  BY <1>1 DEF Keeps
<1> HIDE DEF KeptAt
<1>4. Odd = {}
  <2> SUFFICES ASSUME Odd # {} PROVE FALSE
    OBVIOUS
  <2>1. Odd \subseteq Nat /\ Odd # {}
    BY <1>0
  <2>2. PICK m \in Odd : \A k \in Odd : m <= k
    <3> HIDE DEF Odd
    <3> QED BY <2>1, LeastCase
  <2>3. CASE m = 0
    <3>1. KeptAt(0)
      BY <1>0, <1>3 DEF KeptAt
    <3> QED BY <2>2, <2>3, <3>1
  <2>4. CASE m # 0
    <3>1. m \in 1..Len(s) /\ m - 1 \in 0..Len(s) /\ m - 1 \notin Odd
      BY <1>0, <2>2, <2>4
    <3>2. KeptAt(m - 1)
      BY <3>1
    <3>3. PICK q : q = f[m - 1]
      OBVIOUS
    <3>4. f[m] = IF s[m] \in S THEN Append(q, s[m]) ELSE q
      BY <1>3, <3>1, <3>3, <2>4
    <3>5. CASE m < n
      <4>1. q = <<>> /\ s[m] \notin S
        BY <1>0, <3>1, <3>2, <3>3, <3>5 DEF KeptAt
      <4>2. KeptAt(m)
        BY <3>4, <3>5, <4>1 DEF KeptAt
      <4> QED BY <2>2, <4>2
    <3>6. CASE m = n
      <4>1. q = <<>> /\ f[m] = <<s[n]>>
        BY <1>0, <3>1, <3>2, <3>3, <3>4, <3>6 DEF KeptAt
      <4>2. KeptAt(m)
        BY <1>0, <3>1, <3>6, <4>1 DEF KeptAt
      <4> QED BY <2>2, <4>2
    <3>7. CASE m > n
      <4>1. q \in Seq(ToSet(s)) /\ q # <<>> /\ q[1] = s[n] /\ s[m] \in ToSet(s)
        BY <1>0, <3>1, <3>2, <3>3, <3>7 DEF KeptAt
      <4>2. Append(q, s[m]) \in Seq(ToSet(s)) /\ Append(q, s[m]) # <<>> /\ Append(q, s[m])[1] = s[n]
        BY <4>1
      <4>3. KeptAt(m)
        BY <1>0, <3>1, <3>4, <3>7, <4>1, <4>2 DEF KeptAt
      <4> QED BY <2>2, <4>3
    <3> QED BY <1>0, <3>1, <3>5, <3>6, <3>7
  <2> QED BY <2>3, <2>4
<1>5. KeptAt(Len(s))
  BY <1>0, <1>4
<1> QED BY <1>0, <1>2, <1>5 DEF KeptAt

LEMMA RankFacts ==
  ASSUME NEW h \in ToSet(Bursts)
  PROVE  /\ Rank(h) \in Nat \ {0} /\ Ranked[Rank(h)] = h
         /\ \A j \in DOMAIN Ranked : Ranked[j] = h => j = Rank(h)
<1>1. PICK q : q = Ranked
  OBVIOUS
<1>2. q \in Seq(ToSet(Bursts)) /\ IsInjective(q) /\ ToSet(q) = ToSet(Bursts)
  BY <1>1, RankedFacts
<1>3. \E j \in DOMAIN q : q[j] = h
  BY <1>2 DEF ToSet
<1>4. Rank(h) \in DOMAIN q /\ q[Rank(h)] = h
  BY <1>1, <1>3 DEF Rank
<1>5. DOMAIN q \subseteq Nat \ {0}
  BY <1>2
<1> QED BY <1>1, <1>2, <1>4, <1>5 DEF IsInjective

\* The ranks, by what comes first.
LEMMA RanksOfUp ==
  LET up == Among(Bursts, Up) IN
  /\ Len(up) \in Nat
  /\ \A h \in ToSet(Bursts) : Active(h) => Rank(h) <= Len(up)
  /\ \A h : FirstUp(h) => Rank(h) = 1
  /\ (\E h \in ToSet(Bursts) : Active(h)) => \A k \in Startable \cap ToSet(Bursts) : Rank(k) > 1
  /\ (\A h \in ToSet(Bursts) : ~Active(h)) /\ Startable \cap ToSet(Bursts) # {} =>
       \E k \in Startable \cap ToSet(Bursts) : Rank(k) = 1
<1>1. PICK a, b, c : a = Among(Bursts, Up) /\ b = Among(Bursts, Startable) /\ c = Among(Bursts, HostIds \ (Up \cup Startable))
  OBVIOUS
<1>2. /\ a \in Seq(ToSet(Bursts) \cap Up) /\ ToSet(a) = ToSet(Bursts) \cap Up
      /\ b \in Seq(ToSet(Bursts) \cap Startable) /\ ToSet(b) = ToSet(Bursts) \cap Startable
      /\ c \in Seq(ToSet(Bursts) \cap (HostIds \ (Up \cup Startable)))
  BY <1>1, BurstFacts, AmongFacts
<1>3. a \in Seq(ToSet(Bursts)) /\ b \in Seq(ToSet(Bursts)) /\ c \in Seq(ToSet(Bursts))
  BY <1>2
<1>4. PICK q : q = (a \o b) \o c
  OBVIOUS
<1>5. Ranked = q
  BY <1>1, <1>4 DEF Ranked
<1>6. /\ Len(a) \in Nat /\ Len(b) \in Nat /\ Len(c) \in Nat
      /\ DOMAIN q = 1..(Len(a) + Len(b) + Len(c))
      /\ \A i \in 1..Len(a) : q[i] = a[i]
      /\ Len(a) = 0 /\ Len(b) # 0 => q[1] = b[1]
  BY <1>3, <1>4
<1>7. \A h \in ToSet(Bursts) : Active(h) <=> h \in Up
  BY HostsAreTwoRoles DEF Up
<1>8. \A h \in ToSet(Bursts) : h \in Up => \E i \in 1..Len(a) : a[i] = h
  BY <1>2 DEF ToSet
<1>9. \A h \in ToSet(Bursts) : \A j \in DOMAIN q : q[j] = h => j = Rank(h)
  BY <1>5, RankFacts
<1>10. ASSUME NEW h \in ToSet(Bursts), Active(h) PROVE Rank(h) <= Len(a) /\ Len(a) # 0
  <2>1. PICK i \in 1..Len(a) : a[i] = h
    BY <1>7, <1>8, <1>10
  <2>2. i \in DOMAIN q /\ q[i] = h
    BY <1>6, <2>1
  <2>3. i = Rank(h)
    BY <1>9, <2>2
  <2> QED BY <1>6, <2>1, <2>3
<1>11. ASSUME NEW h, FirstUp(h) PROVE Rank(h) = 1
  <2>1. h \in ToSet(Bursts) /\ Active(h) /\ \A i, j \in DOMAIN Bursts : Bursts[i] = h /\ Active(Bursts[j]) => i <= j
    BY <1>11, Zenon DEF FirstUp
  <2>2. PICK n \in DOMAIN Bursts : Bursts[n] = h
    BY <2>1, BurstFacts
  <2>3. n \in 1..Len(Bursts) /\ Bursts[n] \in Up
    BY <1>7, <2>1, <2>2, BurstFacts
  <2>4. \A j \in 1..(n - 1) : Bursts[j] \notin Up
    <3> SUFFICES ASSUME NEW j \in 1..(n - 1), Bursts[j] \in Up PROVE FALSE
      OBVIOUS
    <3>1. j \in DOMAIN Bursts /\ Bursts[j] \in ToSet(Bursts) /\ ~(n <= j)
      BY <2>3, BurstFacts
    <3>2. Active(Bursts[j])
      BY <1>7, <3>1
    <3> QED BY <2>1, <2>2, <3>1, <3>2
  <2>5. PICK T : T = ToSet(Bursts)
    OBVIOUS
  <2>6. Bursts \in Seq(T) /\ IsInjective(Bursts)
    BY <2>5, BurstFacts
  <2>7. a[1] = h
    <3>1. Among(Bursts, Up)[1] = Bursts[n]
      BY <2>3, <2>4, <2>6, AmongFirst, Zenon
    <3> QED BY <1>1, <2>2, <3>1
  <2>8. Len(a) # 0
    BY <1>10, <2>1
  <2>9. 1 \in DOMAIN q /\ q[1] = h
    BY <1>6, <2>7, <2>8
  <2> QED BY <1>9, <2>1, <2>9
<1>12. ASSUME NEW h \in ToSet(Bursts), Active(h), NEW k \in Startable \cap ToSet(Bursts) PROVE Rank(k) > 1
  <2>1. Len(a) # 0
    BY <1>10, <1>12
  <2>2. q[1] \in Up
    <3>1. 1 \in 1..Len(a) /\ q[1] = a[1]
      BY <1>6, <2>1
    <3>2. a[1] \in ToSet(Bursts) \cap Up
      BY <1>2, <3>1
    <3> QED BY <3>1, <3>2
  <2>3. k \notin Up
    BY DEF Up, Startable, CanStart, Active
  <2>4. Rank(k) \in Nat \ {0} /\ q[Rank(k)] = k
    BY <1>5, RankFacts
  <2>5. Rank(k) # 1
    BY <2>2, <2>3, <2>4
  <2> QED BY <2>4, <2>5
<1>13. ASSUME \A h \in ToSet(Bursts) : ~Active(h), Startable \cap ToSet(Bursts) # {}
       PROVE  \E k \in Startable \cap ToSet(Bursts) : Rank(k) = 1
  <2>1. Len(a) = 0
    <3>1. ToSet(a) = {}
      BY <1>2, <1>7, <1>13
    <3>2. Len(a) # 0 => 1 \in DOMAIN a
      BY <1>3
    <3>3. 1 \in DOMAIN a => a[1] \in ToSet(a)
      BY DEF ToSet
    <3> QED BY <3>1, <3>2, <3>3
  <2>2. Len(b) # 0
    <3>1. ToSet(b) # {}
      BY <1>2, <1>13
    <3> QED BY <1>2, <3>1 DEF ToSet
  <2>3. b[1] \in Startable \cap ToSet(Bursts)
    BY <1>2, <1>6, <2>2
  <2>4. 1 \in DOMAIN q /\ q[1] = b[1]
    BY <1>6, <2>1, <2>2
  <2>5. Rank(b[1]) = 1
    BY <1>9, <2>3, <2>4
  <2> QED BY <2>3, <2>5
<1> QED BY <1>1, <1>6, <1>10, <1>11, <1>12, <1>13

-----------------------------------------------------------------------------
(***************************************************************************)
(* The queue.  A host that serves it is one that every invocation holds,   *)
(* whose hold was renewed lately, or will be, and whose tag will be seen   *)
(* before the one it sees ends.                                            *)
(***************************************************************************)

\* The queue alone needs a burst host.
QueueAsks ==
  /\ Needed = 0 /\ ToSet(Bursts) \ given.stale # {}
  /\ work = "waiting" \/ (work = "some" /\ \A p \in ToSet(Primaries) : p \in given.stale /\ ~Active(p))
\* Every invocation holds this one, with its hold from HeldFrom or later on.
Chosen(h)   == h \in ToSet(Bursts) /\ Active(h) /\ (work = "waiting" \/ FirstUp(h))
HeldFrom(h) == hosts[h].hold - FallbackHold + 2 * Lag
Renewed(h) ==
  \/ Due - Period <= HeldFrom(h)
  \/ \E t \in Invocations : ticks[t].pc # "idle" /\ ticks[t].now <= HeldFrom(h) + Period + Delay /\ Covers(t, h)
InView(h) ==
  hosts[h].shown = hosts[h].hold \/ hosts[h].shown + Period + Delay + 3 * Lag >= hosts[h].tagged + FallbackHold
Serves(h) == Chosen(h) /\ ~hosts[h].leaving /\ Renewed(h) /\ InView(h)
Served    == \E h \in ToSet(Bursts) : Serves(h)

\* A step without an event while the queue asks, when every open invocation knows it.
Calm ==
  /\ DemandIInv /\ StepKind /\ QueueAsks /\ clock > Quiet
  /\ SameDemand /\ ~Disturbs /\ (clock' = clock \/ (clock' = clock + 1 /\ Elapses))

LEMMA CalmTimes ==
  ASSUME Calm
  PROVE  /\ clock \in Nat /\ Lag \in Nat /\ Period \in Nat /\ Delay \in Nat /\ FallbackHold \in Nat /\ Grace \in Nat /\ Due \in Nat
         /\ Lag > 0 /\ Grace > Lag /\ FallbackHold >= Period + Delay + 3 * Lag
         /\ clock <= Due + Delay /\ Due - Period <= clock
BY PoolNats, PoolTimes, DueFacts DEF Calm, DemandIInv, Deadlines

LEMMA CalmTicks ==
  ASSUME Calm, NEW t \in Invocations, ticks[t].pc # "idle"
  PROVE  /\ ticks[t].now \in Nat /\ ticks[t].now <= clock /\ clock <= ticks[t].now + Lag /\ ticks[t].now > wantedFor + Lag
         /\ ticks[t].pc = "hosts" => ticks[t].contest = 0 /\ ticks[t].work = work
         /\ ticks[t].pc = "act" => \A g \in ticks[t].holds : g.until = ticks[t].now + FallbackHold /\ g.host \in ToSet(Bursts)
<1>1. PoolIInv /\ Deadlines /\ TicksKnow /\ Needed = 0
  BY DEF Calm, DemandIInv, QueueAsks
<1>2. ticks[t].now \in Nat /\ ticks[t].now <= clock /\ clock <= ticks[t].now + Lag
  BY <1>1 DEF Deadlines
<1>3. wantedFor \in Nat /\ clock \in Nat /\ Lag \in Nat /\ clock > wantedFor + 2 * Lag
  BY <1>1, PoolNats, PoolTimes, Zenon DEF Calm, Quiet
<1>4. ticks[t].now > wantedFor + Lag /\ ticks[t].now > wantedFor
  BY <1>2, <1>3
<1> QED BY <1>1, <1>2, <1>4 DEF TicksKnow

LEMMA CalmHosts ==
  ASSUME Calm, NEW h \in HostIds
  PROVE  /\ hosts[h].hold \in Nat /\ hosts[h].shown \in Nat /\ hosts[h].tagged \in Nat /\ hosts[h].tagged <= clock
         /\ hosts[h].since \in Nat /\ hosts[h].since <= clock /\ hosts[h].state \in HostStates
         /\ hosts[h].state \in {"pending", "stopping"} \/ hosts[h].leaving => clock <= hosts[h].since + Lag
         /\ Active(h) /\ hosts[h].shown # hosts[h].hold => clock <= hosts[h].tagged + Lag
         /\ hosts[h].leaving => h \in ToSet(Bursts) /\ hosts[h].state = "running"
BY PoolNats DEF Calm, DemandIInv, Deadlines

LEMMA CalmStays ==
  ASSUME Calm
  PROVE  /\ QueueAsks' /\ Needed' = Needed /\ work' = work /\ wantedFor' = wantedFor /\ given' = given /\ Quiet' = Quiet /\ clock' > Quiet'
<1>1. Needed' = Needed /\ work' = work /\ wantedFor' = wantedFor /\ given' = given /\ Quiet' = Quiet
  BY DEF Calm, SameDemand, Quiet
<1>2. clock' > Quiet
  <2>1. clock \in Nat /\ Quiet \in Nat
    BY WaitFacts, PoolNats DEF Calm, DemandIInv
  <2> QED BY <2>1 DEF Calm
<1>3. ASSUME NEW p \in ToSet(Primaries), p \in given.stale, ~Active(p) PROVE hosts'[p].state \notin {"pending", "running"}
  <2>1. DemandIInv /\ StepKind /\ ~Disturbs /\ PoolIInv
    BY DEF Calm, DemandIInv
  <2>2. p \in HostIds /\ hosts[p].state \in HostStates
    BY HostsAreTwoRoles, CalmHosts
  <2>3. CASE hosts[p].state = "stopping"
    BY <2>1, <2>3, PrimaryChanges
  <2>4. CASE hosts[p].state = "stopped"
    <3>1. hosts'[p] = hosts[p] \/ Moves(p) \/ (\E until : TaggedTo(p, until)) \/ Launched(p)
      BY <2>1, <2>2, HostChanges, Zenon
    <3>2. ~Launched(p)
      <4>1. ASSUME NEW t \in Invocations, Launches(t), p = Head(ticks[t].starts) PROVE FALSE
        <5>1. PICK q : q = ticks[t].starts
          OBVIOUS
        <5>2. q \in Seq(HostIds \ given.stale) /\ q # <<>>
          BY <2>1, <4>1, <5>1 DEF Launches, PoolIInv, StartsMayRun
        <5>3. PICK T : T = HostIds \ given.stale
          OBVIOUS
        <5>4. q \in Seq(T) /\ q # <<>>
          BY <5>2, <5>3
        <5>5. Head(q) \in T
          BY <5>4
        <5> QED BY <1>3, <4>1, <5>1, <5>3, <5>5
      <4>2. ~Moves(p) /\ \A until : ~(TaggedTo(p, until) /\ Launched(p))
        <5>1. ~hosts[p].leaving
          BY <2>2, <2>4, CalmHosts
        <5>2. ~Moves(p)
          BY <2>4, <5>1 DEF Moves, Active
        <5>3. \A until : ~(TaggedTo(p, until) /\ Launched(p))
          BY <2>4 DEF TaggedTo, Launched
        <5> QED BY <5>2, <5>3
      <4>3. hosts'[p] = hosts[p] => ~Launched(p)
        BY DEF Launched
      <4> QED BY <2>1, <2>2, <4>1, <4>2, <4>3, HostChanges, Zenon
    <3>3. ~Moves(p)
      <4>1. ~hosts[p].leaving
        BY <2>2, <2>4, CalmHosts
      <4> QED BY <2>4, <4>1 DEF Moves, Active
    <3> QED BY <2>4, <3>1, <3>2, <3>3 DEF TaggedTo
  <2> QED BY <1>3, <2>2, <2>3, <2>4 DEF HostStates, Active
<1>4. QueueAsks'
  <2>1. work = "some" /\ (\A p \in ToSet(Primaries) : p \in given.stale /\ ~Active(p)) =>
          \A p \in ToSet(Primaries) : p \in given'.stale /\ ~(hosts'[p].state \in {"pending", "running"})
    BY <1>1, <1>3
  <2> QED BY <1>1, <2>1 DEF QueueAsks, Calm, Active
<1> QED BY <1>1, <1>2, <1>4, Zenon

\* What an invocation plans for the host it chose, and for those that are off.
LEMMA ChosenAreHeld ==
  ASSUME QueueAsks, NEW d, d.contest = 0, d.now \in Nat, d.work = work, NEW h, Chosen(h)
  PROVE  (\E g \in PlanHolds(d) : g.host = h) \/ hosts[h].hold >= d.now + FallbackHold \/ hosts[h].hold \notin Nat
<1>1. h \in ToSet(Bursts) /\ Active(h) /\ (work = "waiting" \/ FirstUp(h))
  BY DEF Chosen
<1>2. Rank(h) \in Nat /\ Len(Among(Bursts, Up)) \in Nat
  BY <1>1, RankFacts, RanksOfUp
<1>3. Rank(h) <= Fallback(d)
  <2>1. CASE work = "waiting"
    <3>1. Fallback(d) = Len(Among(Bursts, Up)) + 1
      BY <2>1 DEF Fallback
    <3>2. Rank(h) <= Len(Among(Bursts, Up))
      BY <1>1, RanksOfUp
    <3> QED BY <1>2, <3>1, <3>2
  <2>2. CASE work # "waiting"
    <3>1. work = "some" /\ \A p \in ToSet(Primaries) : ~Active(p)
      BY <2>2 DEF QueueAsks
    <3>2. Fallback(d) = 1
      BY <3>1 DEF Fallback
    <3>3. Rank(h) = 1
      BY <1>1, <2>2, RanksOfUp
    <3> QED BY <3>2, <3>3
  <2> QED BY <2>1, <2>2
<1>4. Wanted(d)[h] >= d.now + FallbackHold /\ Wanted(d)[h] \in Nat
  BY <1>1, <1>3, WantedFacts
<1>5. (\E g \in PlanHolds(d) : g.host = h) \/ ~(Wanted(d)[h] > hosts[h].hold)
  BY <1>1, HoldsFacts
<1> QED BY <1>4, <1>5, PoolTimes

LEMMA StartsByRank ==
  ASSUME QueueAsks, NEW d, d.contest = 0, d.now \in Nat, d.now > 0, d.work = work
  PROVE  /\ work # "waiting" /\ (\E h \in ToSet(Bursts) : Active(h)) => ToSet(PlanStarts(d)) \cap ToSet(Bursts) = {}
         /\ (\A h \in ToSet(Bursts) : ~Active(h)) /\ Startable \cap ToSet(Bursts) # {} =>
              ToSet(PlanStarts(d)) \cap ToSet(Bursts) # {}
<1>1. \A h \in ToSet(PlanStarts(d)) \cap ToSet(Bursts) : h \in Startable \cap ToSet(Bursts) /\ Wanted(d)[h] > 0
  BY StartsFacts, HostsAreTwoRoles
<1>2. \A h \in Startable \cap ToSet(Bursts) : Wanted(d)[h] > 0 => h \in ToSet(PlanStarts(d)) \cap ToSet(Bursts)
  BY StartsFacts
<1>3. work # "waiting" => work = "some" /\ Fallback(d) = 1
  <2>1. work # "waiting" => work = "some" /\ \A p \in ToSet(Primaries) : ~Active(p)
    BY DEF QueueAsks
  <2> QED BY <2>1 DEF Fallback
<1>4. ASSUME work # "waiting", \E h \in ToSet(Bursts) : Active(h), NEW k \in ToSet(PlanStarts(d)) \cap ToSet(Bursts) PROVE FALSE
  <2>1. k \in Startable \cap ToSet(Bursts) /\ Wanted(d)[k] > 0
    BY <1>1, <1>4
  <2>2. Rank(k) > 1 /\ Rank(k) \in Nat
    BY <1>4, <2>1, RanksOfUp, RankFacts
  <2>3. ~(Rank(k) <= Fallback(d))
    BY <1>3, <1>4, <2>2
  <2>4. Wanted(d)[k] = d.contest
    BY <2>1, <2>3, WantedFacts
  <2> QED BY <2>1, <2>4
<1>5. ASSUME \A h \in ToSet(Bursts) : ~Active(h), Startable \cap ToSet(Bursts) # {} PROVE ToSet(PlanStarts(d)) \cap ToSet(Bursts) # {}
  <2>1. PICK k \in Startable \cap ToSet(Bursts) : Rank(k) = 1
    BY <1>5, RanksOfUp
  <2>2. Fallback(d) \in Nat /\ Fallback(d) >= 1
    <3>1. work = "waiting" => Fallback(d) = Len(Among(Bursts, Up)) + 1
      BY DEF Fallback
    <3> QED BY <1>3, <3>1, RanksOfUp
  <2>3. Wanted(d)[k] >= d.now + FallbackHold /\ Wanted(d)[k] \in Nat
    BY <2>1, <2>2, WantedFacts
  <2>4. Wanted(d)[k] > 0
    BY <2>3, PoolTimes
  <2> QED BY <1>2, <2>1, <2>4
<1> QED BY <1>4, <1>5

LEMMA CalmKinds ==
  ASSUME Calm
  PROVE  /\ Elapses \/ (clock' = clock /\ ((\E t \in Invocations : Loads(t) \/ Snaps(t) \/ Tags(t) \/ Launches(t)) \/ (\E h \in HostIds : OneMove(h)) \/ Rests))
         /\ \A t \in Invocations : ticks'[t] = ticks[t] \/ (clock' = clock /\ (Loads(t) \/ Snaps(t) \/ Tags(t) \/ Launches(t)))
         /\ begun' = begun \/ \E t \in Invocations : Loads(t) /\ clock' = clock
<1>1. Elapses \/ (clock' = clock /\ ((\E t \in Invocations : Loads(t) \/ Snaps(t) \/ Tags(t) \/ Launches(t)) \/ (\E h \in HostIds : OneMove(h)) \/ Rests))
  BY Zenon DEF Calm, StepKind
<1>2. ASSUME NEW t \in Invocations, NEW s \in Invocations, Loads(s) \/ Snaps(s) \/ Tags(s) \/ Launches(s)
      PROVE  ticks'[t] = ticks[t] \/ (Loads(t) \/ Snaps(t) \/ Tags(t) \/ Launches(t))
  <2>1. OneTick(s)
    BY <1>2 DEF Loads, Snaps, Tags, Launches
  <2> QED BY <1>2, <2>1, Zenon DEF OneTick
<1>3. Elapses \/ Rests \/ (\E h \in HostIds : OneMove(h)) => SameTicks /\ begun' = begun
  BY DEF Elapses, Rests, OneMove
<1>4. \A t \in Invocations : Snaps(t) \/ Tags(t) \/ Launches(t) => begun' = begun
  BY DEF Snaps, Tags, Launches
<1> QED BY <1>1, <1>2, <1>3, <1>4, Zenon DEF SameTicks

\* What is due stays so, unless an invocation begins, in time.
LEMMA DueStays ==
  ASSUME Calm, NEW b \in Int, Due - Period <= b
  PROVE  \/ Due' - Period <= b /\ begun' = begun
         \/ /\ clock' = clock /\ Due' = Due + Period
            /\ \E t \in Invocations : /\ Loads(t) /\ ticks'[t].pc = "hosts" /\ ticks'[t].now = clock /\ clock <= b + Period + Delay
<1>1. clock \in Nat /\ Period \in Nat /\ Delay \in Nat /\ Due \in Nat /\ clock <= Due + Delay /\ begun \in Nat
  <2>1. begun \in Nat
    BY DEF Calm, DemandIInv, Deadlines
  <2> QED BY <2>1, CalmTimes
<1>2. begun' = begun => Due' = Due
  BY DueFacts
<1>3. CASE begun' = begun
  BY <1>2, <1>3
<1>4. CASE \E t \in Invocations : Loads(t) /\ clock' = clock
  <2>1. PICK t \in Invocations : Loads(t) /\ clock' = clock
    BY <1>4
  <2>2. begun' = begun + 1 /\ ticks'[t].pc = "hosts" /\ ticks'[t].now = clock
    BY <2>1 DEF Loads
  <2>3. Due' = Due + Period
    BY <1>1, <2>2, DueFacts
  <2>4. clock <= b + Period + Delay
    BY <1>1
  <2> QED BY <2>1, <2>2, <2>3, <2>4
<1> QED BY <1>3, <1>4, CalmKinds

\* An invocation that will hold the chosen host goes on, or finds it held as long, or holds it.
LEMMA CoverStays ==
  ASSUME Calm, NEW t \in Invocations, ticks[t].pc # "idle", NEW h, Chosen(h), Covers(t, h)
  PROVE  \/ ticks'[t].pc # "idle" /\ ticks'[t].now = ticks[t].now /\ Covers(t, h)'
         \/ clock' = clock /\ begun' = begun /\ hosts'[h] = hosts[h] /\ hosts[h].hold >= ticks[t].now + FallbackHold
         \/ clock' = clock /\ begun' = begun /\ TaggedTo(h, ticks[t].now + FallbackHold)
<1>1. h \in HostIds /\ h \in ToSet(Bursts) /\ hosts[h].hold \in Nat
  <2>1. h \in HostIds /\ h \in ToSet(Bursts)
    BY HostsAreTwoRoles DEF Chosen
  <2> QED BY <2>1, CalmHosts
<1>2. /\ ticks[t].now \in Nat
      /\ ticks[t].pc = "hosts" => ticks[t].contest = 0 /\ ticks[t].work = work
      /\ ticks[t].pc = "act" => \A g \in ticks[t].holds : g.until = ticks[t].now + FallbackHold /\ g.host \in ToSet(Bursts)
  BY CalmTicks
<1>3. CASE ticks'[t] = ticks[t]
  BY <1>3 DEF Covers
<1>4. CASE Loads(t)
  BY <1>4 DEF Loads
<1>5. CASE Snaps(t) /\ clock' = clock
  <2>1. PICK d : d = ticks[t]
    OBVIOUS
  <2>2. begun' = begun /\ SameHosts /\ d.pc = "hosts" /\ LeftAs(t, PlanHolds(d), PlanStarts(d))
    BY <1>5, <2>1 DEF Snaps
  <2>3. d.contest = 0 /\ d.now \in Nat /\ d.work = work
    BY <1>2, <2>1, <2>2
  <2>4. (\E g \in PlanHolds(d) : g.host = h) \/ hosts[h].hold >= d.now + FallbackHold
    BY <1>1, <2>3, ChosenAreHeld DEF Calm
  <2>5. CASE \E g \in PlanHolds(d) : g.host = h
    <3>1. ticks'[t].pc = "act" /\ ticks'[t].now = ticks[t].now /\ ticks'[t].holds = PlanHolds(d)
      BY <2>2, <2>5 DEF LeftAs
    <3> QED BY <2>5, <3>1 DEF Covers
  <2>6. CASE hosts[h].hold >= d.now + FallbackHold
    BY <1>1, <1>5, <2>1, <2>2, <2>6 DEF SameHosts
  <2> QED BY <2>4, <2>5, <2>6
<1>6. CASE Tags(t) /\ clock' = clock
  <2>1. ticks[t].pc = "act" /\ begun' = begun
    BY <1>6 DEF Tags
  <2>2. PICK first \in ticks[t].holds :
          \A k \in HostIds : IF \E g \in ticks[t].holds : g.until = first.until /\ g.host = k
                             THEN TaggedTo(k, first.until) ELSE hosts'[k] = hosts[k]
    BY <1>6, Zenon DEF Tags
  <2>3. PICK g \in ticks[t].holds : g.host = h
    BY <2>1 DEF Covers
  <2>4. g.until = first.until /\ first.until = ticks[t].now + FallbackHold
    BY <1>2, <2>1
  <2>5. TaggedTo(h, first.until)
    BY <1>1, <2>2, <2>3, <2>4, Zenon
  <2> QED BY <1>6, <2>1, <2>4, <2>5
<1>7. CASE Launches(t)
  BY <1>7 DEF Launches, Covers
<1> QED BY <1>3, <1>4, <1>5, <1>6, <1>7, CalmKinds, Zenon

\* What a step may make of a host that is chosen.
LEMMA ChosenChanges ==
  ASSUME Calm, NEW h \in HostIds, Active(h)
  PROVE  \/ hosts'[h] = hosts[h]
         \/ Moves(h) /\ clock' = clock /\ begun' = begun
         \/ \E t \in Invocations : /\ clock' = clock /\ begun' = begun /\ TaggedTo(h, ticks[t].now + FallbackHold)
                                   /\ ticks[t].pc # "idle"
<1>1. StepKind /\ ~Disturbs
  BY DEF Calm
<1>2. ~Launched(h)
  BY DEF Active, Launched
<1>3. ASSUME NEW t \in Invocations, Tags(t), NEW g \in ticks[t].holds, TaggedTo(h, g.until)
      PROVE  TaggedTo(h, ticks[t].now + FallbackHold) /\ begun' = begun /\ ticks[t].pc # "idle"
  <2>1. ticks[t].pc = "act" /\ begun' = begun
    BY <1>3 DEF Tags
  <2>2. g.until = ticks[t].now + FallbackHold
    BY <1>3, <2>1, CalmTicks
  <2> QED BY <1>3, <2>1, <2>2
<1> QED BY <1>1, <1>2, <1>3, HostChanges, Zenon

LEMMA MovesKeepHold ==
  ASSUME NEW h, Moves(h)
  PROVE  hosts'[h].hold = hosts[h].hold /\ hosts'[h].tagged = hosts[h].tagged
BY DEF Moves, Becomes

LEMMA RenewedStays ==
  ASSUME Calm, NEW h, Chosen(h), Renewed(h)
  PROVE  Renewed(h)'
<1>1. h \in HostIds /\ Active(h)
  BY HostsAreTwoRoles DEF Chosen
<1>2. /\ hosts[h].hold \in Nat /\ clock \in Nat /\ Lag \in Nat /\ Period \in Nat /\ Delay \in Nat /\ FallbackHold \in Nat /\ Due \in Nat
      /\ clock <= Due + Delay /\ Due - Period <= clock
  BY <1>1, CalmHosts, CalmTimes
<1>3. \A t \in Invocations : ticks[t].pc # "idle" => ticks[t].now \in Nat /\ ticks[t].now <= clock /\ clock <= ticks[t].now + Lag
  BY CalmTicks
<1>4. begun' = begun => Due' = Due
  BY DueFacts
<1>5. ASSUME NEW t \in Invocations, ticks[t].pc # "idle", TaggedTo(h, ticks[t].now + FallbackHold), begun' = begun
      PROVE  Due' - Period <= hosts'[h].hold - FallbackHold + 2 * Lag
  <2>1. hosts'[h].hold = ticks[t].now + FallbackHold
    BY <1>5 DEF TaggedTo
  <2> QED BY <1>2, <1>3, <1>4, <1>5, <2>1
<1>6. CASE \E t \in Invocations : ticks[t].pc # "idle" /\ TaggedTo(h, ticks[t].now + FallbackHold) /\ begun' = begun
  BY <1>5, <1>6 DEF Renewed, HeldFrom
<1>7. CASE hosts'[h].hold = hosts[h].hold
  <2>1. PICK b \in Int : b = HeldFrom(h) /\ b = hosts[h].hold - FallbackHold + 2 * Lag
    BY <1>2 DEF HeldFrom
  <2>2. b = HeldFrom(h)'
    BY <1>7, <2>1 DEF HeldFrom
  <2>3. CASE Due - Period <= b
    <3>1. CASE Due' - Period <= b
      BY <2>2, <3>1 DEF Renewed
    <3>2. CASE \E t \in Invocations : ticks'[t].pc = "hosts" /\ ticks'[t].now = clock /\ clock <= b + Period + Delay
      BY <2>2, <3>2 DEF Renewed, Covers
    <3> QED BY <2>3, <3>1, <3>2, DueStays
  <2>4. CASE \E t \in Invocations : ticks[t].pc # "idle" /\ ticks[t].now <= b + Period + Delay /\ Covers(t, h)
    <3>1. PICK t \in Invocations : ticks[t].pc # "idle" /\ ticks[t].now <= b + Period + Delay /\ Covers(t, h)
      BY <2>4
    <3>2. CASE ticks'[t].pc # "idle" /\ ticks'[t].now = ticks[t].now /\ Covers(t, h)'
      BY <2>2, <3>1, <3>2 DEF Renewed
    <3>3. CASE begun' = begun /\ hosts[h].hold >= ticks[t].now + FallbackHold
      <4>1. Due' - Period <= b
        BY <1>2, <1>3, <1>4, <2>1, <3>1, <3>3
      <4> QED BY <2>2, <4>1 DEF Renewed
    <3>4. CASE begun' = begun /\ TaggedTo(h, ticks[t].now + FallbackHold)
      BY <1>6, <3>1, <3>4
    <3> QED BY <3>1, <3>2, <3>3, <3>4, CoverStays
  <2> QED BY <2>1, <2>3, <2>4 DEF Renewed
<1> QED BY <1>1, <1>6, <1>7, ChosenChanges, MovesKeepHold

\* A host that serves keeps serving, as long as it is the chosen one.
LEMMA ServesOn ==
  ASSUME Calm, NEW h, Serves(h)
  PROVE  Active(h)' /\ ~hosts'[h].leaving /\ Renewed(h)' /\ InView(h)'
<1>1. h \in HostIds /\ Active(h) /\ Chosen(h) /\ ~hosts[h].leaving /\ Renewed(h) /\ InView(h) /\ h \in ToSet(Bursts)
  BY HostsAreTwoRoles DEF Chosen, Serves
<1>2. /\ hosts[h].hold \in Nat /\ hosts[h].shown \in Nat /\ hosts[h].tagged \in Nat /\ hosts[h].tagged <= clock
      /\ hosts[h].shown # hosts[h].hold => clock <= hosts[h].tagged + Lag
      /\ clock \in Nat /\ Lag \in Nat /\ Period \in Nat /\ Delay \in Nat /\ FallbackHold \in Nat /\ Grace \in Nat /\ Due \in Nat
      /\ Lag > 0 /\ Grace > Lag /\ FallbackHold >= Period + Delay + 3 * Lag /\ clock <= Due + Delay
  BY <1>1, CalmHosts, CalmTimes
<1>3. hosts[h].hold + Period + Delay + 3 * Lag >= clock + FallbackHold
  <2>1. HeldFrom(h) = hosts[h].hold - FallbackHold + 2 * Lag
    BY DEF HeldFrom
  <2>2. CASE Due - Period <= HeldFrom(h)
    BY <1>2, <2>1, <2>2
  <2>3. CASE \E t \in Invocations : ticks[t].pc # "idle" /\ ticks[t].now <= HeldFrom(h) + Period + Delay
    <3>1. PICK t \in Invocations : ticks[t].pc # "idle" /\ ticks[t].now <= HeldFrom(h) + Period + Delay
      BY <2>3
    <3>2. ticks[t].now \in Nat /\ clock <= ticks[t].now + Lag
      BY <3>1, CalmTicks
    <3> QED BY <1>2, <2>1, <3>1, <3>2
  <2> QED BY <1>1, <2>2, <2>3 DEF Renewed
<1>4. ~(clock >= hosts[h].shown + Grace)
  <2>1. CASE hosts[h].shown = hosts[h].hold
    BY <1>2, <1>3, <2>1
  <2>2. CASE hosts[h].shown # hosts[h].hold
    <3>1. hosts[h].shown + Period + Delay + 3 * Lag >= hosts[h].tagged + FallbackHold
      BY <1>1, <2>2 DEF InView
    <3> QED BY <1>2, <2>2, <3>1
  <2> QED BY <2>1, <2>2
<1>5. Renewed(h)'
  BY <1>1, RenewedStays
<1>6. hosts'[h].leaving = hosts[h].leaving => ~hosts'[h].leaving
  BY <1>1, Zenon
<1>7. CASE hosts'[h] = hosts[h]
  <2>1. hosts'[h].leaving = hosts[h].leaving
    BY <1>7
  <2>2. Active(h)' /\ InView(h)'
    BY <1>1, <1>7 DEF Active, InView
  <2> QED BY <1>5, <1>6, <2>1, <2>2
<1>8. CASE Moves(h)
  <2>1. \/ hosts[h].state = "pending" /\ Becomes(h, "running")
        \/ /\ hosts'[h].state = hosts[h].state /\ hosts'[h].leaving = hosts[h].leaving
           /\ hosts'[h].hold = hosts[h].hold /\ hosts'[h].shown = hosts[h].hold
    BY <1>1, <1>4, <1>8 DEF Moves, Active
  <2>2. CASE Becomes(h, "running")
    <3>1. Active(h)' /\ InView(h)'
      BY <1>1, <2>2 DEF Active, InView, Becomes
    <3>2. ~hosts'[h].leaving
      BY <2>2, Zenon DEF Becomes
    <3> QED BY <1>5, <3>1, <3>2
  <2>3. CASE /\ hosts'[h].state = hosts[h].state /\ hosts'[h].leaving = hosts[h].leaving
             /\ hosts'[h].hold = hosts[h].hold /\ hosts'[h].shown = hosts[h].hold
    <3>1. Active(h)' /\ InView(h)'
      BY <1>1, <2>3 DEF Active, InView
    <3> QED BY <1>5, <1>6, <2>3, <3>1
  <2> QED BY <2>1, <2>2, <2>3
<1>9. CASE \E t \in Invocations : TaggedTo(h, ticks[t].now + FallbackHold)
  <2>1. PICK u : TaggedTo(h, u)
    BY <1>9
  <2>2. Active(h)' /\ ~hosts'[h].leaving
    <3>1. hosts'[h].leaving = hosts[h].leaving /\ hosts'[h].state = hosts[h].state
      BY <2>1 DEF TaggedTo
    <3> QED BY <1>1, <1>6, <3>1 DEF Active
  <2>3. hosts'[h].shown = hosts[h].shown /\ hosts'[h].tagged = (IF hosts[h].shown = hosts[h].hold THEN clock ELSE hosts[h].tagged)
    BY <2>1 DEF TaggedTo
  <2>4. CASE hosts[h].shown = hosts[h].hold
    BY <1>2, <1>3, <1>5, <2>2, <2>3, <2>4 DEF InView
  <2>5. CASE hosts[h].shown # hosts[h].hold
    BY <1>1, <1>5, <2>2, <2>3, <2>5 DEF InView
  <2> QED BY <2>4, <2>5
<1> QED BY <1>1, <1>7, <1>8, <1>9, ChosenChanges

\* A burst host that comes up was just started.
LEMMA NewlyUp ==
  ASSUME Calm, NEW k \in ToSet(Bursts), ~Active(k), Active(k)'
  PROVE  \E t \in Invocations : Launches(t) /\ clock' = clock /\ k = Head(ticks[t].starts) /\ Launched(k)
<1>1. k \in HostIds /\ StepKind /\ ~Disturbs
  BY HostsAreTwoRoles DEF Calm
<1>2. hosts[k].state \in HostStates /\ (hosts[k].leaving => hosts[k].state = "running")
  BY <1>1, CalmHosts
<1>3. hosts'[k] # hosts[k]
  BY DEF Active
<1>4. ~Moves(k)
  BY <1>2 DEF Moves, Active, Becomes
<1>5. \A u : ~TaggedTo(k, u)
  BY DEF TaggedTo, Active
<1> QED BY <1>1, <1>3, <1>4, <1>5, HostChanges, Zenon

\* Then it is held, and knows it.
LEMMA NewServes ==
  ASSUME Calm, NEW k \in ToSet(Bursts), ~Active(k), Active(k)', work = "waiting" \/ FirstUp(k)'
  PROVE  Serves(k)'
<1>1. PICK t \in Invocations : Launches(t) /\ clock' = clock /\ k = Head(ticks[t].starts) /\ Launched(k)
  BY NewlyUp
<1>2. ticks[t].pc = "act" /\ ticks[t].holds = {} /\ ticks[t].starts # <<>> /\ begun' = begun
  BY <1>1 DEF Launches
<1>3. k \in HostIds /\ PoolIInv /\ StartsAreHeld /\ Needed = 0 /\ QueueAsks'
  BY HostsAreTwoRoles, CalmStays DEF Calm, DemandIInv, QueueAsks
<1>4. k \in ToSet(ticks[t].starts)
  <2>1. PICK T : T = HostIds \ given.stale
    OBVIOUS
  <2>2. PICK q \in Seq(T) : q = ticks[t].starts
    BY <1>2, <1>3, <2>1 DEF PoolIInv, StartsMayRun
  <2>3. 1 \in DOMAIN q /\ Head(q) = q[1]
    BY <1>2, <2>2
  <2> QED BY <1>1, <2>2, <2>3 DEF ToSet
<1>5. /\ ticks[t].now \in Nat /\ ticks[t].now <= clock /\ clock <= ticks[t].now + Lag /\ ticks[t].now > wantedFor + Lag
      /\ hosts[k].hold \in Nat /\ Lag \in Nat /\ FallbackHold \in Nat /\ Due \in Nat /\ Period \in Nat /\ clock \in Nat
      /\ Due - Period <= clock
  BY <1>2, <1>3, CalmTicks, CalmHosts, CalmTimes
<1>6. hosts[k].hold + Lag >= ticks[t].now + FallbackHold
  <2>1. HeldFor(t, k)
    BY <1>2, <1>3, <1>4, <1>5 DEF StartsAreHeld
  <2> QED BY <1>3, <2>1 DEF HeldFor
<1>7. hosts'[k].hold = hosts[k].hold /\ hosts'[k].shown = hosts[k].hold
  BY <1>1 DEF Launched
<1>8. ~hosts'[k].leaving
  <2>1. hosts'[k].leaving = hosts[k].leaving /\ hosts[k].state = "stopped"
    BY <1>1 DEF Launched
  <2>2. ~hosts[k].leaving
    BY <1>3, <2>1, CalmHosts
  <2> QED BY <2>1, <2>2, Zenon
<1>9. Renewed(k)'
  <2>1. Due' = Due
    BY <1>2, DueFacts
  <2>2. Due' - Period <= hosts'[k].hold - FallbackHold + 2 * Lag
    BY <1>5, <1>6, <1>7, <2>1
  <2> QED BY <2>2 DEF Renewed, HeldFrom
<1>10. InView(k)'
  BY <1>7 DEF InView
<1>11. Chosen(k)'
  <2>1. work' = work
    BY DEF Calm, SameDemand
  <2> QED BY <2>1 DEF Chosen
<1> QED BY <1>8, <1>9, <1>10, <1>11, Zenon DEF Serves

\* The first of those that run in the next state.
LEMMA SomeFirstUpNext ==
  ASSUME NEW h \in ToSet(Bursts), Active(h)'
  PROVE  \E k \in ToSet(Bursts) : FirstUp(k)'
<1> DEFINE S == {i \in DOMAIN Bursts : Active(Bursts[i])'}
<1>1. S \subseteq Nat /\ S # {}
  BY BurstFacts
<1>2. PICK i \in S : \A j \in S : i <= j
  <2> HIDE DEF S
  <2> QED BY <1>1, LeastCase
<1>3. FirstUp(Bursts[i])'
  <2>1. Bursts[i] \in ToSet(Bursts) /\ Active(Bursts[i])'
    BY BurstFacts
  <2>2. \A k, j \in DOMAIN Bursts : Bursts[k] = Bursts[i] /\ Active(Bursts[j])' => k <= j
    BY <1>2, BurstFacts
  <2> QED BY <2>1, <2>2 DEF FirstUp
<1> QED BY <1>3, BurstFacts

\* A queue that is served stays served.
LEMMA ServedStays ==
  ASSUME Calm, Served
  PROVE  Served'
<1>1. PICK h \in ToSet(Bursts) : Serves(h)
  BY DEF Served
<1>2. Active(h)' /\ ~hosts'[h].leaving /\ Renewed(h)' /\ InView(h)'
  BY <1>1, ServesOn
<1>3. work' = work
  BY DEF Calm, SameDemand
<1>4. Chosen(h)
  BY <1>1 DEF Serves
<1>5. CASE work = "waiting"
  <2>1. Chosen(h)'
    BY <1>2, <1>3, <1>5 DEF Chosen
  <2>2. Serves(h)'
    BY <1>2, <2>1, Zenon DEF Serves
  <2> QED BY <2>2, Zenon DEF Served
<1>6. CASE work # "waiting"
  <2>1. FirstUp(h)
    BY <1>4, <1>6 DEF Chosen
  <2>2. PICK k \in ToSet(Bursts) : FirstUp(k)'
    BY <1>2, SomeFirstUpNext
  <2>3. CASE Active(k)
    <3>1. PICK i, j \in DOMAIN Bursts : Bursts[i] = h /\ Bursts[j] = k
      BY BurstFacts
    <3>2. i <= j
      BY <2>1, <2>3, <3>1 DEF FirstUp
    <3>3. j <= i
      BY <1>2, <2>2, <3>1 DEF FirstUp
    <3>4. h = k
      BY <3>1, <3>2, <3>3, BurstFacts
    <3>5. Chosen(h)'
      BY <1>2, <2>2, <3>4 DEF Chosen
    <3>6. Serves(h)'
      BY <1>2, <3>5, Zenon DEF Serves
    <3> QED BY <3>6, Zenon DEF Served
  <2>4. CASE ~Active(k)
    <3>1. Active(k)'
      BY <2>2 DEF FirstUp
    <3>2. Serves(k)'
      BY <2>2, <2>4, <3>1, NewServes
    <3> QED BY <3>2, Zenon DEF Served
  <2> QED BY <2>3, <2>4
<1> QED BY <1>5, <1>6

-----------------------------------------------------------------------------
(***************************************************************************)
(* The search for a host that serves the queue.  Of those that run the     *)
(* first is held, and may have decided to stop before it saw its hold; then *)
(* the next is tried.  When none runs, one is started.                     *)
(***************************************************************************)

\* An invocation that will start a burst host.
Raises(t) == ticks[t].pc = "act" /\ ToSet(ticks[t].starts) \cap ToSet(Bursts) # {}
\* While a burst host runs for a queue that did not wait long, no other is started, but by an
\* invocation that did not know of it.
OneAtATime ==
  QueueAsks /\ clock > Quiet /\ work # "waiting" /\ ~Served /\ (\E h \in ToSet(Bursts) : Active(h)) =>
    \A t \in Invocations : Raises(t) => ticks[t].now <= Quiet

LEMMA QueueAsked ==
  ASSUME DemandIInv, StepKind, SameDemand, ~Disturbs, QueueAsks'
  PROVE  QueueAsks
<1>1. Needed' = Needed /\ work' = work /\ given' = given
  BY DEF SameDemand
<1>2. ASSUME NEW p \in ToSet(Primaries), ~(hosts'[p].state \in {"pending", "running"}) PROVE ~Active(p)
  BY <1>2, PrimaryChanges DEF Active
<1>3. \A p \in ToSet(Primaries) : ~Active(p)' => ~Active(p)
  BY <1>2 DEF Active
<1> QED BY <1>1, <1>3 DEF QueueAsks

LEMMA TailOf ==
  ASSUME NEW T, NEW q \in Seq(T), q # <<>>
  PROVE  ToSet(Tail(q)) \subseteq ToSet(q)
<1>1. Len(q) \in Nat /\ Len(Tail(q)) = Len(q) - 1 /\ \A i \in 1..Len(Tail(q)) : Tail(q)[i] = q[i + 1] /\ i + 1 \in 1..Len(q)
  OBVIOUS
<1>2. DOMAIN Tail(q) = 1..Len(Tail(q)) /\ DOMAIN q = 1..Len(q)
  <2>1. Tail(q) \in Seq(T)
    OBVIOUS
  <2> QED BY <2>1
<1> QED BY <1>1, <1>2 DEF ToSet

LEMMA CalmStarts ==
  ASSUME Calm, NEW t \in Invocations, ticks[t].pc = "act"
  PROVE  ticks[t].starts \in Seq(HostIds \ given.stale)
BY DEF Calm, DemandIInv, PoolIInv, StartsMayRun

\* Who raises a host after a step did so before, or has just planned to.
LEMMA RaisesBefore ==
  ASSUME Calm, NEW t \in Invocations, Raises(t)'
  PROVE  /\ ticks'[t].now = ticks[t].now /\ ticks[t].pc # "idle"
         /\ Raises(t) \/ (/\ Snaps(t) /\ SameHosts /\ ticks[t].pc = "hosts"
                          /\ ToSet(PlanStarts(ticks[t])) \cap ToSet(Bursts) # {})
<1>0. ticks'[t].pc = "act"
  BY DEF Raises
<1>1. CASE ticks'[t] = ticks[t]
  BY <1>0, <1>1 DEF Raises
<1>2. CASE Loads(t)
  BY <1>0, <1>2 DEF Loads
<1>3. CASE Snaps(t)
  <2>1. PICK H, S : H = PlanHolds(ticks[t]) /\ S = PlanStarts(ticks[t])
    OBVIOUS
  <2>2. SameHosts /\ ticks[t].pc = "hosts" /\ LeftAs(t, H, S)
    BY <1>3, <2>1 DEF Snaps
  <2>3. ticks'[t].now = ticks[t].now /\ ticks'[t].starts = S
    BY <1>0, <2>2 DEF LeftAs
  <2> QED BY <1>3, <2>1, <2>2, <2>3 DEF Raises
<1>4. CASE Tags(t)
  <2>1. PICK H : LeftAs(t, H, ticks[t].starts) /\ ticks[t].pc = "act"
    BY <1>4 DEF Tags
  <2> QED BY <1>0, <2>1 DEF LeftAs, Raises
<1>5. CASE Launches(t)
  <2>1. PICK q : q = ticks[t].starts
    OBVIOUS
  <2>2. q # <<>> /\ ticks[t].pc = "act" /\ LeftAs(t, {}, Tail(q))
    BY <1>5, <2>1 DEF Launches
  <2>3. ticks'[t].now = ticks[t].now /\ ticks'[t].starts = Tail(q)
    BY <1>0, <2>2 DEF LeftAs
  <2>4. PICK T : T = HostIds \ given.stale
    OBVIOUS
  <2>5. q \in Seq(T)
    BY <2>1, <2>2, <2>4, CalmStarts
  <2>6. ToSet(Tail(q)) \subseteq ToSet(q)
    BY <2>2, <2>5, TailOf
  <2> QED BY <2>1, <2>2, <2>3, <2>6 DEF Raises
<1> QED BY <1>1, <1>2, <1>3, <1>4, <1>5, CalmKinds, Zenon

LEMMA OneAtATimeHolds ==
  ASSUME DemandIInv, OneAtATime, StepKind
  PROVE  OneAtATime'
<1> SUFFICES ASSUME QueueAsks', clock' > Quiet', work' # "waiting", ~Served', NEW h \in ToSet(Bursts), Active(h)',
                    NEW t \in Invocations, Raises(t)'
             PROVE  ticks'[t].now <= Quiet'
  BY Zenon DEF OneAtATime
<1>1. /\ clock \in Nat /\ wantedFor \in Nat /\ Lag \in Nat /\ Lag > 0 /\ PoolIInv /\ Deadlines /\ Quiet \in Nat /\ Quiet = wantedFor + 2 * Lag
  BY PoolNats, PoolTimes, WaitFacts DEF DemandIInv
<1>2. clock' \in Nat /\ wantedFor' \in Nat
  <2>1. (clock' = clock \/ clock' = clock + 1) /\ wantedFor' \in {wantedFor, clock, clock'}
    BY DEF StepKind, Elapses, Disturbs, SameDemand
  <2> QED BY <1>1, <2>1
<1>3. clock' > wantedFor'
  <2>1. clock' > wantedFor' + 2 * Lag
    BY Zenon DEF Quiet
  <2>2. \A a, b, c \in Nat : a > b + 2 * c => a > b
    OBVIOUS
  <2> QED BY <1>1, <1>2, <2>1, <2>2
<1>4. SameDemand /\ ~Disturbs /\ ((clock' = clock + 1 /\ Elapses) \/ clock' = clock)
  BY <1>3, CalmSteps
<1>5. QueueAsks /\ work' = work /\ Quiet' = Quiet
  BY <1>4, QueueAsked DEF SameDemand, Quiet
<1>6. CASE ~(clock > Quiet)
  <2>1. Elapses /\ clock = Quiet
    BY <1>1, <1>4, <1>5, <1>6
  <2>2. ticks'[t] = ticks[t]
    BY <2>1 DEF Elapses, SameTicks
  <2>3. ticks[t].pc = "act"
    BY <2>2 DEF Raises
  <2>4. ticks[t].now \in Nat /\ ticks[t].now <= clock
    BY <1>1, <2>3 DEF Deadlines
  <2> QED BY <1>5, <2>1, <2>2, <2>4
<1>7. CASE clock > Quiet
  <2>1. Calm
    BY <1>4, <1>5, <1>7, Zenon DEF Calm
  <2>2. ~Served
    BY <2>1, ServedStays
  <2>3. ticks'[t].now = ticks[t].now /\ ticks[t].pc # "idle"
    BY <2>1, RaisesBefore
  <2>4. CASE \E k \in ToSet(Bursts) : Active(k)
    <3>1. CASE Raises(t)
      BY <1>5, <1>7, <2>2, <2>3, <2>4, <3>1 DEF OneAtATime
    <3>2. CASE ticks[t].pc = "hosts" /\ ToSet(PlanStarts(ticks[t])) \cap ToSet(Bursts) # {}
      <4>1. PICK d : d = ticks[t]
        OBVIOUS
      <4>2. d.contest = 0 /\ d.now \in Nat /\ d.now > 0 /\ d.work = work
        <5>1. d.contest = 0 /\ d.now \in Nat /\ d.now > wantedFor + Lag /\ d.work = work
          BY <2>1, <3>2, <4>1, CalmTicks
        <5> QED BY <1>1, <5>1
      <4>3. ToSet(PlanStarts(d)) \cap ToSet(Bursts) = {}
        BY <1>5, <2>4, <4>2, StartsByRank
      <4> QED BY <3>2, <4>1, <4>3
    <3> QED BY <2>1, <3>1, <3>2, RaisesBefore
  <2>5. CASE \A k \in ToSet(Bursts) : ~Active(k)
    <3>1. PICK k \in ToSet(Bursts) : FirstUp(k)'
      BY SomeFirstUpNext
    <3>2. Active(k)' /\ ~Active(k)
      BY <2>5, <3>1 DEF FirstUp
    <3>3. Serves(k)'
      BY <2>1, <3>1, <3>2, NewServes
    <3> QED BY <3>3, Zenon DEF Served
  <2> QED BY <2>4, <2>5
<1> QED BY <1>6, <1>7

\* By then every invocation that is open knows the queue, and so did the one before.
Settled == wantedFor + 3 * Lag
Down    == {h \in ToSet(Bursts) : ~Active(h)}
\* By when each of the hosts that are down has been tried.
Tried   == Settled + Cardinality(Down) * Attempt

\* The first host that runs is held before another goes down.
Holding(b) ==
  \/ Due - Period <= b
  \/ \E t \in Invocations : ticks[t].pc # "idle" /\ ticks[t].now <= b + Period + Delay /\ \E h \in ToSet(Bursts) : FirstUp(h) /\ Covers(t, h)
  \/ \E h \in ToSet(Bursts) : FirstUp(h) /\ ~hosts[h].leaving /\ Renewed(h) /\ hosts[h].shown # hosts[h].hold
                              /\ hosts[h].tagged <= b + Period + Delay + Lag
  \/ \E h \in ToSet(Bursts) : hosts[h].leaving /\ hosts[h].since <= b + Period + Delay + 2 * Lag
\* When none runs, one is started.
Restarting(b) ==
  /\ \A h \in ToSet(Bursts) : hosts[h].state = "stopping" => hosts[h].since <= b
  /\ \/ Due - Period <= b + Lag
     \/ \E t \in Invocations : /\ ticks[t].pc # "idle" /\ ticks[t].now > b + Lag /\ ticks[t].now <= b + Lag + Period + Delay
                               /\ ticks[t].pc = "hosts" \/ Raises(t)
HostIsFound ==
  QueueAsks /\ clock > Settled /\ ~Served => IF Down = ToSet(Bursts) THEN Restarting(Tried) ELSE Holding(Tried)

LEMMA BurstsAreFinite == IsFiniteSet(ToSet(Bursts)) /\ Cardinality(ToSet(Bursts)) <= Len(Bursts)
<1>1. PICK n \in Nat : n = Len(Bursts)
  BY BurstFacts
<1>2. Bursts \in Surjection(1..n, ToSet(Bursts))
  BY <1>1, BurstFacts DEF Surjection, ToSet
<1>3. IsFiniteSet(1..n) /\ Cardinality(1..n) = n
  BY FS_Interval
<1> QED BY <1>1, <1>2, <1>3, FS_Surjection

LEMMA DownFacts ==
  /\ IsFiniteSet(Down) /\ Cardinality(Down) \in Nat /\ Cardinality(Down) <= Len(Bursts)
  /\ Down # ToSet(Bursts) => Cardinality(Down) + 1 <= Len(Bursts)
<1>1. IsFiniteSet(ToSet(Bursts)) /\ Cardinality(ToSet(Bursts)) <= Len(Bursts)
  BY BurstsAreFinite
<1>2. Down \subseteq ToSet(Bursts)
  BY DEF Down
<1>3. /\ IsFiniteSet(Down) /\ Cardinality(Down) <= Cardinality(ToSet(Bursts))
      /\ Cardinality(Down) = Cardinality(ToSet(Bursts)) => Down = ToSet(Bursts)
  BY <1>1, <1>2, FS_Subset
<1>4. Cardinality(Down) \in Nat /\ Cardinality(ToSet(Bursts)) \in Nat
  BY <1>1, <1>3, FS_CardinalityType
<1> QED BY <1>1, <1>3, <1>4, BurstFacts

\* A host more that is down gives the next attempt its time.
LEMMA TriedLater ==
  ASSUME wantedFor \in Nat, wantedFor' = wantedFor, Down \subseteq Down', Down' # Down, Down' \subseteq ToSet(Bursts)
  PROVE  Tried \in Nat /\ Tried' \in Nat /\ Tried' >= Tried + Attempt /\ Attempt \in Nat
<1>1. PICK D, E : D = Down /\ E = Down'
  OBVIOUS
<1>2. IsFiniteSet(ToSet(Bursts))
  BY BurstsAreFinite
<1>3. IsFiniteSet(D) /\ IsFiniteSet(E)
  BY <1>1, <1>2, FS_Subset, DownFacts
<1>4. Cardinality(D) <= Cardinality(E) /\ (Cardinality(D) = Cardinality(E) => D = E)
  BY <1>1, <1>3, FS_Subset
<1>5. Cardinality(D) \in Nat /\ Cardinality(E) \in Nat
  BY <1>3, FS_CardinalityType
<1>6. Cardinality(E) >= Cardinality(D) + 1
  BY <1>1, <1>4, <1>5
<1>7. Attempt \in Nat /\ Settled \in Nat /\ Settled' = Settled
  BY PoolTimes DEF Attempt, Settled
<1>8. Tried = Settled + Cardinality(D) * Attempt /\ Tried' = Settled + Cardinality(E) * Attempt
  BY <1>1, <1>7 DEF Tried, Attempt
<1>9. \A d, e, a, s \in Nat : e >= d + 1 => s + e * a >= s + d * a + a
  <2> SUFFICES ASSUME NEW d \in Nat, NEW e \in Nat, NEW a \in Nat, NEW s \in Nat, e >= d + 1 PROVE s + e * a >= s + d * a + a
    OBVIOUS
  <2>1. PICK f \in Nat : f = e - (d + 1)
    OBVIOUS
  <2>2. e = d + 1 + f
    BY <2>1
  <2>3. e * a = d * a + a + f * a
    BY <2>2
  <2>4. f * a \in Nat /\ d * a \in Nat
    OBVIOUS
  <2> QED BY <2>3, <2>4
<1>10. \A d, a \in Nat : d * a \in Nat
  OBVIOUS
<1>11. Tried \in Nat /\ Tried' \in Nat
  <2>1. Cardinality(D) * Attempt \in Nat /\ Cardinality(E) * Attempt \in Nat
    BY <1>5, <1>7, <1>10
  <2> QED BY <1>7, <1>8, <2>1
<1> QED BY <1>5, <1>6, <1>7, <1>8, <1>9, <1>11

LEMMA TriedTime ==
  ASSUME wantedFor \in Nat
  PROVE  Tried \in Nat /\ Tried >= Settled /\ Settled \in Nat /\ Settled = wantedFor + 3 * Lag
<1>1. PICK c \in Nat, a \in Nat : c = Cardinality(Down) /\ a = Attempt
  BY DownFacts, PoolTimes DEF Attempt
<1>2. \A d, e \in Nat : d * e \in Nat
  OBVIOUS
<1>3. c * a \in Nat
  BY <1>2
<1>4. Tried = Settled + c * a
  BY <1>1 DEF Tried
<1> QED BY <1>3, <1>4, PoolTimes DEF Settled

\* Once the invocations know the queue, no burst host starts that does not serve it.
LEMMA NoneLaunched ==
  ASSUME Calm, OneAtATime, clock > Settled, ~Served', NEW k \in ToSet(Bursts), ~Active(k)
  PROVE  ~Active(k)'
<1> SUFFICES ASSUME Active(k)' PROVE FALSE
  OBVIOUS
<1>1. ~Served /\ QueueAsks /\ clock > Quiet
  <2>1. QueueAsks /\ clock > Quiet
    BY DEF Calm
  <2>2. ~Served
    BY ServedStays
  <2> QED BY <2>1, <2>2
<1>2. work # "waiting" /\ ~FirstUp(k)'
  <2>1. ~Serves(k)'
    BY Zenon DEF Served
  <2> QED BY <2>1, NewServes
<1>3. PICK t \in Invocations : Launches(t) /\ k = Head(ticks[t].starts)
  BY NewlyUp
<1>4. ticks[t].pc = "act" /\ ticks[t].starts # <<>>
  BY <1>3 DEF Launches
<1>5. Raises(t)
  <2>1. PICK T : T = HostIds \ given.stale
    OBVIOUS
  <2>2. PICK q \in Seq(T) : q = ticks[t].starts
    BY <1>4, <2>1, CalmStarts
  <2>3. 1 \in DOMAIN q /\ Head(q) = q[1]
    BY <1>4, <2>2
  <2>4. k \in ToSet(q)
    BY <1>3, <2>2, <2>3 DEF ToSet
  <2> QED BY <1>4, <2>2, <2>4 DEF Raises
<1>6. CASE \E h \in ToSet(Bursts) : Active(h)
  <2>1. ticks[t].now <= Quiet
    BY <1>1, <1>2, <1>5, <1>6 DEF OneAtATime
  <2>2. ticks[t].now \in Nat /\ clock <= ticks[t].now + Lag /\ clock \in Nat /\ Lag \in Nat
    BY <1>4, CalmTicks, CalmTimes
  <2>3. Settled = wantedFor + 3 * Lag /\ Quiet = wantedFor + 2 * Lag /\ wantedFor \in Nat
    BY PoolNats DEF Settled, Quiet, Calm, DemandIInv
  <2> QED BY <2>1, <2>2, <2>3
<1>7. CASE \A h \in ToSet(Bursts) : ~Active(h)
  <2>1. PICK j \in ToSet(Bursts) : FirstUp(j)'
    BY SomeFirstUpNext
  <2>2. Active(j)' /\ ~Active(j)
    BY <1>7, <2>1 DEF FirstUp
  <2>3. Serves(j)'
    BY <2>1, <2>2, NewServes
  <2> QED BY <2>3, Zenon DEF Served
<1> QED BY <1>6, <1>7

LEMMA SameFirst ==
  ASSUME Down' = Down, NEW h, FirstUp(h)
  PROVE  FirstUp(h)'
<1>1. \A k \in ToSet(Bursts) : Active(k)' <=> Active(k)
  <2>1. \A k \in ToSet(Bursts) : (k \in Down <=> ~Active(k)) /\ (k \in Down' <=> ~Active(k)')
    BY DEF Down
  <2> QED BY <2>1
<1> QED BY <1>1, BurstFacts DEF FirstUp

\* The first host that runs is still the one that is held, or on its way off, and it did not take longer.
LEMMA HoldingStays ==
  ASSUME Calm, ~Served, ~Served', Down' = Down, Down # ToSet(Bursts), NEW b \in Nat, Holding(b)
  PROVE  Holding(b)'
<1>1. /\ clock \in Nat /\ Lag \in Nat /\ Period \in Nat /\ Delay \in Nat /\ FallbackHold \in Nat /\ Due \in Nat
      /\ Due - Period <= clock /\ (begun' = begun => Due' = Due)
  BY CalmTimes, DueFacts
<1>2. \A h \in ToSet(Bursts) : Active(h) <=> Active(h)'
  <2>1. \A k \in ToSet(Bursts) : (k \in Down <=> ~Active(k)) /\ (k \in Down' <=> ~Active(k)')
    BY DEF Down
  <2> QED BY <2>1
<1>3. \A h : FirstUp(h) => h \in ToSet(Bursts) /\ h \in HostIds /\ Active(h) /\ Active(h)' /\ Chosen(h) /\ FirstUp(h)' /\ Chosen(h)'
  <2>1. \A h : FirstUp(h) => h \in ToSet(Bursts) /\ Active(h) /\ FirstUp(h)'
    BY SameFirst DEF FirstUp
  <2> QED BY <1>2, <2>1, HostsAreTwoRoles DEF Chosen
<1>4. \A h \in ToSet(Bursts) : h \in HostIds /\ hosts[h].hold \in Nat /\ hosts[h].tagged \in Nat /\ hosts[h].tagged <= clock /\ hosts[h].since \in Nat /\ hosts[h].since <= clock
  BY HostsAreTwoRoles, CalmHosts
\* A host that would serve but for its tag or its decision.
<1>5. ASSUME NEW h, FirstUp(h), Renewed(h)', hosts'[h].tagged <= clock, hosts'[h].since <= clock,
             clock <= b + Period + Delay + Lag
      PROVE  Holding(b)'
  <2>1. FirstUp(h)' /\ Chosen(h)' /\ h \in ToSet(Bursts)
    BY <1>3, <1>5
  <2>2. hosts'[h].leaving => hosts'[h].since <= b + Period + Delay + 2 * Lag
    <3>1. b + Period + Delay + Lag <= b + Period + Delay + 2 * Lag
      BY <1>1
    <3>2. hosts'[h].since \in Int
      <4>1. hosts'[h] = hosts[h] \/ Moves(h) \/ \E u : TaggedTo(h, u)
        BY <1>3, <1>5, ChosenChanges
      <4>2. hosts'[h].since \in {hosts[h].since, clock}
        BY <4>1 DEF Moves, Becomes, TaggedTo
      <4> QED BY <1>1, <1>4, <2>1, <4>2
    <3>3. clock \in Nat /\ hosts'[h].since <= clock
      BY <1>1, <1>5
    <3>4. \A x, y, z, v \in Int : x <= y /\ y <= z /\ z <= v => x <= v
      OBVIOUS
    <3>5. b + Period + Delay + Lag \in Int /\ b + Period + Delay + 2 * Lag \in Int
      BY <1>1
    <3> QED BY <1>5, <3>1, <3>2, <3>3, <3>4, <3>5
  <2>3. CASE hosts'[h].leaving
    BY <2>1, <2>2, <2>3 DEF Holding
  <2>4. CASE ~hosts'[h].leaving
    <3>1. ~InView(h)'
      <4>1. ~Serves(h)'
        BY <2>1, Zenon DEF Served
      <4> QED BY <1>5, <2>1, <2>4, <4>1, Zenon DEF Serves
    <3>2. hosts'[h].shown # hosts'[h].hold
      BY <3>1 DEF InView
    <3>3. hosts'[h].tagged <= b + Period + Delay + Lag
      <4>1. hosts'[h].tagged \in Int
        <5>1. hosts'[h] = hosts[h] \/ Moves(h) \/ \E u : TaggedTo(h, u)
          BY <1>3, <1>5, ChosenChanges
        <5>2. hosts'[h].tagged \in {hosts[h].tagged, clock}
          BY <5>1 DEF Moves, Becomes, TaggedTo
        <5> QED BY <1>1, <1>4, <2>1, <5>2
      <4> QED BY <1>1, <1>5, <4>1
    <3> QED BY <1>5, <2>1, <2>4, <3>2, <3>3 DEF Holding
  <2> QED BY <2>3, <2>4
<1>6. CASE Due - Period <= b
  <2>1. CASE Due' - Period <= b
    BY <2>1 DEF Holding
  <2>2. CASE \E t \in Invocations : ticks'[t].pc = "hosts" /\ ticks'[t].now = clock /\ clock <= b + Period + Delay
    <3>1. PICK t \in Invocations : ticks'[t].pc = "hosts" /\ ticks'[t].now = clock /\ clock <= b + Period + Delay
      BY <2>2
    <3>2. PICK k \in ToSet(Bursts) : Active(k)
      BY DEF Down
    <3>3. PICK h \in ToSet(Bursts) : FirstUp(h)
      BY <3>2, SomeFirstUp
    <3>4. FirstUp(h)' /\ Covers(t, h)'
      BY <1>3, <3>1, <3>3 DEF Covers
    <3> QED BY <3>1, <3>4 DEF Holding
  <2> QED BY <1>6, <2>1, <2>2, DueStays
<1>7. CASE \E t \in Invocations : ticks[t].pc # "idle" /\ ticks[t].now <= b + Period + Delay /\ \E h \in ToSet(Bursts) : FirstUp(h) /\ Covers(t, h)
  <2>1. PICK t \in Invocations : ticks[t].pc # "idle" /\ ticks[t].now <= b + Period + Delay /\ \E h \in ToSet(Bursts) : FirstUp(h) /\ Covers(t, h)
    BY <1>7
  <2>2. PICK h \in ToSet(Bursts) : FirstUp(h) /\ Covers(t, h)
    BY <2>1
  <2>3. Chosen(h) /\ FirstUp(h)' /\ Chosen(h)' /\ h \in HostIds
    BY <1>3, <2>2
  <2>4. ticks[t].now \in Nat /\ ticks[t].now <= clock /\ clock <= ticks[t].now + Lag
    BY <2>1, CalmTicks
  <2>5. clock <= b + Period + Delay + Lag
    BY <1>1, <2>1, <2>4
  <2>6. CASE ticks'[t].pc # "idle" /\ ticks'[t].now = ticks[t].now /\ Covers(t, h)'
    BY <2>1, <2>3, <2>6 DEF Holding
  <2>7. CASE begun' = begun /\ hosts'[h] = hosts[h] /\ hosts[h].hold >= ticks[t].now + FallbackHold
    <3>1. hosts[h].hold \in Nat /\ hosts'[h].tagged <= clock /\ hosts'[h].since <= clock
      BY <1>4, <2>7
    <3>2. Due' - Period <= hosts'[h].hold - FallbackHold + 2 * Lag
      BY <1>1, <2>4, <2>7, <3>1
    <3>3. Renewed(h)'
      BY <3>2 DEF Renewed, HeldFrom
    <3> QED BY <1>5, <2>2, <2>5, <3>1, <3>3
  <2>8. CASE begun' = begun /\ TaggedTo(h, ticks[t].now + FallbackHold)
    <3>1. /\ hosts'[h].since = hosts[h].since /\ hosts'[h].hold = ticks[t].now + FallbackHold
          /\ hosts'[h].tagged \in {clock, hosts[h].tagged}
      BY <2>8 DEF TaggedTo
    <3>2. hosts'[h].tagged <= clock /\ hosts'[h].since <= clock
      BY <1>1, <1>4, <3>1
    <3>3. Due' - Period <= hosts'[h].hold - FallbackHold + 2 * Lag
      BY <1>1, <2>4, <2>8, <3>1
    <3>4. Renewed(h)'
      BY <3>3 DEF Renewed, HeldFrom
    <3> QED BY <1>5, <2>2, <2>5, <3>2, <3>4
  <2> QED BY <2>1, <2>2, <2>3, <2>6, <2>7, <2>8, CoverStays
<1>8. CASE \E h \in ToSet(Bursts) : FirstUp(h) /\ ~hosts[h].leaving /\ Renewed(h) /\ hosts[h].shown # hosts[h].hold
                                    /\ hosts[h].tagged <= b + Period + Delay + Lag
  <2>1. PICK h \in ToSet(Bursts) : FirstUp(h) /\ ~hosts[h].leaving /\ Renewed(h) /\ hosts[h].shown # hosts[h].hold
                                    /\ hosts[h].tagged <= b + Period + Delay + Lag
    BY <1>8
  <2>2. h \in HostIds /\ Active(h) /\ Active(h)' /\ Chosen(h) /\ FirstUp(h)' /\ Chosen(h)'
    BY <1>3, <2>1
  <2>3. Renewed(h)'
    BY <2>1, <2>2, RenewedStays
  <2>4. clock <= hosts[h].tagged + Lag /\ hosts[h].tagged \in Nat /\ (hosts'[h].leaving = hosts[h].leaving => ~hosts'[h].leaving)
    BY <2>1, <2>2, CalmHosts
  <2>5. CASE hosts'[h] = hosts[h]
    <3>1. hosts'[h].leaving = hosts[h].leaving /\ hosts'[h].shown # hosts'[h].hold /\ hosts'[h].tagged = hosts[h].tagged
      BY <2>1, <2>5
    <3> QED BY <2>1, <2>2, <2>3, <2>4, <3>1 DEF Holding
  <2>6. CASE Moves(h)
    <3>1. \/ Becomes(h, "running")
          \/ hosts'[h].leaving = hosts[h].leaving /\ hosts'[h].hold = hosts[h].hold /\ hosts'[h].shown = hosts[h].hold
          \/ hosts'[h].leaving /\ hosts'[h].since = clock
      BY <2>1, <2>2, <2>6 DEF Moves, Active
    <3>2. CASE Becomes(h, "running")
      <4>1. ~hosts'[h].leaving
        BY <3>2, Zenon DEF Becomes
      <4>2. hosts'[h].shown # hosts'[h].hold /\ hosts'[h].tagged = hosts[h].tagged
        BY <2>1, <3>2 DEF Becomes
      <4> QED BY <2>1, <2>2, <2>3, <4>1, <4>2 DEF Holding
    <3>3. CASE hosts'[h].leaving = hosts[h].leaving /\ hosts'[h].hold = hosts[h].hold /\ hosts'[h].shown = hosts[h].hold
      <4>1. InView(h)'
        BY <3>3 DEF InView
      <4>2. ~hosts'[h].leaving
        BY <2>4, <3>3
      <4>3. Serves(h)'
        BY <2>2, <2>3, <4>1, <4>2, Zenon DEF Serves
      <4> QED BY <4>3, Zenon DEF Served
    <3>4. CASE hosts'[h].leaving /\ hosts'[h].since = clock
      <4>1. hosts'[h].since <= b + Period + Delay + 2 * Lag
        BY <1>1, <2>1, <2>4, <3>4
      <4> QED BY <3>4, <4>1 DEF Holding
    <3> QED BY <3>1, <3>2, <3>3, <3>4
  <2>7. CASE \E u : TaggedTo(h, u)
    <3>1. PICK u : TaggedTo(h, u)
      BY <2>7
    <3>2. hosts'[h].leaving = hosts[h].leaving /\ hosts'[h].tagged = hosts[h].tagged
      BY <2>1, <3>1 DEF TaggedTo
    <3>3. ~hosts'[h].leaving
      BY <2>4, <3>2
    <3>4. ~InView(h)'
      <4>1. ~Serves(h)'
        BY Zenon DEF Served
      <4> QED BY <2>2, <2>3, <3>3, <4>1, Zenon DEF Serves
    <3>5. hosts'[h].shown # hosts'[h].hold
      BY <3>4 DEF InView
    <3> QED BY <2>1, <2>2, <2>3, <3>2, <3>3, <3>5 DEF Holding
  <2> QED BY <2>2, <2>5, <2>6, <2>7, ChosenChanges
<1>9. CASE \E h \in ToSet(Bursts) : hosts[h].leaving /\ hosts[h].since <= b + Period + Delay + 2 * Lag
  <2>1. PICK h \in ToSet(Bursts) : hosts[h].leaving /\ hosts[h].since <= b + Period + Delay + 2 * Lag
    BY <1>9
  <2>2. h \in HostIds /\ hosts[h].state = "running" /\ Active(h) /\ Active(h)'
    <3>1. h \in HostIds /\ hosts[h].state = "running"
      BY <2>1, HostsAreTwoRoles, CalmHosts
    <3> QED BY <1>2, <2>1, <3>1 DEF Active
  <2>3. hosts'[h].leaving = hosts[h].leaving /\ hosts'[h].since = hosts[h].since
    <3>1. CASE hosts'[h] = hosts[h]
      BY <3>1
    <3>2. CASE Moves(h)
      <4>1. ~Becomes(h, "stopping")
        BY <2>2 DEF Becomes, Active
      <4> QED BY <2>1, <2>2, <3>2, <4>1 DEF Moves
    <3>3. CASE \E u : TaggedTo(h, u)
      BY <3>3 DEF TaggedTo
    <3> QED BY <2>2, <3>1, <3>2, <3>3, ChosenChanges
  <2>4. hosts'[h].leaving
    BY <2>1, <2>3, Zenon
  <2>5. hosts'[h].since <= b + Period + Delay + 2 * Lag
    BY <2>1, <2>3
  <2> QED BY <2>4, <2>5 DEF Holding
<1> QED BY <1>6, <1>7, <1>8, <1>9, Zenon DEF Holding

\* Whatever it waits for takes no longer than an attempt.
LEMMA HoldingTime ==
  ASSUME DemandIInv, NEW b \in Nat, Holding(b)
  PROVE  clock <= b + Attempt
<1>1. PoolIInv /\ Deadlines
  BY DEF DemandIInv
<1>2. /\ clock \in Nat /\ Lag \in Nat /\ Period \in Nat /\ Delay \in Nat /\ Due \in Nat /\ clock <= Due + Delay
      /\ Attempt = Period + Delay + 3 * Lag
  BY <1>1, PoolNats, PoolTimes, DueFacts DEF Deadlines, Attempt
<1>3. \A t \in Invocations : ticks[t].pc # "idle" => ticks[t].now \in Nat /\ clock <= ticks[t].now + Lag
  BY <1>1 DEF Deadlines
<1>4. \A h \in ToSet(Bursts) :
        /\ hosts[h].tagged \in Nat /\ hosts[h].since \in Nat
        /\ hosts[h].leaving => clock <= hosts[h].since + Lag
        /\ Active(h) /\ hosts[h].shown # hosts[h].hold => clock <= hosts[h].tagged + Lag
  BY <1>1, HostsAreTwoRoles, PoolNats DEF Deadlines
<1>5. CASE Due - Period <= b
  BY <1>2, <1>5
<1>6. CASE \E t \in Invocations : ticks[t].pc # "idle" /\ ticks[t].now <= b + Period + Delay
  BY <1>2, <1>3, <1>6
<1>7. CASE \E h \in ToSet(Bursts) : FirstUp(h) /\ hosts[h].shown # hosts[h].hold /\ hosts[h].tagged <= b + Period + Delay + Lag
  BY <1>2, <1>4, <1>7 DEF FirstUp
<1>8. CASE \E h \in ToSet(Bursts) : hosts[h].leaving /\ hosts[h].since <= b + Period + Delay + 2 * Lag
  BY <1>2, <1>4, <1>8
<1> QED BY <1>5, <1>6, <1>7, <1>8, Zenon DEF Holding

\* None runs: those that stop are off in time for the invocation that will start one.
LEMMA RestartingStays ==
  ASSUME Calm, Down = ToSet(Bursts), Down' = Down, NEW b \in Nat, Restarting(b)
  PROVE  Restarting(b)'
<1>1. /\ clock \in Nat /\ Lag \in Nat /\ Period \in Nat /\ Delay \in Nat /\ Due \in Nat
      /\ QueueAsks /\ wantedFor \in Nat
  <2>1. wantedFor \in Nat /\ QueueAsks
    BY PoolNats DEF Calm, DemandIInv
  <2> QED BY <2>1, CalmTimes
<1>2. \A h \in ToSet(Bursts) : ~Active(h) /\ ~Active(h)' /\ h \in HostIds /\ hosts[h].state \in {"stopping", "stopped"}
  <2>1. \A k \in ToSet(Bursts) : (k \in Down <=> ~Active(k)) /\ (k \in Down' <=> ~Active(k)')
    BY DEF Down
  <2>2. \A h \in ToSet(Bursts) : h \in HostIds /\ hosts[h].state \in HostStates
    BY HostsAreTwoRoles, CalmHosts
  <2> QED BY <2>1, <2>2 DEF HostStates, Active
<1>3. \A h \in ToSet(Bursts) : hosts[h].state = "stopping" => hosts[h].since \in Nat /\ hosts[h].since <= b /\ clock <= hosts[h].since + Lag
  BY <1>2, CalmHosts DEF Restarting
<1>4. ASSUME NEW h \in ToSet(Bursts), hosts'[h].state = "stopping" PROVE hosts'[h].since <= b
  <2>1. \/ hosts'[h] = hosts[h] \/ Moves(h) \/ (\E u : TaggedTo(h, u)) \/ Launched(h)
    BY <1>2, HostChanges, Zenon DEF Calm
  <2>2. ~hosts[h].leaving
    BY <1>2, CalmHosts
  <2>3. ~Moves(h) \/ Becomes(h, "stopped")
    BY <1>2, <2>2 DEF Moves, Active
  <2>4. ~Launched(h) /\ ~Becomes(h, "stopped")
    BY <1>4 DEF Launched, Becomes
  <2>5. hosts'[h].since = hosts[h].since /\ hosts'[h].state = hosts[h].state
    BY <2>1, <2>3, <2>4 DEF TaggedTo
  <2> QED BY <1>3, <1>4, <2>5
<1>5. ASSUME clock > b + Lag PROVE \A h \in ToSet(Bursts) : hosts[h].state = "stopped"
  BY <1>1, <1>2, <1>3, <1>5
<1>6. CASE Due - Period <= b + Lag
  <2>1. CASE Due' - Period <= b + Lag
    BY <1>4, <2>1 DEF Restarting
  <2>2. ASSUME NEW t \in Invocations, Due' = Due + Period, Loads(t), ticks'[t].pc = "hosts", ticks'[t].now = clock, clock <= (b + Lag) + Period + Delay
        PROVE  Restarting(b)'
    <3>1. Due <= clock
      BY <2>2 DEF Loads
    <3>2. CASE clock <= b + Lag
      <4>1. Due' - Period <= b + Lag
        BY <1>1, <2>2, <3>1, <3>2
      <4> QED BY <1>4, <4>1 DEF Restarting
    <3>3. CASE clock > b + Lag
      BY <1>4, <2>2, <3>3 DEF Restarting
    <3> QED BY <1>1, <3>2, <3>3
  <2>3. b + Lag \in Int
    BY <1>1
  <2> QED BY <1>6, <2>1, <2>2, <2>3, DueStays
<1>7. ASSUME NEW t \in Invocations, ticks[t].pc # "idle", ticks[t].now > b + Lag, ticks[t].now <= b + Lag + Period + Delay,
             ticks[t].pc = "hosts" \/ Raises(t)
      PROVE  Restarting(b)'
  <2>1. ticks[t].now \in Nat /\ ticks[t].now <= clock /\ ticks[t].now > wantedFor + Lag
    BY <1>7, CalmTicks
  <2>2. \A h \in ToSet(Bursts) : hosts[h].state = "stopped"
    BY <1>1, <1>5, <1>7, <2>1
  <2>3. ASSUME ticks'[t].now = ticks[t].now, ticks'[t].pc # "idle", ticks'[t].pc = "hosts" \/ Raises(t)' PROVE Restarting(b)'
    BY <1>4, <1>7, <2>3 DEF Restarting
  <2>4. CASE ticks'[t] = ticks[t]
    <3>1. ticks'[t].pc = "hosts" \/ Raises(t)'
      BY <1>7, <2>4 DEF Raises
    <3> QED BY <1>7, <2>3, <2>4, <3>1
  <2>5. CASE Loads(t)
    BY <1>7, <2>5 DEF Loads
  <2>6. CASE Snaps(t)
    <3>1. PICK d : d = ticks[t]
      OBVIOUS
    <3>2. d.pc = "hosts" /\ LeftAs(t, PlanHolds(d), PlanStarts(d))
      BY <2>6, <3>1 DEF Snaps
    <3>3. d.contest = 0 /\ d.now \in Nat /\ d.now > 0 /\ d.work = work
      <4>1. d.contest = 0 /\ d.work = work
        BY <1>7, <3>1, <3>2, CalmTicks
      <4> QED BY <1>1, <2>1, <3>1, <4>1
    <3>4. Startable \cap ToSet(Bursts) # {}
      <4>1. PICK h \in ToSet(Bursts) : h \notin given.stale
        BY <1>1 DEF QueueAsks
      <4> QED BY <1>2, <2>2, <4>1 DEF Startable, CanStart
    <3>5. PICK H, S : H = PlanHolds(d) /\ S = PlanStarts(d)
      OBVIOUS
    <3>6. ToSet(S) \cap ToSet(Bursts) # {}
      BY <1>1, <1>2, <3>3, <3>4, <3>5, StartsByRank
    <3>7. S # <<>>
      BY <3>6 DEF ToSet
    <3>8. ticks'[t].pc = "act" /\ ticks'[t].now = ticks[t].now /\ ticks'[t].starts = S
      BY <3>2, <3>5, <3>7 DEF LeftAs
    <3>9. Raises(t)'
      BY <3>6, <3>8 DEF Raises
    <3> QED BY <2>3, <3>8, <3>9
  <2>7. CASE Tags(t)
    <3>1. PICK H : LeftAs(t, H, ticks[t].starts) /\ ticks[t].pc = "act"
      BY <2>7 DEF Tags
    <3>2. Raises(t) /\ ticks[t].starts # <<>>
      <4>1. Raises(t)
        BY <1>7, <3>1
      <4>2. ToSet(<<>>) = {}
        BY DEF ToSet
      <4>3. ToSet(ticks[t].starts) # {}
        BY <4>1 DEF Raises
      <4> QED BY <4>1, <4>2, <4>3
    <3>3. ticks'[t].pc = "act" /\ ticks'[t].now = ticks[t].now /\ ticks'[t].starts = ticks[t].starts
      BY <3>1, <3>2 DEF LeftAs
    <3> QED BY <2>3, <3>2, <3>3 DEF Raises
  <2>8. CASE Launches(t)
    <3>1. ticks[t].pc = "act" /\ Raises(t)
      BY <1>7, <2>8 DEF Launches
    <3>2. PICK T : T = HostIds \ given.stale
      OBVIOUS
    <3>3. PICK q \in Seq(T) : q = ticks[t].starts
      BY <3>1, <3>2, CalmStarts
    <3>4. q # <<>> /\ LeftAs(t, {}, Tail(q))
      BY <2>8, <3>3 DEF Launches
    <3>5. PICK k \in ToSet(Bursts) : k \in ToSet(q)
      BY <3>1, <3>3 DEF Raises
    <3>6. k # Head(q)
      <4> SUFFICES ASSUME k = Head(q) PROVE FALSE
        OBVIOUS
      <4>1. hosts[k].state = "stopped" /\ k \in HostIds
        BY <1>2, <2>2
      <4>2. Launched(k)
        BY <2>8, <3>3, <4>1, Zenon DEF Launches
      <4>3. Active(k)'
        BY <4>2 DEF Launched, Active
      <4> QED BY <1>2, <4>3
    <3>7. k \in ToSet(Tail(q)) /\ Tail(q) # <<>>
      BY <3>4, <3>5, <3>6, OthersRemain
    <3>8. PICK r : r = Tail(q)
      OBVIOUS
    <3>9. ticks'[t].pc = "act" /\ ticks'[t].now = ticks[t].now /\ ticks'[t].starts = r
      BY <3>4, <3>7, <3>8 DEF LeftAs
    <3>10. Raises(t)'
      BY <3>5, <3>7, <3>8, <3>9 DEF Raises
    <3> QED BY <2>3, <3>9, <3>10
  <2> QED BY <2>4, <2>5, <2>6, <2>7, <2>8, CalmKinds
<1>8. \/ Due - Period <= b + Lag
      \/ \E t \in Invocations : /\ ticks[t].pc # "idle" /\ ticks[t].now > b + Lag /\ ticks[t].now <= b + Lag + Period + Delay
                                 /\ (ticks[t].pc = "hosts" \/ Raises(t))
  BY Zenon DEF Restarting
<1> QED BY <1>6, <1>7, <1>8, Zenon

\* A host that goes down was leaving.
LEMMA GoesDown ==
  ASSUME Calm, NEW h \in ToSet(Bursts), Active(h), ~Active(h)'
  PROVE  clock' = clock /\ begun' = begun
<1>1. h \in HostIds
  BY HostsAreTwoRoles
<1>2. hosts'[h] # hosts[h]
  BY DEF Active
<1> QED BY <1>1, <1>2, ChosenChanges

LEMMA HostIsFoundHolds ==
  ASSUME DemandIInv, OneAtATime, HostIsFound, StepKind
  PROVE  HostIsFound'
<1> SUFFICES ASSUME QueueAsks', clock' > Settled', ~Served'
             PROVE  (IF Down = ToSet(Bursts) THEN Restarting(Tried) ELSE Holding(Tried))'
  BY Zenon DEF HostIsFound
<1>1. /\ clock \in Nat /\ wantedFor \in Nat /\ Lag \in Nat /\ Lag > 0 /\ PoolIInv /\ Deadlines /\ Quiet = wantedFor + 2 * Lag
      /\ Period \in Nat /\ Delay \in Nat /\ begun \in Nat /\ Due \in Nat /\ Due - Period <= clock
  BY PoolNats, PoolTimes, WaitFacts, DueFacts DEF DemandIInv, Deadlines
<1>2. clock' \in Nat /\ wantedFor' \in Nat
  <2>1. (clock' = clock \/ clock' = clock + 1) /\ wantedFor' \in {wantedFor, clock, clock'}
    BY DEF StepKind, Elapses, Disturbs, SameDemand
  <2> QED BY <1>1, <2>1
<1>3. clock' > wantedFor'
  <2>1. clock' > wantedFor' + 3 * Lag
    BY Zenon DEF Settled
  <2>2. \A a, b, c \in Nat : a > b + 3 * c => a > b
    OBVIOUS
  <2> QED BY <1>1, <1>2, <2>1, <2>2
<1>4. SameDemand /\ ~Disturbs /\ ((clock' = clock + 1 /\ Elapses) \/ clock' = clock)
  BY <1>3, CalmSteps
<1>5. QueueAsks /\ wantedFor' = wantedFor /\ Settled' = Settled
  BY <1>4, QueueAsked DEF SameDemand, Settled
<1>6. Settled \in Nat /\ Settled = wantedFor + 3 * Lag /\ Tried \in Nat /\ Tried >= Settled
  BY <1>1, TriedTime
<1>7. Down \subseteq ToSet(Bursts) /\ Down' \subseteq ToSet(Bursts)
  BY DEF Down
<1>8. PICK b \in Nat : b = Tried
  BY <1>6
<1>9. CASE Down' = Down
  <2>1. Tried' = Tried
    <3>1. Tried' = Settled' + Cardinality(Down') * Attempt
      BY DEF Tried, Attempt
    <3> QED BY <1>5, <1>9, <3>1 DEF Tried
  <2>2. ASSUME IF Down = ToSet(Bursts) THEN Restarting(b)' ELSE Holding(b)'
        PROVE  (IF Down = ToSet(Bursts) THEN Restarting(Tried) ELSE Holding(Tried))'
    <3>1. Tried' = b
      BY <1>8, <2>1
    <3>2. Restarting(b)' => Restarting(Tried)'
      BY <3>1 DEF Restarting
    <3>3. Holding(b)' => Holding(Tried)'
      BY <3>1 DEF Holding
    <3> QED BY <1>9, <2>2, <3>2, <3>3
  <2>3. CASE ~(clock > Settled)
    <3>1. Elapses /\ clock <= b
      BY <1>1, <1>4, <1>5, <1>6, <1>8, <2>3
    <3>2. Due' = Due
      BY <1>1, <3>1, DueFacts DEF Elapses
    <3>3. Due' - Period <= b /\ Due' - Period <= b + Lag
      BY <1>1, <3>1, <3>2
    <3>4. \A h \in ToSet(Bursts) : hosts'[h].since <= b
      <4>1. \A h \in ToSet(Bursts) : hosts'[h].since = hosts[h].since /\ hosts[h].since \in Nat /\ hosts[h].since <= clock
        BY <1>1, <3>1, HostsAreTwoRoles, PoolNats DEF Elapses, SameHosts
      <4> QED BY <1>1, <3>1, <4>1
    <3>5. Restarting(b)' /\ Holding(b)'
      BY <3>3, <3>4 DEF Restarting, Holding
    <3> QED BY <2>2, <3>5
  <2>4. CASE clock > Settled
    <3>1. Calm
      <4>1. clock > Quiet
        BY <1>1, <1>6, <2>4
      <4> QED BY <1>4, <1>5, <4>1, Zenon DEF Calm
    <3>2. ~Served
      BY <3>1, ServedStays
    <3>3. IF Down = ToSet(Bursts) THEN Restarting(b) ELSE Holding(b)
      BY <1>5, <1>8, <2>4, <3>2 DEF HostIsFound
    <3>4. Down = ToSet(Bursts) => Restarting(b)'
      BY <1>9, <3>1, <3>3, RestartingStays
    <3>5. Down # ToSet(Bursts) => Holding(b)'
      BY <1>9, <3>1, <3>2, <3>3, HoldingStays
    <3> QED BY <2>2, <3>4, <3>5
  <2> QED BY <2>3, <2>4
<1>10. CASE Down' # Down
  <2>1. Down \subseteq Down' /\ clock > Settled /\ Calm /\ ~Served
    <3>1. ~Elapses
      <4>1. Elapses => \A h \in ToSet(Bursts) : hosts'[h] = hosts[h]
        BY HostsAreTwoRoles DEF Elapses, SameHosts
      <4>2. (\A h \in ToSet(Bursts) : hosts'[h] = hosts[h]) => Down' = Down
        BY DEF Down, Active
      <4> QED BY <1>10, <4>1, <4>2
    <3>2. clock > Settled /\ clock > Quiet
      BY <1>1, <1>4, <1>5, <1>6, <3>1
    <3>3. Calm
      BY <1>4, <1>5, <3>2, Zenon DEF Calm
    <3>4. \A k \in ToSet(Bursts) : ~Active(k) => ~Active(k)'
      BY <3>2, <3>3, NoneLaunched
    <3>5. ~Served
      BY <3>3, ServedStays
    <3>6. Down \subseteq Down'
      BY <3>4 DEF Down
    <3> QED BY <3>2, <3>3, <3>5, <3>6
  <2>2. Tried' \in Nat /\ Tried' >= b + Attempt /\ Attempt \in Nat
    BY <1>1, <1>5, <1>7, <1>8, <1>10, <2>1, TriedLater
  <2>3. PICK h \in ToSet(Bursts) : Active(h) /\ ~Active(h)'
    BY <1>10, <2>1 DEF Down
  <2>4. clock' = clock /\ begun' = begun
    BY <2>1, <2>3, GoesDown
  <2>5. Down # ToSet(Bursts)
    BY <2>3 DEF Down
  <2>6. Holding(b)
    BY <1>5, <1>8, <2>1, <2>5 DEF HostIsFound
  <2>7. clock <= b + Attempt
    BY <2>6, HoldingTime
  <2>8. PICK c \in Nat : c = Tried' /\ clock <= c
    BY <1>1, <2>2, <2>7
  <2>9. Due' = Due
    BY <1>1, <2>4, DueFacts
  <2>10. Due' - Period <= c /\ Due' - Period <= c + Lag
    <3>1. Due - Period <= c
      BY <1>1, <2>8
    <3>2. Due' - Period <= c
      BY <2>9, <3>1
    <3>3. \A x \in Int, y, z \in Nat : x <= y => x <= y + z
      OBVIOUS
    <3>4. Due' - Period \in Int
      BY <1>1, <2>9
    <3> QED BY <1>1, <3>2, <3>3, <3>4
  <2>11. \A k \in ToSet(Bursts) : hosts'[k].since <= c
    <3>1. ASSUME NEW k \in ToSet(Bursts) PROVE hosts'[k].since \in Nat /\ hosts'[k].since <= clock
      <4>1. k \in HostIds /\ hosts[k].since \in Nat /\ hosts[k].since <= clock
        BY <1>1, HostsAreTwoRoles, PoolNats
      <4>2. hosts'[k] = hosts[k] \/ Moves(k) \/ (\E u : TaggedTo(k, u)) \/ Launched(k)
        BY <1>4, <4>1, HostChanges, Zenon
      <4>3. hosts'[k].since \in {hosts[k].since, clock}
        BY <4>2 DEF Moves, Becomes, TaggedTo, Launched
      <4> QED BY <1>1, <4>1, <4>3
    <3> QED BY <1>1, <2>8, <3>1
  <2>12. Restarting(Tried)' /\ Holding(Tried)'
    BY <2>8, <2>10, <2>11 DEF Restarting, Holding
  <2> QED BY <2>12
<1> QED BY <1>9, <1>10

QueueIInv == ContestIInv /\ PrimariesStop /\ PrimariesReturn /\ OneAtATime /\ HostIsFound

LEMMA QueueInitHolds == PoolInit => QueueIInv
<1> SUFFICES ASSUME PoolInit PROVE QueueIInv
  OBVIOUS
<1>1. ContestIInv /\ PoolIInv
  BY ContestInitHolds DEF ContestIInv, DemandIInv
<1>2. clock = 0 /\ wantedFor = 0 /\ Lag \in Nat
  BY PoolTimes DEF PoolInit
<1>3. PrimariesStop /\ PrimariesReturn
  BY <1>2 DEF PrimariesStop, PrimariesReturn, Back
<1>4. OneAtATime /\ HostIsFound
  BY <1>2 DEF OneAtATime, HostIsFound, Quiet, Settled
<1> QED BY <1>1, <1>3, <1>4 DEF QueueIInv

LEMMA QueueStepHolds ==
  ASSUME QueueIInv, [PoolNext]_poolVars
  PROVE  QueueIInv'
<1>1. DemandIInv /\ HostsAreTagged /\ HostsAreStarted /\ PrimariesStop /\ PrimariesReturn /\ OneAtATime /\ HostIsFound
  BY DEF QueueIInv, ContestIInv
<1>2. StepKind /\ DemandIInv'
  BY <1>1, DemandStep
<1>3. HostsAreTagged' /\ HostsAreStarted'
  BY <1>1, <1>2, TaggingHolds, StartingHolds
<1>4. PrimariesStop' /\ PrimariesReturn'
  BY <1>1, <1>2, PrimariesHold
<1>5. OneAtATime'
  BY <1>1, <1>2, OneAtATimeHolds
<1>6. HostIsFound'
  BY <1>1, <1>2, HostIsFoundHolds
<1> QED BY <1>2, <1>3, <1>4, <1>5, <1>6 DEF QueueIInv, ContestIInv

LEMMA RecoveryTimes ==
  ASSUME wantedFor \in Nat
  PROVE  /\ QueueRecovery \in Nat /\ QueueRecovery >= Period + Delay + 5 * Lag
         /\ ToSet(Bursts) # {} => QueueRecovery >= Recovery
         /\ Recovery \in Nat
         /\ Tried + 2 * Lag + Period + Delay <= wantedFor + QueueRecovery
         /\ Down # ToSet(Bursts) => Tried + Attempt <= wantedFor + QueueRecovery
<1>1. PICK c \in Nat, a \in Nat, n \in Nat : c = Cardinality(Down) /\ a = Attempt /\ n = Len(Bursts)
  <2>1. Cardinality(Down) \in Nat /\ Len(Bursts) \in Nat
    BY DownFacts, BurstFacts
  <2>2. Attempt \in Nat
    BY PoolTimes DEF Attempt
  <2> QED BY <2>1, <2>2
<1>2. Tried = Settled + c * a /\ Settled = wantedFor + 3 * Lag /\ a = Period + Delay + 3 * Lag
  BY <1>1 DEF Tried, Settled, Attempt
<1>3. QueueRecovery = Period + Delay + 5 * Lag + n * a
  BY <1>1 DEF QueueRecovery
<1>4. c <= n /\ (Down # ToSet(Bursts) => c + 1 <= n)
  BY <1>1, DownFacts
<1>5. ASSUME ToSet(Bursts) # {} PROVE n >= 1
  <2>1. PICK h \in ToSet(Bursts) : TRUE
    BY <1>5
  <2>2. PICK i \in DOMAIN Bursts : Bursts[i] = h
    BY <2>1, BurstFacts
  <2> QED BY <1>1, <2>2, BurstFacts
<1>6. \A x, y, z \in Nat : x <= y => x * z <= y * z
  <2> SUFFICES ASSUME NEW x \in Nat, NEW y \in Nat, NEW z \in Nat, x <= y PROVE x * z <= y * z
    OBVIOUS
  <2>1. PICK w \in Nat : y = x + w
    <3>1. y - x \in Nat /\ y = x + (y - x)
      OBVIOUS
    <3> QED BY <3>1
  <2>2. y * z = x * z + w * z
    BY <2>1
  <2>3. x * z \in Nat /\ w * z \in Nat
    OBVIOUS
  <2> QED BY <2>2, <2>3
<1>7. \A x, z \in Nat : x * z \in Nat /\ (x + 1) * z = x * z + z
  OBVIOUS
<1>8. PICK p, q \in Nat : p = c * a /\ q = n * a
  BY <1>7
<1>9. p <= q /\ (c + 1 <= n => p + a <= q) /\ (n >= 1 => a <= q)
  <2>1. p <= q
    BY <1>4, <1>6, <1>8
  <2>2. ASSUME c + 1 <= n PROVE p + a <= q
    <3>1. c + 1 \in Nat
      OBVIOUS
    <3>2. (c + 1) * a <= n * a
      BY <2>2, <3>1, <1>6
    <3>3. (c + 1) * a = c * a + a
      BY <1>7
    <3> QED BY <1>8, <3>2, <3>3
  <2>3. ASSUME n >= 1 PROVE a <= q
    <3>1. 1 * a <= n * a
      BY <2>3, <1>6
    <3> QED BY <1>8, <3>1
  <2> QED BY <2>1, <2>2, <2>3
<1>10. Period \in Nat /\ Delay \in Nat /\ Lag \in Nat
  BY PoolTimes
<1>11. Tried = wantedFor + 3 * Lag + p /\ QueueRecovery = Period + Delay + 5 * Lag + q
  BY <1>2, <1>3, <1>8
<1>12. Recovery = 2 * (Period + Delay) + 7 * Lag
  BY DEF Recovery
<1>13. QueueRecovery \in Nat /\ Recovery \in Nat /\ QueueRecovery >= Period + Delay + 5 * Lag
  BY <1>10, <1>11, <1>12
<1>14. n >= 1 => QueueRecovery >= Recovery
  BY <1>2, <1>9, <1>10, <1>11, <1>12
<1>15. Tried + 2 * Lag + Period + Delay <= wantedFor + QueueRecovery
  BY <1>9, <1>10, <1>11
<1>16. c + 1 <= n => Tried + Attempt <= wantedFor + QueueRecovery
  <2>1. ASSUME c + 1 <= n PROVE Tried + a <= wantedFor + QueueRecovery
    BY <1>9, <1>10, <1>11, <2>1
  <2> QED BY <1>1, <2>1
<1> QED BY <1>4, <1>5, <1>13, <1>14, <1>15, <1>16

LEMMA QueueIsServedInTime ==
  ASSUME QueueIInv, QueueAsks, clock > wantedFor + QueueRecovery
  PROVE  \E h \in ToSet(Bursts) : Active(h)
<1>1. DemandIInv /\ PoolIInv /\ Deadlines /\ HostIsFound
  BY DEF QueueIInv, ContestIInv, DemandIInv
<1>2. /\ clock \in Nat /\ wantedFor \in Nat /\ Period \in Nat /\ Delay \in Nat /\ Lag \in Nat /\ Due \in Nat /\ clock <= Due + Delay
      /\ \A t \in Invocations : ticks[t].pc # "idle" => ticks[t].now \in Nat /\ clock <= ticks[t].now + Lag
  BY <1>1, PoolNats, PoolTimes, DueFacts DEF Deadlines
<1>3. /\ Tried \in Nat /\ Settled = wantedFor + 3 * Lag /\ QueueRecovery \in Nat /\ QueueRecovery >= Period + Delay + 5 * Lag
      /\ Tried + 2 * Lag + Period + Delay <= wantedFor + QueueRecovery
      /\ Down # ToSet(Bursts) => Tried + Attempt <= wantedFor + QueueRecovery
      /\ Attempt \in Nat
  <2>1. Attempt \in Nat
    BY PoolTimes DEF Attempt
  <2> QED BY <1>2, <2>1, RecoveryTimes, TriedTime
<1>4. clock > Settled
  BY <1>2, <1>3
<1>5. PICK b \in Nat : b = Tried
  BY <1>3
<1>6. Served
  <2> SUFFICES ASSUME ~Served PROVE FALSE
    OBVIOUS
  <2>1. IF Down = ToSet(Bursts) THEN Restarting(b) ELSE Holding(b)
    BY <1>1, <1>4, <1>5 DEF HostIsFound
  <2>2. CASE Down # ToSet(Bursts)
    <3>1. clock <= b + Attempt
      BY <1>1, <2>1, <2>2, HoldingTime
    <3> QED BY <1>2, <1>3, <1>5, <2>2, <3>1
  <2>3. CASE Down = ToSet(Bursts)
    <3>1. (Due - Period <= b + Lag) \/ \E t \in Invocations : ticks[t].pc # "idle" /\ ticks[t].now <= b + Lag + Period + Delay
      BY <2>1, <2>3, Zenon DEF Restarting
    <3>2. clock <= b + 2 * Lag + Period + Delay
      BY <1>2, <3>1
    <3> QED BY <1>2, <1>3, <1>5, <3>2
  <2> QED BY <2>2, <2>3
<1> QED BY <1>6 DEF Served, Serves, Chosen

LEMMA QueueImplies == QueueIInv => QueueIsServed
<1> SUFFICES ASSUME QueueIInv, clock > wantedFor + QueueRecovery
             PROVE  /\ \A h \in ToSet(Primaries) \cap (HostIds \ given.stale) : Active(h)
                    /\ work # "none" /\ HostIds \ given.stale # {} => \E h \in HostIds : Active(h)
                    /\ work = "waiting" /\ (HostIds \ given.stale) \cap ToSet(Bursts) # {} => \E h \in ToSet(Bursts) : Active(h)
  BY Zenon DEF QueueIsServed
<1>1. ContestIInv /\ DemandIInv /\ PoolIInv /\ PrimariesReturn
  BY DEF QueueIInv, ContestIInv, DemandIInv
<1>2. clock \in Nat /\ wantedFor \in Nat /\ Period \in Nat /\ Delay \in Nat /\ Lag \in Nat
  BY <1>1, PoolNats, PoolTimes
<1>3. QueueRecovery \in Nat /\ Recovery \in Nat /\ QueueRecovery >= Period + Delay + 5 * Lag /\ (ToSet(Bursts) # {} => QueueRecovery >= Recovery)
  BY <1>2, RecoveryTimes
<1>4. \A h \in ToSet(Primaries) \ given.stale : Active(h)
  <2>1. clock > wantedFor + Period + Delay + 2 * Lag
    BY <1>2, <1>3
  <2> QED BY <1>1, <2>1, PrimariesAreUp
<1>5. ASSUME Needed # 0, NEW h \in ToSet(Bursts) \ given.stale PROVE Active(h)
  <2>1. UpForContests
    BY <1>1, ContestImplies
  <2>2. clock > wantedFor + Recovery
    BY <1>2, <1>3, <1>5
  <2> QED BY <1>5, <2>1, <2>2 DEF UpForContests, Needed
<1>6. ASSUME work = "waiting", NEW k \in ToSet(Bursts) \ given.stale PROVE \E h \in ToSet(Bursts) : Active(h)
  <2>1. CASE Needed # 0
    BY <1>5, <1>6, <2>1
  <2>2. CASE Needed = 0
    <3>1. QueueAsks
      BY <1>6, <2>2 DEF QueueAsks
    <3> QED BY <3>1, QueueIsServedInTime
  <2> QED BY <2>1, <2>2
<1>7. ASSUME work # "none", NEW k \in HostIds \ given.stale PROVE \E h \in HostIds : Active(h)
  <2>1. ToSet(Primaries) \subseteq HostIds /\ ToSet(Bursts) \subseteq HostIds /\ work \in {"none", "some", "waiting"}
    BY <1>1, HostsAreTwoRoles DEF PoolIInv, PoolTypes
  <2>2. CASE k \in ToSet(Primaries)
    BY <1>4, <1>7, <2>2
  <2>3. CASE k \in ToSet(Bursts)
    <3>1. CASE \E p \in ToSet(Primaries) : Active(p)
      BY <2>1, <3>1
    <3>2. CASE work = "waiting"
      BY <1>6, <1>7, <2>1, <2>3, <3>2
    <3>3. CASE Needed # 0
      BY <1>5, <1>7, <2>1, <2>3, <3>3
    <3>4. CASE Needed = 0 /\ work = "some" /\ \A p \in ToSet(Primaries) : ~Active(p)
      <4>1. QueueAsks
        BY <1>4, <1>7, <2>3, <3>4 DEF QueueAsks
      <4> QED BY <2>1, <4>1, QueueIsServedInTime
    <3> QED BY <1>7, <2>1, <3>1, <3>2, <3>3, <3>4
  <2> QED BY <1>7, <2>2, <2>3 DEF HostIds
<1> QED BY <1>4, <1>6, <1>7

\* For every plan, number of hosts and invocations, and whatever fails: the primaries come back, and
\* work that was sent has a host, and a burst host when it waits, after the time that takes to try each.
THEOREM QueuesAreServed == PoolSpec => []QueueIsServed
<1>1. PoolInit => QueueIInv
  BY QueueInitHolds
<1>2. QueueIInv /\ [PoolNext]_poolVars => QueueIInv'
  BY QueueStepHolds
<1>3. QueueIInv => QueueIsServed
  BY QueueImplies
<1> QED BY <1>1, <1>2, <1>3, PTL DEF PoolSpec

\* For every value of the constants: the pool follows what the contests and the queue need.
THEOREM PoolAlwaysFollows == PoolSpec => []PoolFollowsDemand
<1>1. UpForContests /\ FittingCount /\ QueueIsServed /\ StaleStaysOff <=> PoolFollowsDemand
  BY DEF PoolFollowsDemand
<1> QED BY <1>1, ContestsHaveTheirHosts, FittingWindowsCount, QueuesAreServed, StaleHostsStayOff, PTL

=============================================================================
