------------------------------ MODULE HostPool ------------------------------
(***************************************************************************)
(* The pool of judge hosts.  Every minute one invocation of the bridge     *)
(* reads what is needed from the database, takes a snapshot of the hosts,  *)
(* tags the wanted ones with a hold and starts the stopped ones; a burst   *)
(* host that is idle past its hold powers itself off.  Nobody holds a lock: *)
(* what an invocation saw may have changed when it acts, and two may run   *)
(* at once when the earlier one spent its minute dispatching.              *)
(*                                                                         *)
(* EC2 is modelled as src/ uses it: starting a stopping host is an error   *)
(* to be retried, starting a running one does nothing, and a tag reaches   *)
(* the host's own metadata a moment later.                                 *)
(***************************************************************************)
EXTENDS Integers, Sequences, FiniteSets, SequencesExt, FiniteSetsExt, Functions, Absent

CONSTANTS
  Plans,       \* bound: of each behaviour the contests [starts, ends], those full already, the queue, and the stale hosts
  Primaries, Bursts,  \* hosts in order of name, by role
  Invocations, \* invocations of the bridge that may be open at a time
  Lead, Span, After,  \* a window: 30 min before the start to 15 min after the end or 3 h, the earlier
  Horizon,     \* 48 h
  Day, Budget, \* 8 h of windows in 24 h
  FallbackHold, Grace, IdleTime,
  Period, Delay,      \* of the schedule, and how long its dispatch may take
  Lag,         \* how long EC2 takes: to start or stop a host, to show it a tag; also an invocation's 20 s
  MaxEvents,   \* bound: of contests filling, changes of the queue and faults
  LastEvent,   \* bound: of the time of the last one
  EndOfTime    \* bound of the clock

HostIds == ToSet(Primaries) \cup ToSet(Bursts)

ASSUME PoolAssumption ==
  /\ {Lead, Span, After, Horizon, Day, Budget, FallbackHold, IdleTime, Period, Delay, MaxEvents, LastEvent, EndOfTime} \subseteq Nat
  /\ Lag \in Nat \ {0} /\ Grace \in Nat /\ Grace > Lag
\* A window is no longer than the two days; 30 min outlast the minutes between two invocations.
ASSUME TimeAssumption == Horizon >= Span + After /\ FallbackHold >= Period + Delay + 3 * Lag
\* A host has one role, and a name of its own.
ASSUME HostAssumption ==
  /\ Primaries \in Seq(ToSet(Primaries)) /\ Bursts \in Seq(ToSet(Bursts))
  /\ IsInjective(Primaries) /\ IsInjective(Bursts) /\ ToSet(Primaries) \cap ToSet(Bursts) = {}
ASSUME PlanAssumption == \A p \in Plans :
  /\ p.work \in {"none", "some", "waiting"} /\ p.full \subseteq DOMAIN p.contests /\ p.stale \subseteq HostIds
  /\ \A c \in DOMAIN p.contests : {p.contests[c].starts, p.contests[c].ends} \subseteq Nat /\ p.contests[c].starts < p.contests[c].ends
ASSUME ContestsAssumption == \A p \in Plans : IsFiniteSet(DOMAIN p.contests)

VARIABLES
  given,    \* the contests and stale hosts of this behaviour
  clock,    \* time, of the database, the bridge and the hosts
  filled,   \* contests with enough participants
  work,     \* requests that were sent: none, some, or the oldest has waited for backlogAge
  hosts,    \* of each host: its state, since when, whether it is powering off, JudgeHoldUntil, the metadata's
            \* copy, and since when they differ
  begun,    \* invocations so far
  ticks,    \* the open ones
  events,   \* changes so far
  wantedFor \* history: since when contests need the hosts until the same time, and no event happened

poolVars == <<given, clock, filled, work, hosts, begun, ticks, events, wantedFor>>

Active(h)  == hosts[h].state \in {"pending", "running"}
NoTick     == [pc |-> "idle"]

-----------------------------------------------------------------------------
(* What contests need (loadDemand, admitWindows).                          *)

WindowOf(contest) == [opens |-> contest.starts - Lead, closes |-> Min({contest.ends, contest.starts + Span}) + After]
LengthOf(w) == w.closes - w.opens
\* The windows that opened and belong to the last two days, in opening order.
Recent(contests, full, now) == {c \in full : contests[c].starts <= now + Lead /\ contests[c].starts > now - Horizon}
OpensBefore(v, w) == v.opens < w.opens \/ (v.opens = w.opens /\ v.closes <= w.closes)
OpeningOrder(contests, S) == CHOOSE s \in SetToSeqs(S) :
  \A i, j \in DOMAIN s : i < j => OpensBefore(WindowOf(contests[s[i]]), WindowOf(contests[s[j]]))
UsedBefore(admitted, w) ==
  LET used[i \in 0..Len(admitted)] ==
        IF i = 0 THEN 0 ELSE used[i - 1] + IF admitted[i].closes > w.opens - Day THEN LengthOf(admitted[i]) ELSE 0
  IN used[Len(admitted)]
Admitted(contests, full, now) ==
  LET s == OpeningOrder(contests, Recent(contests, full, now))
      admitted[i \in 0..Len(s)] ==
        IF i = 0 THEN <<>>
        ELSE LET w == WindowOf(contests[s[i]]) IN
             IF UsedBefore(admitted[i - 1], w) + LengthOf(w) <= Budget THEN Append(admitted[i - 1], w) ELSE admitted[i - 1]
  IN admitted[Len(s)]
\* The latest end of the admitted windows that are open, 0 when there is none.
UntilOf(contests, full, now) ==
  Max({0} \cup {w.closes : w \in {v \in ToSet(Admitted(contests, full, now)) : v.opens <= now /\ v.closes > now}})
ContestUntil(now) == UntilOf(given.contests, filled, now)

PoolInit ==
  /\ given \in Plans
  /\ clock = 0
  /\ filled = given.full
  /\ work = given.work
  /\ hosts = [h \in HostIds |-> [state |-> IF h \in ToSet(Primaries) THEN "running" ELSE "stopped", since |-> 0,
                                 leaving |-> FALSE, hold |-> 0, tagged |-> 0, shown |-> 0]]
  /\ begun = 0
  /\ ticks = [t \in Invocations |-> NoTick]
  /\ events = 0
  /\ wantedFor = 0

-----------------------------------------------------------------------------
(* The bridge (capacity.apply).                                            *)

\* When the dispatch of this minute is done, the demand is read.
LoadDemand(t) ==
  /\ ticks[t] = NoTick
  /\ clock >= begun * Period
  /\ begun' = begun + 1
  /\ ticks' = [ticks EXCEPT ![t] = [pc |-> "hosts", now |-> clock, contest |-> ContestUntil(clock), work |-> work]]
  /\ UNCHANGED <<given, clock, filled, work, hosts, events, wantedFor>>

\* planCapacity over a snapshot of the hosts.  Hosts that run come first, then those that can
\* be started, each in order of name (Order is stable).
CanStart_stale(h) == hosts[h].state = "stopped" \* mutation: the digest is not compared
CanStart(h) == hosts[h].state = "stopped" /\ h \notin given.stale
Among(s, S) == \* the members of S in the order of s
  LET kept[i \in 0..Len(s)] == IF i = 0 THEN <<>> ELSE IF s[i] \in S THEN Append(kept[i - 1], s[i]) ELSE kept[i - 1]
  IN kept[Len(s)]
Up        == {h \in HostIds : Active(h)}
Startable == {h \in HostIds : CanStart(h)}
Ranked    == Among(Bursts, Up) \o Among(Bursts, Startable) \o Among(Bursts, HostIds \ (Up \cup Startable))
Fallback(d) ==
  LET down == \A h \in ToSet(Primaries) : ~Active(h) IN
  IF d.work = "waiting" THEN Len(Among(Bursts, Up)) + 1
  ELSE IF down /\ d.work # "none" THEN 1 ELSE 0
\* Until when each burst host is wanted, 0 when it is not.
Wanted(d) ==
  [h \in ToSet(Bursts) |->
     LET i == CHOOSE j \in DOMAIN Ranked : Ranked[j] = h IN
     Max({d.contest} \cup {u \in {d.now + FallbackHold} : i <= Fallback(d)})]
PlanHolds_started(d) == \* mutation: a host that runs is not held any longer
  {[host |-> h, until |-> Wanted(d)[h]] : h \in {b \in ToSet(Bursts) : CanStart(b) /\ Wanted(d)[b] > hosts[b].hold}}
PlanHolds(d) ==
  {[host |-> h, until |-> Wanted(d)[h]] : h \in {b \in ToSet(Bursts) :
     (Active(b) \/ CanStart(b)) /\ Wanted(d)[b] > hosts[b].hold}}
PlanStarts_held(d) == \* mutation: a host that is held already is taken for started
  Among(Primaries, Startable) \o Among(Ranked, {h \in Startable \cap ToSet(Bursts) : Wanted(d)[h] > hosts[h].hold})
PlanStarts(d) == Among(Primaries, Startable) \o Among(Ranked, {h \in Startable \cap ToSet(Bursts) : Wanted(d)[h] > 0})
Left(t, holds, starts) ==
  ticks' = [ticks EXCEPT ![t] = IF holds = {} /\ starts = <<>> THEN NoTick
                                ELSE [pc |-> "act", now |-> ticks[t].now, holds |-> holds, starts |-> starts]]
Snapshot(t) ==
  /\ ticks[t].pc = "hosts"
  /\ Left(t, PlanHolds(ticks[t]), PlanStarts(ticks[t]))
  /\ UNCHANGED <<given, clock, filled, work, hosts, begun, events, wantedFor>>

\* The holds come first, the earliest time before the others, so that a booting host sees its own.
TagHosts(t) ==
  LET holds == ticks[t].holds
      until == Min({g.until : g \in holds})
      group == {g.host : g \in {x \in holds : x.until = until}} IN
  /\ ticks[t].pc = "act" /\ holds # {}
  /\ hosts' = [h \in HostIds |-> IF h \in group THEN [hosts[h] EXCEPT !.hold = until, !.tagged = IF hosts[h].shown = hosts[h].hold THEN clock ELSE @] ELSE hosts[h]]
  /\ Left(t, {g \in holds : g.until # until}, ticks[t].starts)
  /\ UNCHANGED <<given, clock, filled, work, begun, events, wantedFor>>

\* A stopping host is left to a later minute; the other starts go on.
StartHost(t) ==
  LET h == Head(ticks[t].starts) IN
  /\ ticks[t].pc = "act" /\ ticks[t].holds = {} /\ ticks[t].starts # <<>>
  /\ hosts' = IF hosts[h].state = "stopped"
              THEN [hosts EXCEPT ![h] = [@ EXCEPT !.state = "pending", !.since = clock, !.shown = hosts[h].hold]] ELSE hosts
  /\ Left(t, {}, Tail(ticks[t].starts))
  /\ UNCHANGED <<given, clock, filled, work, begun, events, wantedFor>>

-----------------------------------------------------------------------------
(* A burst host (pool.IdleStop).                                           *)

HostAt(h, state) == hosts' = [hosts EXCEPT ![h] = [@ EXCEPT !.state = state, !.since = clock, !.leaving = FALSE]]
OnlyHosts == UNCHANGED <<given, clock, filled, work, begun, ticks, events, wantedFor>>

Boot(h) == hosts[h].state = "pending" /\ HostAt(h, "running") /\ OnlyHosts

ShowTag(h) ==
  /\ Active(h)
  /\ hosts[h].shown # hosts[h].hold
  /\ hosts' = [hosts EXCEPT ![h].shown = hosts[h].hold]
  /\ OnlyHosts

\* Between two jobs, idle long enough and past the hold.  The idle time restarts with every job;
\* here it only need not decide.
MayLeave(h) == clock >= hosts[h].shown + Grace
DecideToStop(h) ==
  /\ h \in ToSet(Bursts) /\ hosts[h].state = "running" /\ ~hosts[h].leaving
  /\ clock >= hosts[h].since + IdleTime
  /\ MayLeave(h)
  /\ hosts' = [hosts EXCEPT ![h] = [@ EXCEPT !.leaving = TRUE, !.since = clock]]
  /\ OnlyHosts
PowerOff(h) == hosts[h].leaving /\ HostAt(h, "stopping") /\ OnlyHosts
HostStops(h) == hosts[h].state = "stopping" /\ HostAt(h, "stopped") /\ OnlyHosts

-----------------------------------------------------------------------------
(* Changes from outside.                                                   *)

Event == /\ events < MaxEvents /\ clock <= LastEvent
         /\ events' = events + 1
         /\ wantedFor' = clock

\* Registrations close with the contest.
FillContest(c) ==
  /\ c \in DOMAIN given.contests \ filled
  /\ clock < given.contests[c].ends
  /\ Event
  /\ filled' = filled \cup {c}
  /\ UNCHANGED <<given, clock, work, hosts, begun, ticks>>

QueueChanges(next) ==
  /\ next \in {"none", "some", "waiting"} \ {work}
  /\ Event
  /\ work' = next
  /\ UNCHANGED <<given, clock, filled, hosts, begun, ticks>>

\* A host stops on its own.
HostFails(h) ==
  /\ hosts[h].state = "running" /\ ~hosts[h].leaving
  /\ Event
  /\ HostAt(h, "stopping")
  /\ UNCHANGED <<given, clock, filled, work, begun, ticks>>

\* A read, a tag or a start fails, or the invocation runs out of time: the rest is left out.
TickFails(t) ==
  /\ ticks[t] # NoTick
  /\ Event
  /\ ticks' = [ticks EXCEPT ![t] = NoTick]
  /\ UNCHANGED <<given, clock, filled, work, hosts, begun>>

\* Deadlines: nothing above takes longer than it is given.
Urgent ==
  \/ clock >= begun * Period + Delay
  \/ \E t \in Invocations : ticks[t] # NoTick /\ clock >= ticks[t].now + Lag
  \/ \E h \in HostIds : \/ (hosts[h].state \in {"pending", "stopping"} \/ hosts[h].leaving) /\ clock >= hosts[h].since + Lag
                        \/ Active(h) /\ hosts[h].shown # hosts[h].hold /\ clock >= hosts[h].tagged + Lag
TimePasses ==
  /\ clock < EndOfTime
  /\ ~Urgent
  /\ clock' = clock + 1
  /\ wantedFor' = IF ContestUntil(clock') = ContestUntil(clock) THEN wantedFor ELSE clock'
  /\ UNCHANGED <<given, filled, work, hosts, begun, ticks, events>>

PoolNext ==
  \/ TimePasses
  \/ \E t \in Invocations : LoadDemand(t) \/ Snapshot(t) \/ TagHosts(t) \/ StartHost(t) \/ TickFails(t)
  \/ \E h \in HostIds : Boot(h) \/ ShowTag(h) \/ DecideToStop(h) \/ PowerOff(h) \/ HostStops(h) \/ HostFails(h)
  \/ \E c \in DOMAIN given.contests : FillContest(c)
  \/ \E next \in {"none", "some", "waiting"} : QueueChanges(next)

PoolSpec == PoolInit /\ [][PoolNext]_poolVars

-----------------------------------------------------------------------------
PoolTypeOK ==
  /\ given \in Plans /\ clock \in 0..EndOfTime /\ filled \subseteq DOMAIN given.contests
  /\ work \in {"none", "some", "waiting"} /\ events \in 0..MaxEvents /\ wantedFor \in 0..clock
  /\ \A h \in HostIds : hosts[h].state \in {"pending", "running", "stopping", "stopped"} /\ hosts[h].since \in 0..clock
  /\ \A t \in Invocations : ticks[t].pc \in {"idle", "hosts", "act"}

\* A time after which the pool is back in order.  Invocations that read the old demand are done
\* after Lag, and so are their starts after another; the next one tags the host within Period +
\* Delay + Lag.  Until the tag shows, the host may still decide to stop, and takes as long again to
\* power off and to stop; the invocation that just misses that is followed by another.
Recovery == 2 * (Period + Delay) + 7 * Lag
\* The queue asks for one burst host, and one that runs goes before one that is off, but each of
\* those that run may be about to stop.
Attempt       == Period + Delay + 3 * Lag
QueueRecovery == Period + Delay + 5 * Lag + Len(Bursts) * Attempt

\* While contests need the hosts, and when nothing else happened for Recovery, every burst host that
\* may judge is up and stays up, whatever it was about to do and however invocations overlapped.
UpForContests == clock > wantedFor + Recovery /\ ContestUntil(clock) # 0 =>
  \A h \in ToSet(Bursts) \ given.stale : Active(h) /\ ~hosts[h].leaving
\* An open window that fits the budget whatever else is admitted is one of those.
Fits(c) == LET window(d) == WindowOf(given.contests[d]) IN
  /\ window(c).opens <= clock /\ window(c).closes > clock
  /\ Budget >= MapThenSumSet(LAMBDA d : LengthOf(window(d)), {d \in filled : window(d).opens <= window(c).opens})
FittingCount == \A c \in filled : Fits(c) => ContestUntil(clock) >= WindowOf(given.contests[c]).closes
\* The primary hosts are brought back; without one queued work has a burst host, and when it
\* waits one runs in any case.
QueueIsServed == clock > wantedFor + QueueRecovery =>
  LET usable == HostIds \ given.stale IN
  /\ \A h \in ToSet(Primaries) \cap usable : Active(h)
  /\ work # "none" /\ usable # {} => \E h \in HostIds : Active(h)
  /\ work = "waiting" /\ usable \cap ToSet(Bursts) # {} => \E h \in ToSet(Bursts) : Active(h)
\* A host with another runtime would judge everything as JE: it stays off.
StaleStaysOff == \A h \in given.stale \cap ToSet(Bursts) : ~Active(h)

PoolFollowsDemand == UpForContests /\ FittingCount /\ QueueIsServed /\ StaleStaysOff

=============================================================================
