---------------------------- MODULE Publications ----------------------------
(***************************************************************************)
(* Where a ShareOJ problem goes: it is published by hand, at a reserved    *)
(* time, at the end of a contest, or by a round of the twice-weekly        *)
(* delivery (featured).                                                    *)
(*                                                                         *)
(* Requests and the dispatcher's minute tick are transactions side by side *)
(* at READ COMMITTED.  A record in req holds what a transaction has read   *)
(* and the rows it has locked; each action between two commits reads what  *)
(* is committed then.  Time is counted in days from a Monday 22:00 JST,    *)
(* the hour of a round.  One contest, one author's cap per Author value;   *)
(* runtimes stay enabled; test files and the results' freeze are left out. *)
(***************************************************************************)
EXTENDS Integers, Sequences, FiniteSets, SequencesExt, FiniteSetsExt

CONSTANTS
  Problems,    \* problem ids
  Author,      \* problem_drafts.owner_id
  Requests,    \* transactions that may be open at a time
  Mixes,       \* bound: of each behaviour, the kinds of requests, the problems there are, the
               \* drafts saved, days it may last, the versions requests may name and the applications
  Schedules,   \* bound: the [starts, ends] a contest may be saved with
  None,        \* NULL
  Cap,         \* featuredApplicationsPerAuthor
  Rest,        \* the 30 days after which a problem may be revived freely
  PlanRounds   \* featuredPlanRounds

Slots    == {"easy", "hard"}
AllKinds == {"save", "contest", "submit", "publish", "schedule", "apply", "delete", "preview", "release", "abort"}

ASSUME BoundAssumption ==
  /\ Cap \in Nat /\ Rest \in Nat /\ PlanRounds \in Nat
  /\ \A m \in Mixes : m.kinds \subseteq AllKinds /\ m.days \in Nat /\ m.versions \in Nat /\ m.from \in 0..m.days /\ m.problems \subseteq Problems

\* The applications that behaviours start with are some the code accepted.
ASSUME WaitingAssumption ==
  \A m \in Mixes : \A w \in m.waiting :
    /\ DOMAIN w \subseteq m.problems
    /\ \A p \in DOMAIN w : /\ w[p].pref \in {"soon", "later"} /\ w[p].ahead \subseteq DOMAIN w \ {p}
                          /\ Cardinality({o \in DOMAIN w : Author[o] = Author[p] /\ o # p}) < Cap

\* They have been entered, one after another.
ASSUME EntryAssumption ==
  \A m \in Mixes : \A w \in m.waiting : \A p \in DOMAIN w : w[p].at \in 0..m.from /\ \A o \in w[p].ahead : p \notin w[o].ahead

\* A contest's row, and NULL is none.
Contests == [starts : Nat, ends : Nat, released : BOOLEAN]
ASSUME ContestAssumption == /\ None \notin Contests
                            /\ \A s \in Schedules : s.starts \in Nat /\ s.ends \in Nat /\ s.starts < s.ends
ASSUME FiniteAssumption == IsFiniteSet(Problems)

\* The drafts of the behaviours, with points that are numbers, and a copy of one; NULL is neither a
\* problem nor a copy.
Drafts == UNION {m.first \cup m.saves : m \in Mixes}
Copy   == [draft : Drafts, version : Nat \ {0}]
ASSUME NullAssumption == None \notin Problems /\ None \notin Copy
ASSUME DraftAssumption ==
  \A d \in Drafts : d.scoring # None => d.scoring.groups \in Seq([name : STRING, points : Nat])

VARIABLES
  mix,       \* the behaviour's mix
  now,       \* clock_timestamp(), in days
  row,       \* problem_drafts, by id: draft, version, published and scheduled copies, ever_published
  held,      \* contest_problems of the contest, by problem
  contest,   \* the contest's row
  apps,      \* featured_applications, by problem, each with those entered ahead of it
  next,      \* featured_schedule.next_at
  previews,  \* featured_previews of the next round
  rounds,    \* featured_slots, by scheduled_at and slot
  req,       \* open transactions
  late,      \* those open since the day before
  since,     \* history: the version that brought a problem's draft
  judgedBy,  \* history: the scoring definitions contest runs were created with
  slips,     \* history: problems a save wrote through one of the two races below
  unjudged,  \* history: problems made public or reserved with a draft that nobody judged
  failed,    \* history: a release broke a constraint of its table
  plan       \* history: the last plan shown, while nothing changed the queue

tables  == <<row, held, contest, apps, next, previews, rounds>>
history == <<since, judgedBy, slips, unjudged, failed, plan>>
vars    == <<mix, now, tables, req, late, history>>

-----------------------------------------------------------------------------
\* The rules a draft must meet.

Points(groups)  == FoldLeft(LAMBDA sum, g : sum + g.points, 0, groups)
FullScore(s)    == IF s = None THEN 0 ELSE Points(s.groups)
SameDefinition_mode(s, o) == s = None \/ o = None \/ s.mode = o.mode  \* mutation: the groups are not compared
SameDefinition(s, o) == IF s = None \/ o = None THEN s = o ELSE s.mode = o.mode /\ s.groups = o.groups
Definition(s)   == IF s = None THEN None ELSE <<s.mode, s.groups>>

ValidScoring(d) ==
  LET s == d.scoring
      names == [i \in DOMAIN s.groups |-> s.groups[i].name] IN
  IF s = None THEN \A c \in d.cases : c.groups = {}
  ELSE /\ s.mode = "aggregate" \/ s.aggregator = {}
       /\ IsInjective(names) /\ (s.groups # <<>> => FullScore(s) >= 1)
       /\ \A c \in d.cases : c.groups \subseteq ToSet(names)

ScoringIssues(d) ==
  IF d.scoring = None THEN {}
  ELSE {i \in {"groups", "group_empty", "ungrouped"} :
         \/ i = "groups" /\ d.scoring.groups = <<>>
         \/ i = "group_empty" /\ \E g \in ToSet(d.scoring.groups) : \A c \in d.cases : g.name \notin c.groups
         \/ i = "ungrouped" /\ \E c \in d.cases : ~c.sample /\ c.groups = {}}

\* Judge code, and the aggregator of an aggregate problem, need a source and a runtime that is enabled.
CodeIssues(code) == {i \in {"source", "runtime"} : \E c \in code : ~c[i]}
ContentIssues(d) ==
  LET aggregate == d.scoring # None /\ d.scoring.mode = "aggregate" IN
  ({"title", "statement", "editorial"} \ d.texts) \cup CodeIssues(d.judges) \cup ScoringIssues(d)
    \cup (IF aggregate THEN CodeIssues(d.scoring.aggregator) ELSE {})
    \cup {i \in {"invalid_draft", "difficulty", "aggregator", "test_cases"} :
           \/ i = "invalid_draft" /\ ~ValidScoring(d)
           \/ i = "difficulty" /\ d.level = "none"
           \/ i = "aggregator" /\ aggregate /\ d.scoring.aggregator = {}
           \/ i = "test_cases" /\ d.cases = {}}
Publishable(d) == ContentIssues(d) = {}

-----------------------------------------------------------------------------
Live(p)      == p \in DOMAIN row
Public(p)    == Live(p) /\ row[p].pub # None
Scheduled(p) == Live(p) /\ row[p].sched # None
Held(p)      == p \in DOMAIN held
Applied(p)   == p \in DOMAIN apps
Reserved(p)  == Held(p) /\ ~contest.released
Others(p)    == {o \in DOMAIN apps : Author[o] = Author[p] /\ o # p}
Started      == contest # None /\ contest.starts <= now

\* What a problem's author is told the saved problem can do.
Assess_early(p) == \* mutation: an application is forgotten by the contest's list
  LET content == ContentIssues(row[p].draft)
      If(c, i) == IF c THEN {i} ELSE {} IN
  [publish  |-> content \cup If(Reserved(p), "in_contest"),
   contest  |-> content \cup If(Scheduled(p), "scheduled") \cup If(Public(p), "published") \cup If(Held(p), "in_contest"),
   featured |-> content \cup If(Scheduled(p), "scheduled") \cup If(row[p].ever, "ever_published")
                  \cup If(Held(p), "in_contest") \cup If(~Applied(p) /\ Cardinality(Others(p)) >= Cap, "limit")]
Assess(p) ==
  LET content == ContentIssues(row[p].draft)
      If(c, i) == IF c THEN {i} ELSE {} IN
  [publish  |-> content \cup If(Reserved(p), "in_contest"),
   contest  |-> content \cup If(Scheduled(p), "scheduled") \cup If(Public(p), "published")
                  \cup If(Held(p), "in_contest") \cup If(Applied(p), "applied"),
   featured |-> content \cup If(Scheduled(p), "scheduled") \cup If(row[p].ever, "ever_published")
                  \cup If(Held(p), "in_contest") \cup If(~Applied(p) /\ Cardinality(Others(p)) >= Cap, "limit")]

\* Row and advisory locks.
Problem(p) == <<"problem", p>>
Owner_never(p) == <<"problem", p>>                    \* mutation: no lock for the author's applications
Owner(p)   == <<"owner", Author[p]>>
Contest    == <<"contest">>
Schedule   == <<"schedule">>
Taken      == UNION {req[r].locks : r \in Requests}
Free(r, S) == S \cap UNION {req[q].locks : q \in Requests \ {r}} = {}
Rows(S)    == {Problem(p) : p \in S}

\* A request names the version it is about, and the number may be one that a save has yet to bring;
\* those of the past are left out, they only conflict.
NotPast(p, named) == Live(p) /\ row[p].version <= named

\* A request releases what is due before it starts.
UpToDate   == /\ contest # None => contest.released \/ now < contest.ends
              /\ \A p \in Problems : Scheduled(p) => now < row[p].sched.at
              /\ now < next

Idle        == [kind |-> "idle", locks |-> {}]
Done(r)     == req' = [req EXCEPT ![r] = Idle]
Begin(r, q) == req[r] = Idle /\ (q.kind # "due" => UpToDate) /\ req' = [req EXCEPT ![r] = q]
Move(r, q)  == req' = [req EXCEPT ![r] = q]
At(r, k)    == req[r].kind = k

\* A row as the trigger on problem_drafts leaves it.
Stored_latest(draft, version, pub, sched, ever) == \* mutation: publication is forgotten when it is undone
  [draft |-> draft, version |-> version, pub |-> pub, sched |-> IF pub # None THEN None ELSE sched, ever |-> pub # None]
Stored(draft, version, pub, sched, ever) ==
  [draft |-> draft, version |-> version, pub |-> pub, sched |-> IF pub # None THEN None ELSE sched,
   ever |-> ever \/ pub # None]
Published(w, draft, version) == Stored(w.draft, w.version + 1, [draft |-> draft, version |-> version], w.sched, w.ever)

\* The delivery: Monday and Thursday 22:00, each round open for a day.
Window == 1
NextFeatured(t) == Min({u \in (t + 1)..(t + 7) : u % 7 \in {0, 3}})

\* Applications of problems that are published, withdrawn or deleted go.
Leave(S) == apps' = [p \in DOMAIN apps \ S |-> [pref |-> apps[p].pref, at |-> apps[p].at, ahead |-> apps[p].ahead \ S]]
Store(new) == row' = [p \in DOMAIN row |-> IF p \in DOMAIN new THEN new[p] ELSE row[p]]
Write(new) == Store(new) /\ Leave({p \in DOMAIN new : new[p].pub # None}) /\ plan' = <<>>

Init ==
  /\ mix \in Mixes /\ now = mix.from /\ contest = None /\ apps \in mix.waiting /\ failed = FALSE /\ slips = {} /\ unjudged = {} /\ plan = <<>>
  /\ \E d \in mix.first :
       row = [p \in mix.problems |-> [draft |-> d, version |-> 1, pub |-> None, sched |-> None, ever |-> FALSE]]
  /\ held = <<>> /\ since = [p \in Problems |-> 1] /\ judgedBy = [p \in Problems |-> {}]
  /\ next = NextFeatured(now) /\ previews = [s \in Slots |-> None] /\ rounds = <<>>
  /\ req = [r \in Requests |-> Idle] /\ late = {}

-----------------------------------------------------------------------------
\* Save: the contest that holds the problem is locked before the problem; the
\* version, the contest's start and the rules are judged under the row's lock.
SaveBegin(r, p, d, named) ==
  /\ "save" \in mix.kinds /\ NotPast(p, named) /\ row[p].draft # d
  /\ LET locks == IF Held(p) THEN {Contest} ELSE {} IN
     /\ Free(r, locks)
     /\ Begin(r, [kind |-> "save", p |-> p, d |-> d, seen |-> named, locks |-> locks])
  /\ UNCHANGED <<tables, history>>

\* checkSave: whether the save is refused.
Refused_unruled(p, d, s) == s /\ ~SameDefinition(held[p].draft.scoring, d.scoring) \* mutation: a reservation may lose its content
Refused(p, d, started) ==
  \/ started /\ ~SameDefinition(held[p].draft.scoring, d.scoring)
  \/ (Public(p) \/ Scheduled(p) \/ (Held(p) /\ now < contest.ends)) /\ ~Publishable(d)
SaveCheck(r) ==
  /\ At(r, "save")
  /\ LET q == req[r]
         p == q.p
         started == Held(p) /\ Started IN
     /\ Free(r, {Problem(p)})
     /\ IF ~Live(p) \/ row[p].version # q.seen \/ Refused(p, q.d, started) THEN Done(r)
        ELSE Move(r, [kind |-> "saving", p |-> p, d |-> q.d, seen |-> q.seen, started |-> started,
                      unruled |-> Reserved(p) /\ now >= contest.ends, locks |-> q.locks \cup {Problem(p)}])
  /\ UNCHANGED <<tables, history>>

\* The new draft reaches every copy with its version.
Saved_lost(w, d) == Stored(d, w.version + 1, w.pub, w.sched, w.ever) \* mutation: the published copy stays
Saved(w, d) ==
  LET v == w.version + 1 IN
  Stored(d, v, IF w.pub = None THEN None ELSE [draft |-> d, version |-> v],
         IF w.sched = None THEN None ELSE [draft |-> d, version |-> v, at |-> w.sched.at], w.ever)
HeldCopy_zero(h, d, v, started) == [draft |-> d, version |-> v, points |-> IF started THEN h.points ELSE FullScore(d.scoring)] \* mutation: a problem without groups is worth nothing
HeldCopy(h, d, v, started) ==
  [draft |-> d, version |-> v,
   points |-> IF d.scoring # None /\ FullScore(d.scoring) >= 1 /\ ~started THEN FullScore(d.scoring) ELSE h.points]
SaveCommit(r) ==
  /\ At(r, "saving")
  /\ LET q == req[r]
         v == q.seen + 1 IN
     /\ Write([p \in {q.p} |-> Saved(row[p], q.d)])
     /\ held' = [p \in DOMAIN held |-> IF p = q.p THEN HeldCopy(held[p], q.d, v, q.started) ELSE held[p]]
     /\ since' = [since EXCEPT ![q.p] = v]
     /\ slips' = IF Held(q.p) /\ (Contest \notin q.locks \/ q.unruled) THEN slips \cup {q.p} ELSE slips
     /\ unjudged' = unjudged \ {q.p}
  /\ Done(r) /\ UNCHANGED <<contest, next, previews, rounds, judgedBy, failed>>

\* A contest is created or saved with a schedule and a set of problems: the
\* contest's row, then the problems' rows, then the checks under the locks.
Enters_applied(p) == Live(p) /\ ~Public(p) /\ ~Scheduled(p) /\ Publishable(row[p].draft) \* mutation: applications are not looked at
Enters(p) == Live(p) /\ ~Public(p) /\ ~Scheduled(p) /\ ~Applied(p) /\ Publishable(row[p].draft)
ContestBegin(r, S, s) ==
  /\ "contest" \in mix.kinds /\ ~Started
  /\ now < s.starts /\ S # {} /\ \A p \in S : Enters(p)
  /\ Free(r, {Contest} \cup Rows(S))
  /\ Begin(r, [kind |-> "contest", s |-> s, locks |-> {Contest} \cup Rows(S),
               copies |-> [p \in S |-> [draft |-> row[p].draft, version |-> row[p].version,
                                        points |-> IF row[p].draft.scoring = None THEN 100 ELSE FullScore(row[p].draft.scoring)]]])
  /\ UNCHANGED <<tables, history>>
ContestCommit(r) ==
  /\ At(r, "contest")
  /\ LET q == req[r] IN
     IF now < q.s.starts
     THEN /\ contest' = [starts |-> q.s.starts, ends |-> q.s.ends, released |-> FALSE]
          /\ held' = q.copies
          /\ plan' = <<>>
     ELSE UNCHANGED <<contest, held, plan>>
  /\ Done(r) /\ UNCHANGED <<row, apps, next, previews, rounds, since, judgedBy, slips, unjudged, failed>>

\* A contest run takes its job from the contest's copy, holding the contest FOR SHARE.
Submit(p) ==
  /\ "submit" \in mix.kinds /\ UpToDate /\ Held(p) /\ Started /\ Contest \notin Taken
  /\ judgedBy' = [judgedBy EXCEPT ![p] = @ \cup {Definition(held[p].draft.scoring)}]
  /\ UNCHANGED <<mix, now, tables, req, late, since, slips, unjudged, failed, plan>>

-----------------------------------------------------------------------------
\* Publishing now, taking down and reserving.  The content is judged on the
\* draft read before the transaction, and the transaction compares the version
\* the request names; nothing compares it with the version judged.  Testers
\* only take down what is public.
Movable(p, leaves, named) == NotPast(p, named) /\ (leaves => Publishable(row[p].draft))
PublishBegin(r, p, on, author, named) ==
  /\ "publish" \in mix.kinds /\ Movable(p, on, named)
  /\ Begin(r, [kind |-> "publish", p |-> p, on |-> on, author |-> author, seen |-> named, judged |-> row[p].version, locks |-> {}])
  /\ UNCHANGED <<tables, history>>
ScheduleBegin(r, p, at, named) ==
  /\ "schedule" \in mix.kinds /\ Movable(p, TRUE, named)
  /\ Begin(r, [kind |-> "schedule", p |-> p, at |-> at, on |-> TRUE, seen |-> named, judged |-> row[p].version, locks |-> {}])
  /\ UNCHANGED <<tables, history>>

\* What leaves under a version other than the one judged.
Vouched(q) == unjudged' = IF q.on /\ q.seen # q.judged THEN unjudged \cup {q.p} ELSE unjudged \ {q.p}
Current_any(q) == Live(q.p)   \* mutation: the version is not compared
Current(q) == Live(q.p) /\ row[q.p].version = q.seen
Publishes_reserved(q) == Current(q) /\ (q.author \/ (~q.on /\ Public(q.p))) \* mutation: a contest's problem may be published
Publishes(q) == Current(q) /\ (q.author \/ (~q.on /\ Public(q.p))) /\ ~Reserved(q.p)
PublishCommit(r) ==
  LET q == req[r]
      w == row[q.p]
      moved == IF q.on THEN Published(w, w.draft, w.version + 1) ELSE Stored(w.draft, w.version + 1, None, None, w.ever) IN
  /\ At(r, "publish") /\ Free(r, {Problem(q.p)})
  /\ IF Publishes(q) THEN Write([p \in {q.p} |-> moved]) /\ Vouched(q) ELSE UNCHANGED <<row, apps, plan, unjudged>>
  /\ Done(r) /\ UNCHANGED <<held, contest, next, previews, rounds, since, judgedBy, slips, failed>>

Reserves_applied(q) == Current(q) /\ q.at > now /\ ~Public(q.p) /\ ~Held(q.p)   \* mutation: applications are not looked at
Reserves(q) == Current(q) /\ q.at > now /\ ~Public(q.p) /\ ~Held(q.p) /\ ~Applied(q.p)
ScheduleCommit(r) ==
  LET q == req[r]
      w == row[q.p]
      reserved == Stored(w.draft, w.version + 1, w.pub, [draft |-> w.draft, version |-> w.version + 1, at |-> q.at], w.ever) IN
  /\ At(r, "schedule") /\ Free(r, {Problem(q.p)})
  /\ IF Reserves(q) THEN Write([p \in {q.p} |-> reserved]) /\ Vouched(q) ELSE UNCHANGED <<row, apps, plan, unjudged>>
  /\ Done(r) /\ UNCHANGED <<held, contest, next, previews, rounds, since, judgedBy, slips, failed>>

-----------------------------------------------------------------------------
\* An author applies for the delivery, under a lock for all their applications.
Appliable(p) == /\ ~row[p].ever /\ ~Scheduled(p) /\ ~Held(p) /\ Publishable(row[p].draft)
                /\ Cardinality(Others(p)) < Cap
ApplyBegin(r, p, pref) ==
  /\ "apply" \in mix.kinds /\ Live(p) /\ Free(r, {Owner(p), Problem(p)}) /\ Appliable(p)
  /\ Begin(r, [kind |-> "apply", p |-> p, pref |-> pref, locks |-> {Owner(p), Problem(p)}])
  /\ UNCHANGED <<tables, history>>
ApplyCommit(r) ==
  /\ At(r, "apply")
  /\ LET q == req[r]
         known == Applied(q.p) IN
     apps' = [p \in DOMAIN apps \cup {q.p} |->
               IF p # q.p THEN apps[p]
               ELSE [pref |-> q.pref, at |-> IF known THEN apps[p].at ELSE now, ahead |-> IF known THEN apps[p].ahead ELSE DOMAIN apps]]
  /\ plan' = <<>>
  /\ Done(r) /\ UNCHANGED <<row, held, contest, next, previews, rounds, since, judgedBy, slips, unjudged, failed>>
Withdraw(p) ==
  /\ "apply" \in mix.kinds /\ UpToDate /\ Applied(p) /\ {Owner(p), Problem(p)} \cap Taken = {}
  /\ Leave({p}) /\ plan' = <<>>
  /\ UNCHANGED <<mix, now, row, held, contest, next, previews, rounds, req, late, since, judgedBy, slips, unjudged, failed>>

\* contest_problems keeps its problem; what else names it goes with it.
Delete(p) ==
  /\ "delete" \in mix.kinds /\ UpToDate /\ Live(p) /\ ~Held(p) /\ Problem(p) \notin Taken
  /\ row' = [o \in DOMAIN row \ {p} |-> row[o]]
  /\ Leave({p}) /\ plan' = <<>>
  /\ previews' = [s \in Slots |-> IF previews[s] = p THEN None ELSE previews[s]]
  /\ rounds' = [t \in DOMAIN rounds |-> [s \in Slots |-> IF rounds[t][s].p = p THEN [rounds[t][s] EXCEPT !.p = None] ELSE rounds[t][s]]]
  /\ UNCHANGED <<mix, now, held, contest, next, req, late, since, judgedBy, slips, unjudged, failed>>

-----------------------------------------------------------------------------
\* Releases, run by the dispatcher's tick and before the reads that need them.

ReleaseContest ==
  /\ contest # None /\ ~contest.released /\ contest.ends <= now
  /\ (Rows(DOMAIN held) \cup {Contest}) \cap Taken = {}
  /\ Write([p \in DOMAIN held |-> Published(row[p], held[p].draft, row[p].version + 1)])
  /\ contest' = [starts |-> contest.starts, ends |-> contest.ends, released |-> TRUE]
  /\ UNCHANGED <<mix, now, held, next, previews, rounds, req, late, since, judgedBy, slips, unjudged, failed>>

DueRows == {p \in Problems : Scheduled(p) /\ row[p].sched.at <= now}
ReleaseScheduled ==
  /\ DueRows # {} /\ Rows(DueRows) \cap Taken = {}
  /\ Write([p \in DueRows |-> Published(row[p], row[p].sched.draft, row[p].sched.version)])
  /\ UNCHANGED <<mix, now, held, contest, next, previews, rounds, req, late, since, judgedBy, slips, unjudged, failed>>

-----------------------------------------------------------------------------
Due == next <= now

\* Two of every three new problems of a slot favour "soon".
Preference(count) == IF count % 3 = 2 THEN "later" ELSE "soon"

\* The saved preview, the favoured preference, then the order of entry.
Before_unsaved(pool, p, o, reserved, pref) == \* mutation: the preview is not kept
  \/ pool[p].pref = pref /\ pool[o].pref # pref
  \/ (pool[p].pref = pref) = (pool[o].pref = pref) /\ p \in pool[o].ahead
Before(pool, p, o, reserved, pref) ==
  \/ p = reserved
  \/ o # reserved /\ pool[p].pref = pref /\ pool[o].pref # pref
  \/ o # reserved /\ (pool[p].pref = pref) = (pool[o].pref = pref) /\ p \in pool[o].ahead
First(pool, S, reserved, pref) == {p \in S : \A o \in S \ {p} : Before(pool, p, o, reserved, pref)}

\* The queue as its statement reads it, and the check of an entry under the problem's lock.
Queue == [p \in {o \in DOMAIN apps : ~row[o].ever /\ ~Held(o)} |-> apps[p]]
Eligible_stale(p) == Live(p) \* mutation: the problem is not looked at again
Eligible(p) == Live(p) /\ ~row[p].ever /\ ~Held(p) /\ Applied(p)
InSlot(p, s) == Publishable(row[p].draft) /\ row[p].draft.level = s
Entries(pool, s, t) == {p \in DOMAIN pool : Eligible(p) /\ InSlot(p, s) /\ pool[p].at <= t}
NewCount(s)  == Cardinality({t \in DOMAIN rounds : rounds[t][s].kind = "new"})

\* A round's problem opens for others a day after it.
Hidden(p, t) == \E u \in DOMAIN rounds, s \in Slots : rounds[u][s] = [kind |-> "new", p |-> p] /\ t < u + Window
LastAt(p)    == Max({-Rest - 1} \cup {u \in DOMAIN rounds : \E s \in Slots : rounds[u][s].p = p})
Revivals(s, t, reserved) ==
  LET Open(p) == Public(p) /\ row[p].pub.draft.level = s /\ ~Hidden(p, t)
                   /\ ~(Held(p) /\ contest.starts <= t /\ t < contest.ends)
      Fresh(p) == LastAt(p) < t - Rest
      all == {p \in Problems : Open(p)} IN
  IF reserved \in all THEN {reserved}
  ELSE IF \E p \in all : Fresh(p) THEN {p \in all : Fresh(p)}
  ELSE {p \in all : \A o \in all : LastAt(p) <= LastAt(o)}

Select(pool, s, t, reserved) ==
  LET entries == Entries(pool, s, t)
      revivals == Revivals(s, Max({t, now}), reserved) IN
  IF entries # {} THEN {[kind |-> "new", p |-> p] : p \in First(pool, entries, reserved, Preference(NewCount(s)))}
  ELSE IF revivals # {} THEN {[kind |-> "revival", p |-> p] : p \in revivals}
  ELSE {[kind |-> "missing", p |-> None]}

\* A release that saw a round due waits for the schedule's row and reads the
\* queue; by the time the queue's rows are locked they may have changed.
FeaturedDue(r)  == /\ "release" \in mix.kinds /\ Due /\ Begin(r, [kind |-> "due", locks |-> {}]) /\ UNCHANGED <<tables, history>>
FeaturedLock(r) == /\ At(r, "due") /\ Free(r, {Schedule})
                   /\ Move(r, [kind |-> "featured", pool |-> Queue, locks |-> {Schedule}])
                   /\ UNCHANGED <<tables, history>>

\* Rounds whose day is over are recorded without a problem; the one still open gets its picks.
DueRounds_once == {next}  \* mutation: the cursor is not read again under its lock
DueRounds == {t \in next..now : t % 7 \in {0, 3}}
Missing == [kind |-> "missing", p |-> None]
Recorded(p) == \E t \in DOMAIN rounds, s \in Slots : rounds[t][s] = [kind |-> "new", p |-> p]
FeaturedCommit(r) ==
  LET due == DueRounds
      open == {t \in due : now < t + Window}
      Picks(s) == IF open = {} THEN {Missing}
                  ELSE LET t == Max(open) IN Select(req[r].pool, s, t, IF t = next THEN previews[s] ELSE None)
      Delivered(w) == Published(w, w.draft, w.version + 1) IN
  /\ At(r, "featured") /\ Free(r, Rows(DOMAIN req[r].pool))
  /\ \E easy \in Picks("easy"), hard \in Picks("hard") :
       LET pick == [s \in Slots |-> IF s = "easy" THEN easy ELSE hard]
           new == {pick[s].p : s \in {o \in Slots : pick[o].kind = "new"}} IN
       IF due = {} THEN UNCHANGED <<row, apps, plan, next, previews, rounds, failed>>
       ELSE IF \E p \in new : Recorded(p) THEN failed' = TRUE /\ UNCHANGED <<row, apps, plan, next, previews, rounds>>
       ELSE /\ Store([p \in new |-> Delivered(row[p])]) /\ Leave(new)
            /\ rounds' = [t \in due \cup DOMAIN rounds |->
                            IF t \in open THEN pick ELSE IF t \in due THEN [s \in Slots |-> Missing] ELSE rounds[t]]
            /\ next' = NextFeatured(Max(due)) /\ previews' = [s \in Slots |-> None]
            /\ plan' = IF due = {next} /\ open = due /\ plan # <<>> THEN Tail(plan) ELSE <<>>
            /\ UNCHANGED failed
  /\ Done(r) /\ UNCHANGED <<held, contest, since, judgedBy, slips, unjudged>>

\* The coming rounds as if the applications stayed: the preview, then the queue.
Soonest(S, pref) == IF S = {} THEN None ELSE CHOOSE p \in First(Queue, S, None, pref) : TRUE
NextEntry_entered(queue, t, pref) == Soonest({p \in queue : Queue[p].at <= t}, "none") \* mutation: the preference does not count
NextEntry(queue, t, pref) == Soonest({p \in queue : Queue[p].at <= t}, pref)
PlanOf(picks, s) ==
  LET all == {p \in DOMAIN Queue : InSlot(p, s)}
      Entry(b, i) == IF i = 1 /\ picks[s].kind = "new" THEN picks[s].p ELSE NextEntry(b.queue, b.t, Preference(b.count))
      step[i \in 0..PlanRounds] ==
        IF i = 0 THEN [queue |-> all, t |-> next, count |-> NewCount(s), out |-> <<>>]
        ELSE LET b == step[i - 1]
                 e == Entry(b, i) IN
             [queue |-> b.queue \ {e}, t |-> NextFeatured(b.t), count |-> b.count + IF e = None THEN 0 ELSE 1,
              out |-> Append(b.out, e)] IN
  step[PlanRounds].out

\* Whoever reads the announcement or the plan selects the next round and saves it as the preview.
Preview ==
  /\ "preview" \in mix.kinds /\ UpToDate /\ ({Schedule} \cup Rows(DOMAIN Queue)) \cap Taken = {}
  /\ \E easy \in Select(Queue, "easy", next, previews["easy"]), hard \in Select(Queue, "hard", next, previews["hard"]) :
       LET picks == [s \in Slots |-> IF s = "easy" THEN easy ELSE hard] IN
       /\ previews' = [s \in Slots |-> picks[s].p]
       /\ plan' = LET p == [s \in Slots |-> PlanOf(picks, s)] IN [i \in 1..PlanRounds |-> [s \in Slots |-> p[s][i]]]
  /\ UNCHANGED <<mix, now, row, held, contest, apps, next, rounds, req, late, since, judgedBy, slips, unjudged, failed>>

-----------------------------------------------------------------------------
\* Bound: a request lasts over at most one day change.
Tick ==
  /\ now < mix.days /\ late = {}
  /\ now' = now + 1 /\ late' = {r \in Requests : req[r] # Idle}
  /\ UNCHANGED <<mix, tables, req, history>>

\* A request that dies rolls back.
Abort(r) == "abort" \in mix.kinds /\ req[r] # Idle /\ Done(r) /\ UNCHANGED <<tables, history>>

Commit(r) == SaveCheck(r) \/ SaveCommit(r) \/ ContestCommit(r) \/ PublishCommit(r) \/ ScheduleCommit(r)
               \/ ApplyCommit(r) \/ FeaturedLock(r) \/ FeaturedCommit(r)
Arrive(r) ==
  \/ \E p \in Problems, d \in mix.saves, named \in 1..mix.versions - 1 : SaveBegin(r, p, d, named)
  \/ \E S \in SUBSET Problems, s \in Schedules : ContestBegin(r, S, s)
  \/ \E p \in Problems, on, author \in BOOLEAN, named \in 1..mix.versions - 1 : PublishBegin(r, p, on, author, named)
  \/ \E p \in Problems, at \in (now + 1)..mix.days, named \in 1..mix.versions - 1 : ScheduleBegin(r, p, at, named)
  \/ \E p \in Problems, pref \in {"soon", "later"} : ApplyBegin(r, p, pref)
  \/ FeaturedDue(r)
Transaction(r) == /\ Arrive(r) \/ Commit(r) \/ Abort(r)
                  /\ late' = IF req'[r] = Idle THEN late \ {r} ELSE late
                  /\ UNCHANGED <<mix, now>>

Next ==
  \/ \E r \in Requests : Transaction(r)
  \/ \E p \in Problems : Submit(p) \/ Withdraw(p) \/ Delete(p)
  \/ ReleaseContest \/ ReleaseScheduled \/ Preview \/ Tick

Spec == Init /\ [][Next]_vars

-----------------------------------------------------------------------------
\* Types of every variable.
TypeOK ==
  /\ mix \in Mixes /\ now \in 0..mix.days /\ next \in Nat /\ failed \in BOOLEAN /\ slips \cup unjudged \subseteq Problems
  /\ \A p \in Problems :
       /\ Live(p) => row[p].draft \in Drafts /\ row[p].version \in Nat \ {0} /\ row[p].ever \in BOOLEAN
       /\ Public(p) => row[p].pub \in Copy
       /\ Held(p) => held[p].points \in Nat \ {0}
  /\ contest \in {None} \cup Contests
  /\ late \subseteq Requests /\ DOMAIN apps \subseteq Problems
  /\ \A p \in DOMAIN apps : apps[p].pref \in {"soon", "later"} /\ apps[p].ahead \subseteq DOMAIN apps \ {p}
  /\ previews \in [Slots -> Problems \cup {None}]
  /\ \A t \in DOMAIN rounds : rounds[t] \in [Slots -> [kind : {"new", "revival", "missing"}, p : Problems \cup {None}]]

\* A problem has at most one destination: whichever of a reservation, an
\* application, a contest not over yet and publication took it first keeps the
\* others out, however the requests overlap, and an author never has more
\* applications than the cap (ErrContestLocked, ErrSchedule, ErrFeaturedIneligible).
OneDestination ==
  \A p \in Problems :
    /\ Reserved(p) => ~Public(p) /\ ~Scheduled(p) /\ ~Applied(p)
    /\ Applied(p) => Live(p) /\ ~row[p].ever /\ ~Scheduled(p)
    /\ Applied(p) => Cardinality(Others(p)) < Cap

\* Every copy a reader or a judge uses - the public one, the reserved one and
\* the contest's - is the saved draft, under a version that names that draft:
\* saves, publications and releases that overlap never leave one behind.
CopiesInStep ==
  \A p \in Problems :
    LET InStep(c) == c.draft = row[p].draft /\ since[p] <= c.version /\ c.version <= row[p].version IN
    Live(p) => (Public(p) => InStep(row[p].pub)) /\ (Scheduled(p) => InStep(row[p].sched)) /\ (Held(p) => InStep(held[p]))

\* What is public, or will be without another look at it, meets the content
\* rules (Publishable), except where a save crossed its contest's end, and what
\* a request published or reserved under a version it had not read, until the
\* next save or request judges it.
ReadyWhenPublic ==
  \A p \in Problems \ (slips \cup unjudged) : (Public(p) \/ Scheduled(p) \/ Reserved(p)) => Publishable(row[p].draft)

\* All runs of a contest problem are scored by one definition, the one the
\* contest keeps, and a partial problem is worth its full score (ADR 0025),
\* except where the save of a problem overlapped the contest save that took it.
ScoringSettled ==
  \A p \in Problems \ slips : Held(p) =>
    /\ judgedBy[p] \subseteq {Definition(held[p].draft.scoring)}
    /\ held[p].draft.scoring # None => held[p].points = FullScore(held[p].draft.scoring)

\* What leaves the author's hands is settled: finished content, and one scoring.
ContentSettled == ReadyWhenPublic /\ ScoringSettled

\* The claim of Save's comment on its lock, without that exception.
ScoringNeverMixed == \A p \in Problems : Cardinality(judgedBy[p]) <= 1

\* The readiness shown to an author says exactly what the operations accept.
ReadinessIsRight ==
  \A p \in Problems : Live(p) =>
    /\ (Assess(p).contest = {}) <=> (Enters(p) /\ ~Held(p))
    /\ (Assess(p).featured = {}) <=> Appliable(p)

\* A round is recorded once, when it is due, and never changes but for a
\* deleted problem; the cursor only moves on, and what a round calls new was
\* never public, whatever happened since its queue was read (ReleaseFeatured's
\* comments).  And no sequence of applications, publications, take-downs and
\* deletions brings a release to break a constraint of its tables, which would
\* stop every later release and, with it, sending to the judge.
RoundsGoOn ==
  /\ ~failed' /\ next' >= next /\ \A t \in DOMAIN rounds' : t < next' /\ t <= now
  /\ \A t \in DOMAIN rounds' \ DOMAIN rounds, s \in Slots : rounds'[t][s].kind = "new" => ~row[rounds'[t][s].p].ever
  /\ \A t \in DOMAIN rounds : t \in DOMAIN rounds' /\ \A s \in Slots :
       rounds'[t][s].kind = rounds[t][s].kind /\ rounds'[t][s].p \in {rounds[t][s].p, None}
RoundsStay == [][RoundsGoOn]_vars

\* The problem announced as the next round's new one is delivered by it, if it
\* can still be, whoever applies after the announcement; and a round that comes
\* on time delivers what the plan shown before said, as long as the queue
\* stayed: the plan and the selection never drift apart.
Awaited(s) == \* the announced problem waited when the open release read the queue, and still does
  /\ previews[s] \in DOMAIN Queue /\ InSlot(previews[s], s) /\ now < next + Window
  /\ \E r \in Requests : At(r, "featured") /\ previews[s] \in DOMAIN req[r].pool
AnnouncedIsDelivered ==
  [][\A s \in Slots : next \in DOMAIN rounds' =>
       LET new == rounds'[next][s]
       IN /\ Awaited(s) => new = [kind |-> "new", p |-> previews[s]]
          /\ plan # <<>> /\ now < next + Window => plan[1][s] = (IF new.kind = "new" THEN new.p ELSE None)]_vars

=============================================================================
