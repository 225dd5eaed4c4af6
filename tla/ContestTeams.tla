---------------------------- MODULE ContestTeams ----------------------------
(***************************************************************************)
(* Registrations and teams of one ShareOJ contest.                         *)
(*                                                                         *)
(* Requests are database transactions that run side by side.  A step is a  *)
(* statement that may wait for a lock, with the statements after it that   *)
(* read nothing another transaction can change meanwhile; what a request   *)
(* has read but not committed lives in its record.  Locks follow from the  *)
(* records: joining, leaving, submitting and account deletion hold the     *)
(* contest row in share mode, a save and a rotation need it alone.         *)
(*                                                                         *)
(* Nobody here is staff of the contest; ContestStaff is about those.  Team *)
(* names are left out: a unique index decides about them.                  *)
(***************************************************************************)
EXTENDS Naturals, FiniteSets

CONSTANTS
  People,       \* accounts
  Teams,        \* ids a team may get
  Requests,     \* transactions that may be open at a time
  Mixes,        \* bound: of each behaviour, the kinds of requests, the
                \* accounts, team ids and sizes (max_team_size) it has
  Out,          \* not registered
  Solo,         \* registered, team_id IS NULL
  Idle,         \* no transaction
  AttemptLimit, \* attemptLimit
  MaxCode,      \* bound: join codes ever drawn
  MaxPassphrase \* bound: passphrases ever set

AllKinds == {"enter", "move", "upgrade", "guess", "remove", "renew", "submit", "delete", "venue", "settings"}

ASSUME LimitAssumption == AttemptLimit \in Nat \ {0}
ASSUME MixesAssumption == Mixes \subseteq [kinds : SUBSET AllKinds, people : SUBSET People, teams : SUBSET Teams,
                                             sizes : SUBSET (Nat \ {0, 1})]
ASSUME SentinelAssumption == /\ {Out, Solo} \cap Teams = {} /\ Out # Solo
                             /\ People \cap Teams = {} /\ IsFiniteSet(People)
                             /\ MaxCode \in Nat /\ MaxPassphrase \in Nat \ {0}

VARIABLES
  mix,        \* the behaviour's mix
  phase,      \* where the clock stands: before the start ... results final
  teamMode, maxSize, division, passphrase, \* the contest's settings
  team,       \* contest_participants: each account's team, Solo or Out
  code,       \* contest_teams: the team's join code, 0 if there is no such team
  lastCode,   \* the last code drawn; newJoinCode never repeats one
  onsite,     \* accounts and teams whose row has onsite_at
  failures,   \* wrong guesses of the account within the window
  deleted,    \* accounts with deleted_at
  req,        \* open transactions
  runs,       \* history: submissions made while running: by whom, the team
              \* they were for, and whether the registration's row was locked
  knew,       \* history: <<account, code>> of codes seen as a member
  stranded    \* history: codes of teams that an account entered while its deletion had already looked for its teams

contest == <<phase, teamMode, maxSize, division, passphrase>>
tables  == <<team, code, lastCode, onsite, failures, deleted, runs, stranded>>
vars    == <<mix, contest, tables, req, knew>>

Kinds == mix.kinds
Sizes == mix.sizes

NewJoin == {"alone", "create", "join"}
Join    == [op : {"join"}, at : {"begun", "moving", "moved"}, who : People, want : NewJoin, code : 0..MaxCode,
            guess : 0..MaxPassphrase, was : Teams \cup {Out, Solo}, team : Teams \cup {Solo}]
Remove  == [op : {"remove"}, who : People, team : Teams]
Submit  == [op : {"submit"}, at : {"begun", "eligible"}, who : People, held : BOOLEAN]
Delete  == [op : {"delete"}, at : {"begun", "locked"}, who : People, upcoming : BOOLEAN, team : Teams \cup {Solo}]

TypeOK ==
  /\ mix \in Mixes /\ phase \in {"before", "running", "ended", "final"}
  /\ teamMode \in BOOLEAN /\ division \in BOOLEAN /\ maxSize \in Sizes /\ passphrase \in 1..MaxPassphrase
  /\ team \in [People -> Teams \cup {Out, Solo}]
  /\ code \in [Teams -> 0..MaxCode] /\ lastCode \in 0..MaxCode
  /\ onsite \subseteq People \cup Teams
  /\ failures \in [People -> Nat]
  /\ deleted \subseteq People
  /\ req \in [Requests -> {Idle} \cup Join \cup Remove \cup Submit \cup Delete]
  /\ runs \subseteq [by : People, for : Teams \cup {Out, Solo}, held : BOOLEAN]
  /\ knew \subseteq People \X (1..MaxCode) /\ stranded \subseteq 0..MaxCode

-----------------------------------------------------------------------------
\* Locks, as the open transactions hold them.

Open(op)  == {r \in Requests : req[r] # Idle /\ req[r].op = op}
Joining   == Open("join")
Moving    == {r \in Joining : req[r].at \in {"moving", "moved"}}

\* contests FOR SHARE: a deletion takes it only for an upcoming contest.
ContestShared_never == FALSE                       \* mutation: joins do not lock the contest
ContestShared == \E r \in Requests : req[r] # Idle /\ (req[r].op = "delete" => req[r].upcoming)

\* pg_advisory_xact_lock of account and contest.
JoinLocked_never(p) == FALSE                       \* mutation: no advisory lock
JoinLocked(p) == \E r \in Joining : req[r].who = p

\* user_profiles FOR UPDATE; an INSERT that refers to the account waits for it.
ProfileLocked(p) == \E r \in Open("delete") : req[r].who = p

\* contest_teams FOR UPDATE.
TeamLocked_never(t) == FALSE                       \* mutation: joins do not lock the team
TeamLocked(t) ==
  \/ \E r \in Moving \cup Open("remove") : req[r].team = t
  \/ \E r \in Open("delete") : req[r].at = "locked" /\ req[r].team = t

\* The registration's row: FOR SHARE by a submission, exclusively by a move.
RowShared(p) == \E r \in Open("submit") : req[r].who = p /\ req[r].held
RowTaken(p)  == \E r \in Moving : req[r].who = p /\ req[r].at = "moved"
RowFree(p)   == ~RowShared(p) /\ ~RowTaken(p)

Members(t) == {p \in People : team[p] = t}
Onsite(p)  == IF team[p] \in Teams THEN team[p] \in onsite ELSE p \in onsite
Coded(c)   == {t \in Teams : code[t] = c}

\* An id no row has and no open transaction is about to insert.
FreeId(t) == t \in mix.teams /\ code[t] = 0 /\ ~TeamLocked(t)

-----------------------------------------------------------------------------
Init ==
  /\ mix \in Mixes /\ phase = "before" /\ teamMode \in BOOLEAN /\ division \in BOOLEAN /\ maxSize \in Sizes /\ passphrase = 1
  /\ team = [p \in People |-> Out]
  /\ code = [t \in Teams |-> 0] /\ lastCode = 0
  /\ onsite = {} /\ deleted = {} /\ runs = {} /\ knew = {} /\ stranded = {}
  /\ failures = [p \in People |-> 0]
  /\ req = [r \in Requests |-> Idle]

Done(r)       == req' = [req EXCEPT ![r] = Idle]
Refuse(r)     == Done(r) /\ UNCHANGED <<contest, tables>>
Started       == phase # "before"
Ended         == phase \in {"ended", "final"}

\* failAttempt: the guess is counted and nothing else is committed.
FailAttempt(r) ==
  /\ failures' = [failures EXCEPT ![req[r].who] = @ + 1]
  /\ Done(r)
  /\ UNCHANGED <<contest, team, code, lastCode, onsite, deleted, runs, stranded>>

\* Which refusals Join decides from its first read, before any further lock.
JoinAllowed(p, want, c, guess) ==
  LET registered == team[p] # Out
      inTeam     == team[p] \in Teams
      entering   == want # "alone" /\ ~inTeam
  IN /\ Ended => registered /\ ~entering /\ guess = 0
     /\ want # "alone" => teamMode
     /\ guess # 0 => division
     /\ inTeam /\ want # "alone" => want = "join" /\ c = code[team[p]]
     /\ entering /\ registered => ~Started
     /\ (entering /\ want = "join") \/ guess # 0 => failures[p] < AttemptLimit

\* Join up to the attempt limit.  A request with nothing left to do but to
\* register the account, or nothing at all, is finished by JoinAlone.
JoinBegin(r, p, want, c, guess) ==
  /\ req[r] = Idle /\ ~JoinLocked(p) /\ p \in mix.people \ deleted
  /\ (IF want = "alone" /\ team[p] # Out THEN "upgrade" ELSE IF team[p] = Out THEN "enter" ELSE "move") \in Kinds
  /\ guess # 0 => "guess" \in Kinds
  /\ want = "join" <=> c # 0
  /\ JoinAllowed(p, want, c, guess)
  /\ req' = [req EXCEPT ![r] =
       [op |-> "join", at |-> "begun", who |-> p, want |-> want, code |-> c, guess |-> guess, was |-> team[p], team |-> Solo]]
  /\ UNCHANGED <<contest, tables>>

Entering(q) == q.want # "alone" /\ q.was \notin Teams

\* How far a move into team t has come.
JoinAt(q, at, t) == [op |-> "join", at |-> at, who |-> q.who, want |-> q.want, code |-> q.code, guess |-> q.guess,
                     was |-> q.was, team |-> t]

\* A plain registration, or a repeated request that changes nothing.
JoinAlone(r) ==
  LET q == req[r] IN
  /\ q # Idle /\ q.op = "join" /\ q.at = "begun" /\ ~Entering(q) /\ q.guess = 0
  /\ IF q.was = Out
       THEN ~ProfileLocked(q.who) /\ team' = [team EXCEPT ![q.who] = Solo]
       ELSE UNCHANGED team
  /\ Done(r)
  /\ UNCHANGED <<contest, code, lastCode, onsite, failures, deleted, runs, stranded>>

\* The division goes with the registration into the team; nobody loses it.
OnsiteAfter_own(q, t) ==                            \* mutation: a mover's division is forgotten
  (onsite \ (IF t \in Teams THEN {q.who} ELSE {})) \cup (IF q.guess # 0 THEN {IF t \in Teams THEN t ELSE q.who} ELSE {})
OnsiteAfter(q, t) ==
  IF t \in Teams
    THEN (onsite \ {q.who}) \cup (IF q.who \in onsite \/ q.guess # 0 THEN {t} ELSE {})
    ELSE onsite \cup (IF q.guess # 0 /\ (q.was = Out \/ team[q.who] = Solo) THEN {q.who} ELSE {})

\* What a request commits that puts q.who where t says: the INSERT of a
\* registration or enterTeam's UPDATE, and the division that comes with it.
EnterCommit(r, t) ==
  LET q == req[r] IN
  /\ IF q.was \in Teams \/ (~Entering(q) /\ q.was = Solo)
       THEN UNCHANGED team
       ELSE team' = [team EXCEPT ![q.who] = t]
  /\ IF Entering(q) /\ q.want = "create"
       THEN lastCode < MaxCode /\ lastCode' = lastCode + 1 /\ code' = [code EXCEPT ![t] = lastCode + 1]
       ELSE UNCHANGED <<code, lastCode>>
  /\ onsite' = OnsiteAfter(q, t)
  /\ Done(r)
  /\ UNCHANGED <<contest, failures, deleted, runs, stranded>>

\* The team a begun request locks: by its code, its own, or a new one.
JoinTeam(r, t) ==
  LET q == req[r] IN
  CASE q.was \in Teams                     -> t = q.was
    [] Entering(q) /\ q.want = "join"      -> t \in Teams /\ code[t] = q.code
    [] Entering(q) /\ q.want = "create"    -> t \in Teams /\ FreeId(t)
    [] OTHER                               -> t = Solo

\* Unknown code, and a member removed while waiting for the team.
JoinNoTeam(r) ==
  LET q == req[r] IN
  /\ q # Idle /\ q.op = "join" /\ q.at = "begun" /\ (Entering(q) \/ q.guess # 0)
  /\ \/ Entering(q) /\ q.want = "join" /\ Coded(q.code) = {} /\ ~ProfileLocked(q.who) /\ FailAttempt(r)
     \/ q.was \in Teams /\ ~TeamLocked(q.was) /\ team[q.who] # q.was /\ Refuse(r)

\* The rest of Join behind the team's lock; a move goes on to enterTeam.
JoinEnter(r, t) ==
  LET q == req[r] IN
  /\ q # Idle /\ q.op = "join" /\ q.at = "begun" /\ (Entering(q) \/ q.guess # 0)
  /\ JoinTeam(r, t)
  /\ t \in Teams => ~TeamLocked(t)
  /\ q.was \in Teams => team[q.who] = q.was
  /\ IF q.guess # 0 /\ q.guess # passphrase THEN ~ProfileLocked(q.who) /\ FailAttempt(r)
     ELSE IF Entering(q) /\ q.want = "join" /\ Cardinality(Members(t)) >= maxSize THEN Refuse(r)
     ELSE IF Entering(q) /\ q.was = Solo
       THEN /\ req' = [req EXCEPT ![r] = JoinAt(q, "moving", t)]
            /\ UNCHANGED <<contest, tables>>
       ELSE /\ q.was = Out => ~ProfileLocked(q.who)
            /\ t = Solo => RowFree(q.who)
            /\ EnterCommit(r, t)

\* enterTeam: lock the registration, then look at the clock once more.
EnterTeam_trusting(r) ==                            \* mutation: the clock is not read again
  LET q == req[r] IN
  /\ r \in Moving /\ q.at = "moving" /\ RowFree(q.who)
  /\ req' = [req EXCEPT ![r] = JoinAt(q, "moved", q.team)] /\ UNCHANGED <<contest, tables>>
EnterTeam(r) ==
  LET q == req[r] IN
  /\ r \in Moving /\ q.at = "moving" /\ RowFree(q.who)
  /\ IF team[q.who] # Solo \/ Started
       THEN Refuse(r)
       ELSE req' = [req EXCEPT ![r] = JoinAt(q, "moved", q.team)] /\ UNCHANGED <<contest, tables>>

CommitMove(r) == r \in Moving /\ req[r].at = "moved" /\ EnterCommit(r, req[r].team)

-----------------------------------------------------------------------------
\* renewCode on a locked team.
Renewed_same(t) == UNCHANGED <<code, lastCode>>     \* mutation: the old code stays
Renewed(t) == lastCode < MaxCode /\ lastCode' = lastCode + 1 /\ code' = [code EXCEPT ![t] = lastCode + 1]

RenewTeamCode(p) ==
  /\ "renew" \in Kinds /\ ~Ended /\ team[p] \in Teams /\ ~TeamLocked(team[p])
  /\ Renewed(team[p])
  /\ UNCHANGED <<contest, team, onsite, failures, deleted, runs, stranded, req>>

\* The registration's row goes; a team left empty goes too, another's code is renewed.
Leave(p, t) ==
  /\ team' = [team EXCEPT ![p] = Out]
  /\ IF t \in Teams
       THEN IF Members(t) \subseteq {p}
              THEN code' = [code EXCEPT ![t] = 0] /\ UNCHANGED lastCode
              ELSE Renewed(t)
       ELSE UNCHANGED <<code, lastCode>>
  /\ onsite' = onsite \ ({p} \cup {u \in Teams : code'[u] = 0})

\* RemoveTeamMember up to the removal: the team is locked, the clock is read.
RemoveBegin(r, actor, member) ==
  /\ "remove" \in Kinds /\ req[r] = Idle /\ actor \notin deleted
  /\ team[actor] \in Teams /\ team[member] = team[actor] /\ ~TeamLocked(team[actor])
  /\ ~Started
  /\ req' = [req EXCEPT ![r] = [op |-> "remove", who |-> member, team |-> team[actor]]]
  /\ UNCHANGED <<contest, tables>>

\* dropMember waits for whoever holds the member's row.
RemoveCommit(r) ==
  /\ r \in Open("remove") /\ RowFree(req[r].who)
  /\ Leave(req[r].who, req[r].team)
  /\ Done(r)
  /\ UNCHANGED <<contest, failures, deleted, runs, stranded>>

\* Account deletion locks the profile; leaveUpcoming reads whether the
\* contest is still to come, then locks the account's team, then deletes.
DeleteBegin(r, p) ==
  /\ "delete" \in Kinds /\ req[r] = Idle /\ p \in mix.people \ deleted /\ ~ProfileLocked(p)
  /\ req' = [req EXCEPT ![r] = [op |-> "delete", at |-> "begun", who |-> p, team |-> Solo,
                                upcoming |-> team[p] # Out /\ ~Started]]
  /\ UNCHANGED <<contest, tables>>

DeleteLock(r) ==
  LET q == req[r]
      t == IF q.upcoming /\ team[q.who] \in Teams THEN team[q.who] ELSE Solo
  IN /\ r \in Open("delete") /\ q.at = "begun"
     /\ t \in Teams => ~TeamLocked(t)
     /\ req' = [req EXCEPT ![r] = [op |-> "delete", at |-> "locked", who |-> q.who, team |-> t, upcoming |-> q.upcoming]]
     /\ UNCHANGED <<contest, tables>>

DeleteCommit(r) ==
  LET q == req[r] IN
  /\ r \in Open("delete") /\ q.at = "locked"
  /\ IF q.upcoming THEN RowFree(q.who) /\ Leave(q.who, q.team)
                   ELSE UNCHANGED <<team, code, lastCode, onsite>>
  /\ stranded' = stranded \cup {code[t] : t \in {u \in Teams \ {q.team} : q.upcoming /\ team[q.who] = u}}
  /\ deleted' = deleted \cup {q.who}
  /\ failures' = [failures EXCEPT ![q.who] = 0]
  /\ Done(r)
  /\ UNCHANGED <<contest, runs>>

-----------------------------------------------------------------------------
\* CreateRun in a contest: FOR SHARE locks the registration if there is one;
\* whether the account is registered is read by the next statement.
SubmitBegin(r, p) ==
  /\ "submit" \in Kinds /\ req[r] = Idle /\ ~Ended /\ ~RowTaken(p) /\ p \in mix.people \ deleted
  /\ req' = [req EXCEPT ![r] = [op |-> "submit", at |-> "begun", who |-> p, held |-> team[p] # Out]]
  /\ UNCHANGED <<contest, tables>>

SubmitEligible(r) ==
  /\ r \in Open("submit") /\ req[r].at = "begun"
  /\ IF team[req[r].who] = Out
       THEN Refuse(r)
       ELSE /\ req' = [req EXCEPT ![r] = [op |-> "submit", at |-> "eligible", who |-> req[r].who, held |-> req[r].held]]
            /\ UNCHANGED <<contest, tables>>

\* The INSERT finds the problem only after the start; practice does not count.
SubmitCommit(r) ==
  LET q == req[r] IN
  /\ r \in Open("submit") /\ q.at = "eligible"
  /\ runs' = runs \cup (IF phase = "running"
                          THEN {[by |-> q.who, for |-> team[q.who], held |-> q.held]}
                          ELSE {})
  /\ Done(r)
  /\ UNCHANGED <<contest, team, code, lastCode, onsite, failures, deleted, stranded>>

\* A setter makes an entrant onsite: a team, or someone who entered alone.
SetOnsite(e) ==
  /\ "venue" \in Kinds /\ division /\ phase # "final"
  /\ \/ e \in Teams /\ code[e] # 0 /\ ~TeamLocked(e)
     \/ e \in People /\ team[e] = Solo /\ RowFree(e)
  /\ onsite' = onsite \cup {e}
  /\ UNCHANGED <<contest, team, code, lastCode, failures, deleted, runs, stranded, req>>

RotatePassphrase ==
  /\ "venue" \in Kinds /\ ~ContestShared /\ division /\ ~Ended /\ passphrase < MaxPassphrase
  /\ passphrase' = passphrase + 1
  /\ UNCHANGED <<phase, teamMode, maxSize, division, tables, req>>

\* Saving the contest, as far as keepRegistrations goes.
KeepRegistrations(mode, size, div) ==
  /\ mode # teamMode => \A p \in People : team[p] = Out
  /\ \A t \in Teams : Cardinality(Members(t)) <= size
  /\ onsite' = IF div THEN onsite ELSE {}

Save(mode, size, div, word) ==
  /\ "settings" \in Kinds /\ ~ContestShared /\ ~Started
  /\ KeepRegistrations(mode, size, div)
  /\ teamMode' = mode /\ maxSize' = size /\ division' = div
  /\ word # passphrase => div
  /\ passphrase' = word
  /\ UNCHANGED <<phase, team, code, lastCode, failures, deleted, runs, stranded, req>>

-----------------------------------------------------------------------------
\* A request is cancelled, loses its connection or is a deadlock's victim.
Abort(r) == req[r] # Idle /\ Refuse(r)

\* The clock.
Tick ==
  /\ phase # "final"
  /\ phase' = CASE phase = "before" -> "running" [] phase = "running" -> "ended" [] phase = "ended" -> "final"
  /\ UNCHANGED <<teamMode, maxSize, division, passphrase, tables, req>>

WindowPasses_early(p) ==                            \* mutation: drops one too many
  /\ failures' = [failures EXCEPT ![p] = @ - 1]
  /\ UNCHANGED <<contest, team, code, lastCode, onsite, deleted, runs, stranded, req>>
WindowPasses(p) ==
  /\ failures[p] > 0
  /\ failures' = [failures EXCEPT ![p] = @ - 1]
  /\ UNCHANGED <<contest, team, code, lastCode, onsite, deleted, runs, stranded, req>>

JoinRequest ==
  \E r \in Requests :
    \/ \E p \in People, want \in NewJoin, c \in 0..MaxCode, g \in 0..MaxPassphrase : JoinBegin(r, p, want, c, g)
    \/ JoinAlone(r)
    \/ JoinNoTeam(r)
    \/ \E t \in Teams \cup {Solo} : JoinEnter(r, t)
    \/ EnterTeam(r)
    \/ CommitMove(r)

LeaveRequest ==
  \E r \in Requests :
    \/ \E p, q \in People : RemoveBegin(r, p, q)
    \/ RemoveCommit(r)
    \/ \E p \in People : DeleteBegin(r, p)
    \/ DeleteLock(r)
    \/ DeleteCommit(r)

SubmitRequest ==
  \E r \in Requests :
    \/ \E p \in People : SubmitBegin(r, p)
    \/ SubmitEligible(r)
    \/ SubmitCommit(r)

Setter ==
  \/ \E e \in People \cup Teams : SetOnsite(e)
  \/ RotatePassphrase
  \/ \E mode, div \in BOOLEAN, size \in Sizes, word \in {passphrase, passphrase + 1} \cap (1..MaxPassphrase) :
       Save(mode, size, div, word)

Step ==
  \/ JoinRequest \/ LeaveRequest \/ SubmitRequest \/ Setter
  \/ \E r \in Requests : Abort(r)
  \/ \E p \in People : RenewTeamCode(p) \/ WindowPasses(p)
  \/ Tick

\* Members see the code of their team.
Next == Step /\ UNCHANGED mix /\ knew' = knew \cup {<<p, code'[team'[p]]>> : p \in {q \in People : team'[q] \in Teams}}

Spec == Init /\ [][Next]_vars
-----------------------------------------------------------------------------
\* A team never has more members than the contest allows, however many accounts
\* join it at once, only a team contest has teams, and a team is there exactly as
\* long as someone is in it: lockTeam and Join's team lock, keepRegistrations,
\* dropMember and leaveUpcoming.  Except a team that an account enters while its
\* deletion, which has not found it in a team, waits for the registration.
TeamsFit ==
  \A t \in Teams : /\ Cardinality(Members(t)) <= maxSize
                   /\ Members(t) # {} => teamMode /\ code[t] # 0
                   /\ code[t] # 0 => Members(t) # {} \/ code[t] \in stranded

\* A submission that someone registered alone made while the contest ran never
\* counts for a team: CreateRun locks the registration, enterTeam locks it too
\* and reads the clock again.
IndividualsKeepTheirRuns ==
  \A x \in runs : x.for = Solo /\ x.held => team[x.by] \notin Teams

\* Nobody who was registered and onsite turns open again while the contest has
\* the division: Join, enterTeam and SetOnsite only add onsite_at.
OnsiteIsKept ==
  [][\A p \in People : Onsite(p) /\ team'[p] # Out /\ division' => Onsite(p)']_vars

\* Someone who is no longer in a team does not know its code, so neither they
\* nor another account of theirs can come back: every departure renews it, but
\* for the deletion that TeamsFit excepts.
OnlyMembersKnowTheCode ==
  \A p \in People, t \in Teams : <<p, code[t]>> \in knew => team[p] = t \/ code[t] \in stranded

\* Within the window no account gets more wrong guesses than the limit, even by
\* requests sent in parallel (Join's advisory lock), and a request that has passed
\* the passphrase check holds the passphrase that is stored now, because a
\* rotation waits for the contest's share locks.
GuessesBounded == \A p \in People : failures[p] <= AttemptLimit
PassphraseHeld == \A r \in Moving : req[r].guess # 0 => req[r].guess = passphrase
SecretsGuarded == OnlyMembersKnowTheCode /\ GuessesBounded /\ PassphraseHeld

-----------------------------------------------------------------------------
\* What the repository says of this code, and does not hold: a submission read
\* before the registration locks no row.

\* CreateRun: "Holding it here orders the two: ... so an individual's submission
\* never counts for a team".
IndividualsNeverCountForTeams ==
  \A x \in runs : x.for = Solo => team[x.by] \notin Teams
=============================================================================
