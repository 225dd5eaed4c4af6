------------------------- MODULE ContestTeams_proofs -------------------------
(***************************************************************************)
(* The invariants of registrations and teams, for every number of accounts, *)
(* teams and transactions and with every kind of request at once.          *)
(*                                                                         *)
(* What a transaction has read stays true because of the locks it holds:   *)
(* Knows says what that is, Apart which locks two transactions never share. *)
(***************************************************************************)
EXTENDS ContestTeams, FiniteSetTheorems, TLAPS

\* The team whose lock a transaction holds, Solo when it holds none.
TeamHeld(q) == IF q.op = "remove" \/ (q.op = "join" /\ q.at \in {"moving", "moved"}) \/ (q.op = "delete" /\ q.at = "locked")
               THEN q.team ELSE Solo

\* A join: its account is registered as it was read, or was taken out of its team; what it guesses
\* is counted, and the team it moves to has room.
JoinKnows(q) ==
  /\ team[q.who] \in {q.was, Out}
  /\ q.want # "alone" => teamMode
  /\ q.want = "join" => q.code # 0
  /\ (q.want = "join" /\ q.was \notin Teams) \/ q.guess # 0 => failures[q.who] < AttemptLimit
  /\ q.at # "begun" => /\ q.was = Solo /\ q.want # "alone" /\ q.team \in Teams
                       /\ Cardinality(Members(q.team)) < maxSize
                       /\ q.want = "create" <=> code[q.team] = 0
                       /\ q.guess # 0 => q.guess = passphrase
  /\ q.at = "moved" => team[q.who] = Solo
RemoveKnows(q) == q.team \in Teams /\ (team[q.who] = q.team \/ (team[q.who] = Out /\ q.who \in deleted))
DeleteKnows(q) == q.at = "locked" /\ q.team \in Teams => q.upcoming /\ team[q.who] = q.team
Knows(q) == /\ q.op = "join"   => JoinKnows(q)
            /\ q.op = "remove" => RemoveKnows(q)
            /\ q.op = "delete" => DeleteKnows(q)

\* Two open transactions: one holder of a team's lock, one join and one deletion of an account,
\* no submission beside a move of its registration, no removal beside an entry.
Apart(q, s) ==
  /\ TeamHeld(q) \in Teams => TeamHeld(s) # TeamHeld(q)
  /\ q.op = s.op /\ q.op \in {"join", "delete"} => q.who # s.who
  /\ q.op = "join" /\ q.at = "moved" /\ s.op = "submit" /\ s.held => q.who # s.who
  /\ q.op = "join" /\ s.op = "remove" /\ q.who = s.who => q.was \in Teams

RequestsKnow  == \A r \in Requests : req[r] # Idle => Knows(req[r])
RequestsApart == \A r, s \in Requests : r # s /\ req[r] # Idle /\ req[s] # Idle => Apart(req[r], req[s])

\* Join codes are drawn once.
CodesDistinct ==
  /\ \A t \in Teams : code[t] <= lastCode
  /\ \A t, u \in Teams : code[t] # 0 /\ code[t] = code[u] => t = u
  /\ \A x \in knew : x[2] <= lastCode

\* A run made alone: the contest has started, and its account has no way into a team any more.
RunsKept ==
  \A x \in runs : x.for = Solo /\ x.held =>
    /\ Started
    /\ team[x.by] = Solo \/ (team[x.by] = Out /\ x.by \in deleted)
    /\ \A r \in Joining : req[r].who = x.by => req[r].was # Out /\ req[r].at # "moved"

TeamsIInv ==
  /\ TypeOK /\ RequestsKnow /\ RequestsApart /\ CodesDistinct /\ RunsKept
  /\ TeamsFit /\ OnlyMembersKnowTheCode /\ GuessesBounded

-----------------------------------------------------------------------------
Record == Join \cup Remove \cup Submit \cup Delete
Learn == knew' = knew \cup {<<p, code'[team'[p]]>> : p \in {q \in People : team'[q] \in Teams}}

\* Join codes are fresh, and a code that stays is known to those alone who stay.
LEMMA CodesStep ==
  ASSUME TypeOK, CodesDistinct, OnlyMembersKnowTheCode, TeamsFit', Learn,
         team' \in [People -> Teams \cup {Out, Solo}], code' \in [Teams -> 0..MaxCode], lastCode' \in 0..MaxCode,
         lastCode <= lastCode', stranded \subseteq stranded',
         \A t \in Teams : code'[t] \in {0, code[t]} \/ (code'[t] = lastCode + 1 /\ lastCode' = lastCode + 1),
         \A t, u \in Teams : code'[t] = lastCode + 1 /\ code'[u] = lastCode + 1 => t = u,
         \A p \in People, t \in Teams :
           team[p] = t /\ code'[t] = code[t] /\ code[t] # 0 => team'[p] = t \/ code[t] \in stranded'
  PROVE  CodesDistinct' /\ OnlyMembersKnowTheCode' /\ knew' \subseteq People \X (1..MaxCode)
PROOF
  <1>0. MaxCode \in Nat /\ lastCode \in Nat /\ lastCode' \in Nat /\ code \in [Teams -> 0..MaxCode]
        /\ knew \subseteq People \X (1..MaxCode)
    BY SentinelAssumption DEF TypeOK
  <1>1. \A t \in Teams : code'[t] <= lastCode' /\ code[t] <= lastCode
    BY <1>0 DEF CodesDistinct
  <1>2. \A t, u \in Teams : code'[t] # 0 /\ code'[t] = code'[u] => t = u
    BY <1>0, <1>1 DEF CodesDistinct
  <1>3. \A p \in People : team'[p] \in Teams => code'[team'[p]] # 0
    <2> SUFFICES ASSUME NEW p \in People, NEW t \in Teams, team'[p] = t PROVE code'[t] # 0
      OBVIOUS
    <2>1. p \in Members(t)'
      BY DEF Members
    <2> QED BY <2>1 DEF TeamsFit
  <1>4. \A x \in knew' : x \in knew \/ \E p \in People : team'[p] \in Teams /\ x = <<p, code'[team'[p]]>>
    BY DEF Learn
  <1>5. knew' \subseteq People \X (1..MaxCode)
    <2> SUFFICES ASSUME NEW x \in knew' PROVE x \in People \X (1..MaxCode)
      OBVIOUS
    <2>1. CASE x \in knew
      BY <2>1, <1>0
    <2>2. CASE \E p \in People : team'[p] \in Teams /\ x = <<p, code'[team'[p]]>>
      <3> PICK p \in People : team'[p] \in Teams /\ x = <<p, code'[team'[p]]>>
        BY <2>2
      <3> code'[team'[p]] \in 1..MaxCode
        BY <1>0, <1>3
      <3> QED OBVIOUS
    <2> QED BY <1>4, <2>1, <2>2
  <1>6. \A x \in knew' : x[2] <= lastCode'
    <2> SUFFICES ASSUME NEW x \in knew' PROVE x[2] <= lastCode'
      OBVIOUS
    <2>1. CASE x \in knew
      <3> x[2] \in 1..MaxCode /\ x[2] <= lastCode
        BY <2>1, <1>0 DEF CodesDistinct
      <3> QED BY <1>0
    <2>2. CASE \E p \in People : team'[p] \in Teams /\ x = <<p, code'[team'[p]]>>
      BY <2>2, <1>1
    <2> QED BY <1>4, <2>1, <2>2
  <1>7. OnlyMembersKnowTheCode'
    <2> SUFFICES ASSUME NEW p \in People, NEW t \in Teams, <<p, code'[t]>> \in knew'
                 PROVE  team'[p] = t \/ code'[t] \in stranded'
      BY DEF OnlyMembersKnowTheCode
    <2>1. CASE <<p, code'[t]>> \in knew
      <3>1. code'[t] \in 1..MaxCode /\ code'[t] <= lastCode
        <4> <<p, code'[t]>>[2] <= lastCode /\ <<p, code'[t]>> \in People \X (1..MaxCode)
          BY <2>1, <1>0 DEF CodesDistinct
        <4> QED OBVIOUS
      <3>2. code'[t] = code[t] /\ code[t] # 0
        BY <3>1, <1>0
      <3>3. team[p] = t \/ code[t] \in stranded
        BY <2>1, <3>2 DEF OnlyMembersKnowTheCode
      <3> QED BY <3>2, <3>3
    <2>2. CASE \E y \in People : team'[y] \in Teams /\ <<p, code'[t]>> = <<y, code'[team'[y]]>>
      BY <2>2, <1>2, <1>3
    <2> QED BY <1>4, <2>1, <2>2
  <1> QED BY <1>1, <1>2, <1>5, <1>6, <1>7 DEF CodesDistinct

\* Requests that only come to their end stay apart.
LEMMA ApartKept ==
  ASSUME RequestsApart, \A s \in Requests : req'[s] \in {req[s], Idle}
  PROVE  RequestsApart'
  BY DEF RequestsApart, Apart, TeamHeld

\* Fewer members.
LEMMA FewerMembers ==
  ASSUME NEW S, NEW T, S \subseteq T, T \subseteq People
  PROVE  /\ Cardinality(S) \in Nat /\ Cardinality(T) \in Nat
         /\ Cardinality(S) <= Cardinality(T)
  BY FS_Subset, FS_CardinalityType, SentinelAssumption

LEMMA MembersCount ==
  ASSUME NEW t
  PROVE  Cardinality(Members(t)) \in Nat /\ IsFiniteSet(Members(t))
PROOF
  <1> Members(t) \subseteq People
    BY DEF Members
  <1> QED BY FS_Subset, FS_CardinalityType, SentinelAssumption

\* A join still knows what it knew.
LEMMA JoinKept ==
  ASSUME TypeOK, NEW q \in Join, JoinKnows(q),
         team'[q.who] \in {team[q.who], Out}, q.at = "moved" => team'[q.who] = team[q.who],
         teamMode' = teamMode, maxSize' = maxSize, passphrase' = passphrase,
         failures'[q.who] \in Nat, failures'[q.who] <= failures[q.who],
         q.at # "begun" => /\ \A p \in People : team'[p] = q.team => team[p] = q.team
                           /\ code'[q.team] = 0 <=> code[q.team] = 0
  PROVE  JoinKnows(q)'
PROOF
  <1>1. q.who \in People /\ failures[q.who] \in Nat /\ maxSize \in Nat /\ AttemptLimit \in Nat
    BY LimitAssumption, MixesAssumption DEF TypeOK, Join, Sizes
  <1>2. q.at # "begun" => /\ Cardinality(Members(q.team)') \in Nat /\ Cardinality(Members(q.team)) \in Nat
                          /\ Cardinality(Members(q.team)') <= Cardinality(Members(q.team))
    <2> SUFFICES ASSUME q.at # "begun"
                 PROVE  Members(q.team)' \subseteq Members(q.team) /\ Members(q.team) \subseteq People
      BY FewerMembers
    <2> QED BY DEF Members
  <1>3. q.at # "begun" => Cardinality(Members(q.team)') < maxSize'
    BY <1>1, <1>2 DEF JoinKnows
  <1>4. (q.want = "join" /\ q.was \notin Teams) \/ q.guess # 0 => failures'[q.who] < AttemptLimit
    BY <1>1 DEF JoinKnows
  <1> QED BY <1>3, <1>4 DEF JoinKnows

\* A step of one request alone keeps everything, if what the request becomes fits.
LEMMA RequestStep ==
  ASSUME TeamsIInv, NEW r \in Requests, NEW v, req' = [req EXCEPT ![r] = v],
         UNCHANGED <<contest, tables, mix>>, Learn,
         v # Idle => /\ v \in Record /\ Knows(v)
                     /\ \A s \in Requests \ {r} : req[s] # Idle => Apart(v, req[s]) /\ Apart(req[s], v)
                     /\ v.op = "join" => \A x \in runs : x.for = Solo /\ x.held /\ x.by = v.who
                                           => v.was # Out /\ v.at # "moved"
  PROVE  TeamsIInv'
PROOF
  <1> USE DEF TeamsIInv, contest, tables
  <1>1. \A s \in Requests : req'[s] = IF s = r THEN v ELSE req[s]
    BY DEF TypeOK
  <1>2. TeamsFit' /\ GuessesBounded'
    BY DEF TeamsFit, GuessesBounded, Members
  <1>3. CodesDistinct' /\ OnlyMembersKnowTheCode' /\ knew' \subseteq People \X (1..MaxCode)
    <2> TypeOK /\ CodesDistinct /\ OnlyMembersKnowTheCode
      OBVIOUS
    <2> /\ team \in [People -> Teams \cup {Out, Solo}] /\ code \in [Teams -> 0..MaxCode] /\ lastCode \in 0..MaxCode
        /\ lastCode <= lastCode /\ MaxCode \in Nat
      BY SentinelAssumption DEF TypeOK
    <2> HIDE DEF TeamsIInv
    <2>1. \A t, u \in Teams : code'[t] = lastCode + 1 /\ code'[u] = lastCode + 1 => t = u
      BY DEF CodesDistinct
    <2> QED BY <1>2, <2>1, CodesStep
  <1>4. TypeOK'
    <2> req' \in [Requests -> {Idle} \cup Join \cup Remove \cup Submit \cup Delete]
      BY DEF TypeOK, Record
    <2> QED BY <1>3 DEF TypeOK, Sizes
  <1>5. RequestsKnow'
    <2> SUFFICES ASSUME NEW s \in Requests, req'[s] # Idle, NEW q, q = req'[s]
                 PROVE  Knows(q)'
      BY DEF RequestsKnow, Knows, JoinKnows, RemoveKnows, DeleteKnows, Members
    <2>1. Knows(q)
      BY <1>1 DEF RequestsKnow
    <2> QED BY <2>1 DEF Knows, JoinKnows, RemoveKnows, DeleteKnows, Members
  <1>6. RequestsApart'
    BY <1>1 DEF RequestsApart, Apart, TeamHeld
  <1>7. RunsKept'
    <2> SUFFICES ASSUME NEW x \in runs, x.for = Solo, x.held
                 PROVE  /\ Started
                        /\ team[x.by] = Solo \/ (team[x.by] = Out /\ x.by \in deleted)
                        /\ \A s \in Requests : req'[s] # Idle /\ req'[s].op = "join" /\ req'[s].who = x.by
                             => req'[s].was # Out /\ req'[s].at # "moved"
      BY DEF RunsKept, Started, Joining, Open
    <2> QED BY <1>1 DEF RunsKept, Started, Joining, Open
  <1> QED BY <1>2, <1>3, <1>4, <1>5, <1>6, <1>7

\* A transaction ends without a trace.
LEMMA RefuseStep ==
  ASSUME TeamsIInv, UNCHANGED mix, Learn, NEW r \in Requests, Refuse(r)
  PROVE  TeamsIInv'
  BY RequestStep DEF Refuse, Done

LEMMA JoinBeginStep ==
  ASSUME TeamsIInv, UNCHANGED mix, Learn, NEW r \in Requests,
         NEW p \in People, NEW want \in NewJoin, NEW c \in 0..MaxCode, NEW g \in 0..MaxPassphrase,
         JoinBegin(r, p, want, c, g)
  PROVE  TeamsIInv'
PROOF
  <1> DEFINE v == [op |-> "join", at |-> "begun", who |-> p, want |-> want, code |-> c, guess |-> g,
                   was |-> team[p], team |-> Solo]
  <1>0. /\ v.op = "join" /\ v.at = "begun" /\ v.who = p /\ v.want = want /\ v.code = c /\ v.guess = g
        /\ v.was = team[p] /\ v.team = Solo
    OBVIOUS
  <1>1. team[p] \in Teams \cup {Out, Solo} /\ Solo \notin Teams
    BY SentinelAssumption DEF TeamsIInv, TypeOK
  <1>2. v \in Record
    BY <1>1 DEF Record, Join
  <1>3. req' = [req EXCEPT ![r] = v] /\ ~JoinLocked(p) /\ p \notin deleted /\ UNCHANGED <<contest, tables>>
    BY DEF JoinBegin
  <1> HIDE DEF v
  <1>4. Knows(v)
    BY <1>0, <1>1 DEF JoinBegin, JoinAllowed, Knows, JoinKnows
  <1>5. ASSUME NEW s \in Requests \ {r}, req[s] # Idle PROVE Apart(v, req[s]) /\ Apart(req[s], v)
    <2>1. req[s].op = "join" => req[s].who # p
      BY <1>3, <1>5 DEF JoinLocked, Joining, Open
    <2>2. req[s].op = "remove" /\ req[s].who = p => team[p] \in Teams
      BY <1>3, <1>5 DEF TeamsIInv, RequestsKnow, Knows, RemoveKnows
    <2> QED BY <1>0, <1>1, <2>1, <2>2 DEF Apart, TeamHeld
  <1>6. \A x \in runs : x.for = Solo /\ x.held /\ x.by = v.who => v.was # Out /\ v.at # "moved"
    BY <1>0, <1>3, SentinelAssumption DEF TeamsIInv, RunsKept
  <1> QED BY <1>2, <1>3, <1>4, <1>5, <1>6, RequestStep

\* The team locked for a move has room, and its code says whether it is there.
LEMMA JoinMovingStep ==
  ASSUME TeamsIInv, UNCHANGED mix, Learn, NEW r \in Requests, NEW t \in Teams \cup {Solo}, NEW q, q = req[r],
         q # Idle, q.op = "join", q.at = "begun", Entering(q), q.was = Solo, JoinTeam(r, t),
         t \in Teams => ~TeamLocked(t),
         q.guess # 0 => q.guess = passphrase,
         q.want = "join" => ~(Cardinality(Members(t)) >= maxSize),
         req' = [req EXCEPT ![r] = JoinAt(q, "moving", t)], UNCHANGED <<contest, tables>>
  PROVE  TeamsIInv'
PROOF
  <1> DEFINE v == JoinAt(q, "moving", t)
  <1>0. q \in Join /\ JoinKnows(q) /\ team[q.who] \in {Solo, Out} /\ Solo \notin Teams /\ maxSize \in Nat \ {0, 1}
    BY SentinelAssumption, MixesAssumption
       DEF TeamsIInv, TypeOK, RequestsKnow, Knows, JoinKnows, Join, Remove, Submit, Delete, Sizes
  <1>1. /\ v.op = "join" /\ v.at = "moving" /\ v.who = q.who /\ v.want = q.want /\ v.code = q.code /\ v.guess = q.guess
        /\ v.was = Solo /\ v.team = t
    BY DEF JoinAt
  <1>2. /\ t \in Teams /\ ~TeamLocked(t) /\ q.want \in {"create", "join"}
        /\ q.want = "create" => code[t] = 0
        /\ q.want = "join" => code[t] = q.code /\ q.code # 0
    BY <1>0 DEF JoinTeam, Entering, FreeId, Join, NewJoin, JoinKnows
  <1>3. Cardinality(Members(t)) < maxSize
    <2>1. Cardinality(Members(t)) \in Nat
      BY MembersCount
    <2>2. q.want = "create" => Members(t) = {}
      BY <1>2 DEF TeamsIInv, TeamsFit
    <2>3. Cardinality({}) = 0
      BY FS_EmptySet
    <2> QED BY <1>0, <1>2, <2>1, <2>2, <2>3
  <1>4. v \in Record
    BY <1>0, <1>2 DEF Record, Join, JoinAt
  <1> HIDE DEF v
  <1>5. Knows(v)
    BY <1>0, <1>1, <1>2, <1>3 DEF Knows, JoinKnows
  <1>6. ASSUME NEW s \in Requests \ {r}, req[s] # Idle PROVE Apart(v, req[s]) /\ Apart(req[s], v)
    <2>1. Apart(q, req[s]) /\ Apart(req[s], q)
      BY <1>6 DEF TeamsIInv, RequestsApart
    <2>2. TeamHeld(req[s]) # t
      BY <1>2, <1>6, <1>0 DEF TeamLocked, TeamHeld, Moving, Joining, Open
    <2> QED BY <1>1, <1>2, <2>1, <2>2 DEF Apart, TeamHeld
  <1>7. \A x \in runs : x.for = Solo /\ x.held /\ x.by = v.who => v.was # Out /\ v.at # "moved"
    BY <1>1, SentinelAssumption
  <1> QED BY <1>4, <1>5, <1>6, <1>7, RequestStep DEF v

LEMMA EnterTeamStep ==
  ASSUME TeamsIInv, UNCHANGED mix, Learn, NEW r \in Requests, EnterTeam(r)
  PROVE  TeamsIInv'
PROOF
  <1> PICK q : q = req[r]
    OBVIOUS
  <1>1. CASE Refuse(r)
    BY <1>1, RefuseStep
  <1>2. CASE ~Refuse(r)
    <2> DEFINE v == JoinAt(q, "moved", q.team)
    <2>0. /\ q # Idle /\ q.op = "join" /\ q.at = "moving" /\ RowFree(q.who) /\ team[q.who] = Solo /\ ~Started
          /\ req' = [req EXCEPT ![r] = v] /\ UNCHANGED <<contest, tables>>
      BY <1>2 DEF EnterTeam, Moving, Joining, Open
    <2>1. q \in Join /\ JoinKnows(q)
      BY <2>0 DEF TeamsIInv, TypeOK, RequestsKnow, Knows, Join, Remove, Submit, Delete
    <2>2. /\ v.op = "join" /\ v.at = "moved" /\ v.who = q.who /\ v.want = q.want /\ v.code = q.code /\ v.guess = q.guess
          /\ v.was = q.was /\ v.team = q.team
      BY DEF JoinAt
    <2>3. v \in Record
      BY <2>1 DEF Record, Join, JoinAt
    <2> HIDE DEF v
    <2>4. Knows(v)
      BY <2>0, <2>1, <2>2 DEF Knows, JoinKnows
    <2>5. ASSUME NEW s \in Requests \ {r}, req[s] # Idle PROVE Apart(v, req[s]) /\ Apart(req[s], v)
      <3>1. Apart(q, req[s]) /\ Apart(req[s], q)
        BY <2>0, <2>5 DEF TeamsIInv, RequestsApart
      <3>2. req[s].op = "submit" /\ req[s].held => req[s].who # q.who
        BY <2>0, <2>5 DEF RowFree, RowShared, Open
      <3> QED BY <2>0, <2>2, <3>1, <3>2 DEF Apart, TeamHeld
    <2>6. \A x \in runs : ~(x.for = Solo /\ x.held)
      BY <2>0 DEF TeamsIInv, RunsKept
    <2> QED BY <2>0, <2>3, <2>4, <2>5, <2>6, RequestStep
  <1> QED BY <1>1, <1>2

LEMMA RemoveBeginStep ==
  ASSUME TeamsIInv, UNCHANGED mix, Learn, NEW r \in Requests, NEW actor \in People, NEW member \in People,
         RemoveBegin(r, actor, member)
  PROVE  TeamsIInv'
PROOF
  <1> PICK t : t = team[actor]
    OBVIOUS
  <1> DEFINE v == [op |-> "remove", who |-> member, team |-> t]
  <1>1. /\ t \in Teams /\ team[member] = t /\ ~TeamLocked(t) /\ Out \notin Teams
        /\ req' = [req EXCEPT ![r] = v] /\ UNCHANGED <<contest, tables>>
    BY SentinelAssumption DEF RemoveBegin
  <1>2. v \in Record /\ v.op = "remove" /\ v.who = member /\ v.team = t
    BY <1>1 DEF Record, Remove
  <1> HIDE DEF v
  <1>3. Knows(v)
    BY <1>1, <1>2 DEF Knows, RemoveKnows
  <1>4. ASSUME NEW s \in Requests \ {r}, req[s] # Idle PROVE Apart(v, req[s]) /\ Apart(req[s], v)
    <2>1. TeamHeld(req[s]) # t
      BY <1>1, <1>4, SentinelAssumption DEF TeamLocked, TeamHeld, Moving, Joining, Open
    <2>2. req[s].op = "join" /\ req[s].who = member => req[s].was \in Teams
      BY <1>1, <1>4 DEF TeamsIInv, RequestsKnow, Knows, JoinKnows
    <2> QED BY <1>1, <1>2, <2>1, <2>2 DEF Apart, TeamHeld
  <1> QED BY <1>1, <1>2, <1>3, <1>4, RequestStep

LEMMA DeleteBeginStep ==
  ASSUME TeamsIInv, UNCHANGED mix, Learn, NEW r \in Requests, NEW p \in People, DeleteBegin(r, p)
  PROVE  TeamsIInv'
PROOF
  <1> DEFINE v == [op |-> "delete", at |-> "begun", who |-> p, team |-> Solo, upcoming |-> team[p] # Out /\ ~Started]
  <1>1. ~ProfileLocked(p) /\ req' = [req EXCEPT ![r] = v] /\ UNCHANGED <<contest, tables>> /\ Solo \notin Teams
    BY SentinelAssumption DEF DeleteBegin
  <1>2. v \in Record /\ v.op = "delete" /\ v.at = "begun" /\ v.who = p /\ v.team = Solo
    BY DEF Record, Delete
  <1> HIDE DEF v
  <1>3. Knows(v)
    BY <1>2 DEF Knows, DeleteKnows
  <1>4. ASSUME NEW s \in Requests \ {r}, req[s] # Idle PROVE Apart(v, req[s]) /\ Apart(req[s], v)
    BY <1>1, <1>2, <1>4 DEF Apart, TeamHeld, ProfileLocked, Open
  <1> QED BY <1>1, <1>2, <1>3, <1>4, RequestStep

LEMMA DeleteLockStep ==
  ASSUME TeamsIInv, UNCHANGED mix, Learn, NEW r \in Requests, DeleteLock(r)
  PROVE  TeamsIInv'
PROOF
  <1> PICK q : q = req[r]
    OBVIOUS
  <1> PICK t : t = IF q.upcoming /\ team[q.who] \in Teams THEN team[q.who] ELSE Solo
    OBVIOUS
  <1> DEFINE v == [op |-> "delete", at |-> "locked", who |-> q.who, team |-> t, upcoming |-> q.upcoming]
  <1>1. /\ q # Idle /\ q.op = "delete" /\ q.at = "begun" /\ (t \in Teams => ~TeamLocked(t)) /\ Solo \notin Teams
        /\ req' = [req EXCEPT ![r] = v] /\ UNCHANGED <<contest, tables>>
    BY SentinelAssumption DEF DeleteLock, Open
  <1>2. q \in Delete
    BY <1>1 DEF TeamsIInv, TypeOK, Join, Remove, Submit, Delete
  <1>3. v \in Record /\ v.op = "delete" /\ v.at = "locked" /\ v.who = q.who /\ v.team = t /\ v.upcoming = q.upcoming
    BY <1>2 DEF Record, Delete
  <1> HIDE DEF v
  <1>4. Knows(v)
    BY <1>1, <1>3 DEF Knows, DeleteKnows
  <1>5. ASSUME NEW s \in Requests \ {r}, req[s] # Idle PROVE Apart(v, req[s]) /\ Apart(req[s], v)
    <2>1. Apart(q, req[s]) /\ Apart(req[s], q)
      BY <1>1, <1>5 DEF TeamsIInv, RequestsApart
    <2>2. t \in Teams => TeamHeld(req[s]) # t
      BY <1>1, <1>5 DEF TeamLocked, TeamHeld, Moving, Joining, Open
    <2> QED BY <1>1, <1>3, <2>1, <2>2 DEF Apart, TeamHeld
  <1> QED BY <1>1, <1>3, <1>4, <1>5, RequestStep

LEMMA SubmitBeginStep ==
  ASSUME TeamsIInv, UNCHANGED mix, Learn, NEW r \in Requests, NEW p \in People, SubmitBegin(r, p)
  PROVE  TeamsIInv'
PROOF
  <1> DEFINE v == [op |-> "submit", at |-> "begun", who |-> p, held |-> team[p] # Out]
  <1>1. ~RowTaken(p) /\ req' = [req EXCEPT ![r] = v] /\ UNCHANGED <<contest, tables>> /\ Solo \notin Teams
    BY SentinelAssumption DEF SubmitBegin
  <1>2. v \in Record /\ v.op = "submit" /\ v.who = p
    BY DEF Record, Submit
  <1> HIDE DEF v
  <1>3. Knows(v)
    BY <1>2 DEF Knows
  <1>4. ASSUME NEW s \in Requests \ {r}, req[s] # Idle PROVE Apart(v, req[s]) /\ Apart(req[s], v)
    BY <1>1, <1>2, <1>4 DEF Apart, TeamHeld, RowTaken, Moving, Joining, Open
  <1> QED BY <1>1, <1>2, <1>3, <1>4, RequestStep

LEMMA SubmitEligibleStep ==
  ASSUME TeamsIInv, UNCHANGED mix, Learn, NEW r \in Requests, SubmitEligible(r)
  PROVE  TeamsIInv'
PROOF
  <1> PICK q : q = req[r]
    OBVIOUS
  <1>1. CASE Refuse(r)
    BY <1>1, RefuseStep
  <1>2. CASE ~Refuse(r)
    <2> DEFINE v == [op |-> "submit", at |-> "eligible", who |-> q.who, held |-> q.held]
    <2>0. q # Idle /\ q.op = "submit" /\ req' = [req EXCEPT ![r] = v] /\ UNCHANGED <<contest, tables>> /\ Solo \notin Teams
      BY <1>2, SentinelAssumption DEF SubmitEligible, Open
    <2>1. q \in Submit
      BY <2>0 DEF TeamsIInv, TypeOK, Join, Remove, Submit, Delete
    <2>2. v \in Record /\ v.op = "submit" /\ v.who = q.who /\ v.held = q.held
      BY <2>1 DEF Record, Submit
    <2> HIDE DEF v
    <2>3. Knows(v)
      BY <2>2 DEF Knows
    <2>4. ASSUME NEW s \in Requests \ {r}, req[s] # Idle PROVE Apart(v, req[s]) /\ Apart(req[s], v)
      <3>1. Apart(q, req[s]) /\ Apart(req[s], q)
        BY <2>0, <2>4 DEF TeamsIInv, RequestsApart
      <3> QED BY <2>0, <2>2, <3>1 DEF Apart, TeamHeld
    <2> QED BY <2>0, <2>2, <2>3, <2>4, RequestStep
  <1> QED BY <1>1, <1>2

\* TypeOK without the requests and the history of codes.
TablesOK ==
  /\ mix \in Mixes /\ phase \in {"before", "running", "ended", "final"}
  /\ teamMode \in BOOLEAN /\ division \in BOOLEAN /\ maxSize \in Sizes /\ passphrase \in 1..MaxPassphrase
  /\ team \in [People -> Teams \cup {Out, Solo}]
  /\ code \in [Teams -> 0..MaxCode] /\ lastCode \in 0..MaxCode
  /\ onsite \subseteq People \cup Teams
  /\ failures \in [People -> Nat]
  /\ deleted \subseteq People
  /\ runs \subseteq [by : People, for : Teams \cup {Out, Solo}, held : BOOLEAN]
  /\ stranded \subseteq 0..MaxCode

\* A step on the tables, of a request that ends with it or of none.
LEMMA TableStep ==
  ASSUME TeamsIInv, Learn, req' \in [Requests -> {Idle} \cup Record], \A s \in Requests : req'[s] \in {req[s], Idle},
         TablesOK', TeamsFit', RequestsKnow', RunsKept', GuessesBounded',
         lastCode <= lastCode', stranded \subseteq stranded',
         \A t \in Teams : code'[t] \in {0, code[t]} \/ (code'[t] = lastCode + 1 /\ lastCode' = lastCode + 1),
         \A t, u \in Teams : code'[t] = lastCode + 1 /\ code'[u] = lastCode + 1 => t = u,
         \A p \in People, t \in Teams :
           team[p] = t /\ code'[t] = code[t] /\ code[t] # 0 => team'[p] = t \/ code[t] \in stranded'
  PROVE  TeamsIInv'
PROOF
  <1>1. CodesDistinct' /\ OnlyMembersKnowTheCode' /\ knew' \subseteq People \X (1..MaxCode)
    BY CodesStep DEF TeamsIInv, TablesOK
  <1>2. RequestsApart'
    BY ApartKept DEF TeamsIInv
  <1>3. TypeOK'
    BY <1>1 DEF TypeOK, TablesOK, Record
  <1> QED BY <1>1, <1>2, <1>3 DEF TeamsIInv

\* The tables have their types, and a request that ends leaves the others as they are.
LEMMA TablesTyped ==
  ASSUME TeamsIInv
  PROVE  TablesOK /\ req \in [Requests -> {Idle} \cup Record] /\ MaxCode \in Nat
  BY SentinelAssumption DEF TeamsIInv, TypeOK, TablesOK, Record
LEMMA DoneStep ==
  ASSUME TeamsIInv, NEW r \in Requests, Done(r)
  PROVE  /\ req' \in [Requests -> {Idle} \cup Record]
         /\ \A s \in Requests : req'[s] = IF s = r THEN Idle ELSE req[s]
  BY TablesTyped DEF Done

\* A step that leaves teams and codes alone.
LEMMA SameTeamsStep ==
  ASSUME TeamsIInv, Learn, req' \in [Requests -> {Idle} \cup Record], \A s \in Requests : req'[s] \in {req[s], Idle},
         UNCHANGED <<team, code, lastCode, stranded>>,
         TablesOK', TeamsFit', RequestsKnow', RunsKept', GuessesBounded'
  PROVE  TeamsIInv'
PROOF
  <1>1. lastCode \in Nat /\ \A t \in Teams : code[t] \in Nat /\ code[t] <= lastCode
    BY TablesTyped DEF TablesOK, TeamsIInv, CodesDistinct
  <1>2. \A t, u \in Teams : code'[t] = lastCode + 1 /\ code'[u] = lastCode + 1 => t = u
    BY <1>1
  <1>3. lastCode <= lastCode'
    BY <1>1
  <1> QED BY <1>2, <1>3, TableStep

\* The requests that go on still know what they knew while teams, codes and settings stay.
LEMMA SameTeamsKnow ==
  ASSUME TeamsIInv, \A s \in Requests : req'[s] \in {req[s], Idle},
         UNCHANGED <<team, code, teamMode, maxSize>>,
         deleted \subseteq deleted',
         \A s \in Joining : req'[s] = req[s] => /\ failures'[req[s].who] \in Nat
                                                /\ failures'[req[s].who] <= failures[req[s].who]
                                                /\ passphrase' = passphrase
  PROVE  RequestsKnow'
PROOF
  <1> SUFFICES ASSUME NEW s \in Requests, req[s] # Idle, req'[s] = req[s], NEW q, q = req[s]
               PROVE  Knows(q)'
    BY DEF RequestsKnow, Knows, JoinKnows, RemoveKnows, DeleteKnows, Members
  <1>1. Knows(q) /\ q \in Record
    BY TablesTyped DEF TeamsIInv, RequestsKnow
  <1>2. CASE q.op = "join"
    <2>1. q \in Join /\ s \in Joining /\ JoinKnows(q)
      BY <1>1, <1>2 DEF Record, Join, Remove, Submit, Delete, Joining, Open, Knows
    <2>2. JoinKnows(q)'
      BY <2>1, JoinKept DEF TeamsIInv
    <2> QED BY <1>2, <2>2 DEF Knows
  <1>3. CASE q.op # "join"
    BY <1>1, <1>3 DEF Knows, RemoveKnows, DeleteKnows
  <1> QED BY <1>2, <1>3

\* The runs that stay, while everyone stays where they are.
LEMMA SameTeamsRuns ==
  ASSUME TeamsIInv, \A s \in Requests : req'[s] \in {req[s], Idle}, UNCHANGED <<team, runs>>,
         Started => Started', deleted \subseteq deleted'
  PROVE  RunsKept'
  BY DEF TeamsIInv, RunsKept, Joining, Open

LEMMA FailAttemptStep ==
  ASSUME TeamsIInv, UNCHANGED mix, Learn, NEW r \in Requests, NEW q, q = req[r], q # Idle, q.op = "join",
         (q.want = "join" /\ q.was \notin Teams) \/ q.guess # 0, FailAttempt(r)
  PROVE  TeamsIInv'
PROOF
  <1>0. q \in Join /\ JoinKnows(q) /\ AttemptLimit \in Nat
    BY LimitAssumption DEF TeamsIInv, TypeOK, RequestsKnow, Knows, Join, Remove, Submit, Delete
  <1>1. failures \in [People -> Nat] /\ q.who \in People /\ failures[q.who] < AttemptLimit
        /\ failures' = [failures EXCEPT ![q.who] = @ + 1]
    BY <1>0, TablesTyped DEF TablesOK, Join, JoinKnows, FailAttempt
  <1>2. \A s \in Requests : req'[s] = IF s = r THEN Idle ELSE req[s]
    BY DoneStep DEF FailAttempt
  <1>3. TablesOK' /\ GuessesBounded'
    BY <1>0, <1>1, TablesTyped DEF TablesOK, FailAttempt, contest, Sizes, TeamsIInv, GuessesBounded
  <1>4. RequestsKnow'
    <2>1. ASSUME NEW s \in Joining, req'[s] = req[s]
          PROVE  failures'[req[s].who] \in Nat /\ failures'[req[s].who] <= failures[req[s].who]
      <3>1. s \in Requests /\ s # r /\ req[s] # Idle /\ req[s].op = "join" /\ req[s] \in Join
        BY <2>1, <1>2, TablesTyped DEF Joining, Open, Record, Join, Remove, Submit, Delete
      <3>2. req[s].who # q.who /\ req[s].who \in People
        BY <3>1 DEF TeamsIInv, RequestsApart, Apart, Join
      <3> QED BY <3>2, <1>1
    <2> QED BY <2>1, <1>2, SameTeamsKnow DEF FailAttempt, contest
  <1>5. RunsKept'
    BY <1>2, SameTeamsRuns DEF FailAttempt, contest, Started
  <1>6. TeamsFit'
    BY DEF TeamsIInv, TeamsFit, Members, FailAttempt, contest
  <1> QED BY <1>2, <1>3, <1>4, <1>5, <1>6, DoneStep, SameTeamsStep DEF FailAttempt

LEMMA WindowPassesStep ==
  ASSUME TeamsIInv, UNCHANGED mix, Learn, NEW p \in People, WindowPasses(p)
  PROVE  TeamsIInv'
PROOF
  <1> USE DEF WindowPasses, contest
  <1>1. failures \in [People -> Nat] /\ AttemptLimit \in Nat
    BY TablesTyped, LimitAssumption DEF TablesOK
  <1>2. \A y \in People : failures'[y] \in Nat /\ failures'[y] <= failures[y]
    BY <1>1
  <1>3. TablesOK' /\ GuessesBounded'
    BY <1>1, <1>2, TablesTyped DEF TablesOK, Sizes, TeamsIInv, GuessesBounded
  <1>4. \A s \in Joining : req[s].who \in People
    BY TablesTyped DEF Joining, Open, Record, Join, Remove, Submit, Delete
  <1>5. RequestsKnow'
    BY <1>2, <1>4, SameTeamsKnow
  <1>6. RunsKept'
    BY SameTeamsRuns DEF Started
  <1>7. TeamsFit'
    BY DEF TeamsIInv, TeamsFit, Members
  <1> QED BY <1>3, <1>5, <1>6, <1>7, TablesTyped, SameTeamsStep

LEMMA SetOnsiteStep ==
  ASSUME TeamsIInv, UNCHANGED mix, Learn, NEW e \in People \cup Teams, SetOnsite(e)
  PROVE  TeamsIInv'
PROOF
  <1> USE DEF SetOnsite, contest
  <1>1. TablesOK' /\ GuessesBounded'
    BY TablesTyped DEF TablesOK, Sizes, TeamsIInv, GuessesBounded
  <1>2. \A s \in Joining : failures[req[s].who] \in Nat
    BY TablesTyped DEF Joining, Open, Record, Join, Remove, Submit, Delete, TablesOK
  <1>3. RequestsKnow'
    BY <1>2, SameTeamsKnow
  <1>4. RunsKept'
    BY SameTeamsRuns DEF Started
  <1>5. TeamsFit'
    BY DEF TeamsIInv, TeamsFit, Members
  <1> QED BY <1>1, <1>3, <1>4, <1>5, TablesTyped, SameTeamsStep

\* Nobody joins while the passphrase changes.
LEMMA RotatePassphraseStep ==
  ASSUME TeamsIInv, UNCHANGED mix, Learn, RotatePassphrase
  PROVE  TeamsIInv'
PROOF
  <1> USE DEF RotatePassphrase, tables
  <1>1. TablesOK' /\ GuessesBounded'
    BY TablesTyped, SentinelAssumption DEF TablesOK, Sizes, TeamsIInv, GuessesBounded
  <1>2. Joining = {}
    BY DEF ContestShared, Joining, Open
  <1>3. RequestsKnow'
    BY <1>2, SameTeamsKnow
  <1>4. RunsKept'
    BY SameTeamsRuns DEF Started
  <1>5. TeamsFit'
    BY DEF TeamsIInv, TeamsFit, Members
  <1> QED BY <1>1, <1>3, <1>4, <1>5, TablesTyped, SameTeamsStep

LEMMA TickStep ==
  ASSUME TeamsIInv, UNCHANGED mix, Learn, Tick
  PROVE  TeamsIInv'
PROOF
  <1> USE DEF Tick, tables
  <1>0. phase \in {"before", "running", "ended", "final"}
    BY TablesTyped DEF TablesOK
  <1>1. phase' \in {"running", "ended", "final"}
    BY <1>0
  <1>2. TablesOK' /\ GuessesBounded'
    BY <1>1, TablesTyped DEF TablesOK, Sizes, TeamsIInv, GuessesBounded
  <1>3. \A s \in Joining : failures[req[s].who] \in Nat
    BY TablesTyped DEF Joining, Open, Record, Join, Remove, Submit, Delete, TablesOK
  <1>4. RequestsKnow'
    BY <1>3, SameTeamsKnow
  <1>5. RunsKept'
    BY <1>1, SameTeamsRuns DEF Started
  <1>6. TeamsFit'
    BY DEF TeamsIInv, TeamsFit, Members
  <1> QED BY <1>2, <1>4, <1>5, <1>6, TablesTyped, SameTeamsStep

\* A save waits for every request but the deletions that hold no team.
LEMMA SaveStep ==
  ASSUME TeamsIInv, UNCHANGED mix, Learn, NEW mode \in BOOLEAN, NEW div \in BOOLEAN, NEW size \in Sizes,
         NEW word \in {passphrase, passphrase + 1} \cap (1..MaxPassphrase), Save(mode, size, div, word)
  PROVE  TeamsIInv'
PROOF
  <1> USE DEF Save, KeepRegistrations
  <1>1. TablesOK' /\ GuessesBounded'
    BY TablesTyped DEF TablesOK, Sizes, TeamsIInv, GuessesBounded
  <1>2. \A s \in Requests : req[s] # Idle => req[s].op = "delete" /\ ~req[s].upcoming
    BY DEF ContestShared
  <1>3. RequestsKnow'
    <2> SUFFICES ASSUME NEW s \in Requests, req[s] # Idle, NEW q, q = req[s] PROVE Knows(q)'
      BY DEF RequestsKnow, Knows, JoinKnows, RemoveKnows, DeleteKnows, Members
    <2>1. Knows(q) /\ q.op = "delete"
      BY <1>2 DEF TeamsIInv, RequestsKnow
    <2> QED BY <2>1 DEF Knows, DeleteKnows
  <1>4. RunsKept'
    BY SameTeamsRuns DEF Started
  <1>5. TeamsFit'
    <2> SUFFICES ASSUME NEW t \in Teams
                 PROVE  /\ Cardinality(Members(t)) <= size
                        /\ Members(t) # {} => mode /\ code[t] # 0
                        /\ code[t] # 0 => Members(t) # {} \/ code[t] \in stranded
      BY DEF TeamsFit, Members
    <2>1. Members(t) # {} => mode = teamMode
      BY SentinelAssumption DEF Members
    <2> QED BY <2>1 DEF TeamsIInv, TeamsFit
  <1> QED BY <1>1, <1>3, <1>4, <1>5, TablesTyped, SameTeamsStep

\* A submission is made alone by someone who is, and who can no longer go anywhere.
LEMMA SubmitCommitStep ==
  ASSUME TeamsIInv, UNCHANGED mix, Learn, NEW r \in Requests, SubmitCommit(r)
  PROVE  TeamsIInv'
PROOF
  <1> PICK q : q = req[r]
    OBVIOUS
  <1> PICK x : x = [by |-> q.who, for |-> team[q.who], held |-> q.held]
    OBVIOUS
  <1> USE DEF contest
  <1>0. /\ q # Idle /\ q.op = "submit" /\ q \in Submit
        /\ runs' = runs \cup (IF phase = "running" THEN {x} ELSE {})
        /\ x.by = q.who /\ x.for = team[q.who] /\ x.held = q.held
    BY TablesTyped DEF SubmitCommit, Open, Record, Join, Remove, Submit, Delete
  <1>1. \A s \in Requests : req'[s] = IF s = r THEN Idle ELSE req[s]
    BY DoneStep DEF SubmitCommit
  <1>2. TablesOK' /\ GuessesBounded'
    <2> x \in [by : People, for : Teams \cup {Out, Solo}, held : BOOLEAN]
      BY <1>0, TablesTyped DEF TablesOK, Submit
    <2> QED BY <1>0, TablesTyped DEF TablesOK, Sizes, TeamsIInv, GuessesBounded, SubmitCommit
  <1>3. \A s \in Joining : failures[req[s].who] \in Nat
    BY TablesTyped DEF Joining, Open, Record, Join, Remove, Submit, Delete, TablesOK
  <1>4. RequestsKnow'
    BY <1>1, <1>3, SameTeamsKnow DEF SubmitCommit
  <1>5. RunsKept'
    <2> SUFFICES ASSUME NEW y \in runs', y.for = Solo, y.held
                 PROVE  /\ Started
                        /\ team[y.by] = Solo \/ (team[y.by] = Out /\ y.by \in deleted)
                        /\ \A s \in Joining : req[s].who = y.by => req[s].was # Out /\ req[s].at # "moved"
      BY <1>1 DEF RunsKept, Started, Joining, Open, SubmitCommit
    <2>1. CASE y \in runs
      BY <2>1 DEF TeamsIInv, RunsKept
    <2>2. CASE y = x /\ phase = "running"
      <3>1. ASSUME NEW s \in Joining, req[s].who = q.who
            PROVE  req[s].was # Out /\ req[s].at # "moved"
        <4>1. s \in Requests /\ s # r /\ req[s] # Idle /\ req[s].op = "join"
          BY <3>1, <1>0 DEF Joining, Open
        <4>2. req[s].at # "moved"
          BY <4>1, <3>1, <2>2, <1>0 DEF TeamsIInv, RequestsApart, Apart
        <4>3. team[q.who] \in {req[s].was, Out}
          BY <4>1, <3>1 DEF TeamsIInv, RequestsKnow, Knows, JoinKnows
        <4> QED BY <4>2, <4>3, <2>2, <1>0, SentinelAssumption
      <3> QED BY <3>1, <2>2, <1>0 DEF Started
    <2> QED BY <2>1, <2>2, <1>0
  <1>6. TeamsFit'
    BY DEF TeamsIInv, TeamsFit, Members, SubmitCommit
  <1> QED BY <1>1, <1>2, <1>4, <1>5, <1>6, DoneStep, SameTeamsStep DEF SubmitCommit

\* An account registers alone.
LEMMA RegisterStep ==
  ASSUME TeamsIInv, UNCHANGED mix, Learn, NEW r \in Requests, NEW q, q = req[r], q # Idle, q.op = "join", q.at = "begun",
         q.was = Out, ~ProfileLocked(q.who), team' = [team EXCEPT ![q.who] = Solo], onsite' \subseteq People \cup Teams,
         Done(r), UNCHANGED <<contest, code, lastCode, failures, deleted, runs, stranded>>
  PROVE  TeamsIInv'
PROOF
  <1> USE DEF contest
  <1>0. q \in Join /\ q.who \in People /\ JoinKnows(q) /\ Out \notin Teams /\ Solo \notin Teams /\ Out # Solo
    BY SentinelAssumption DEF TeamsIInv, TypeOK, RequestsKnow, Knows, Join, Remove, Submit, Delete
  <1>1. \A s \in Requests : req'[s] = IF s = r THEN Idle ELSE req[s]
    BY DoneStep
  <1>2. team \in [People -> Teams \cup {Out, Solo}] /\ team[q.who] = Out
        /\ \A p \in People : team'[p] = IF p = q.who THEN Solo ELSE team[p]
    BY <1>0, TablesTyped DEF TablesOK, JoinKnows
  <1>3. \A t \in Teams : Members(t)' = Members(t)
    BY <1>0, <1>2 DEF Members
  <1>4. TablesOK' /\ GuessesBounded'
    BY <1>0, <1>2, TablesTyped DEF TablesOK, Sizes, TeamsIInv, GuessesBounded
  <1>5. TeamsFit'
    BY <1>3 DEF TeamsIInv, TeamsFit
  <1>6. RequestsKnow'
    <2> SUFFICES ASSUME NEW s \in Requests \ {r}, req[s] # Idle, NEW y, y = req[s]
                 PROVE  Knows(y)'
      BY <1>1 DEF RequestsKnow, Knows, JoinKnows, RemoveKnows, DeleteKnows, Members
    <2>1. Knows(y) /\ y \in Record /\ Apart(q, y)
      BY TablesTyped DEF TeamsIInv, RequestsKnow, RequestsApart
    <2>2. CASE y.op = "join"
      <3>1. y \in Join /\ JoinKnows(y) /\ y.who # q.who /\ y.who \in People /\ failures[y.who] \in Nat
        BY <2>1, <2>2, TablesTyped DEF Record, Join, Remove, Submit, Delete, Knows, Apart, TablesOK
      <3>2. y.at # "begun" => y.team \in Teams
        BY <3>1 DEF JoinKnows
      <3>3. JoinKnows(y)'
        BY <3>1, <3>2, <1>0, <1>2, JoinKept DEF TeamsIInv
      <3> QED BY <2>2, <3>3 DEF Knows
    <2>3. CASE y.op = "remove"
      <3> y.who # q.who /\ y.who \in People
        BY <1>0, <2>1, <2>3 DEF Apart, Record, Join, Remove, Submit, Delete
      <3> QED BY <1>2, <2>1, <2>3 DEF Knows, RemoveKnows
    <2>4. CASE y.op = "delete"
      <3> y.who # q.who /\ y.who \in People
        BY <2>1, <2>4 DEF ProfileLocked, Open, Record, Join, Remove, Submit, Delete
      <3> QED BY <1>2, <2>1, <2>4 DEF Knows, DeleteKnows
    <2> QED BY <2>1, <2>2, <2>3, <2>4 DEF Knows
  <1>7. RunsKept'
    <2> SUFFICES ASSUME NEW x \in runs, x.for = Solo, x.held
                 PROVE  /\ Started
                        /\ team'[x.by] = Solo \/ (team'[x.by] = Out /\ x.by \in deleted)
                        /\ \A s \in Joining : req[s].who = x.by => req[s].was # Out /\ req[s].at # "moved"
      BY <1>1 DEF RunsKept, Started, Joining, Open
    <2>1. x.by \in People
      BY TablesTyped DEF TablesOK
    <2> QED BY <1>2, <2>1 DEF TeamsIInv, RunsKept
  <1>8. /\ lastCode \in Nat
        /\ \A t, u \in Teams : code'[t] = lastCode + 1 /\ code'[u] = lastCode + 1 => t = u
    BY TablesTyped DEF TeamsIInv, CodesDistinct, TablesOK
  <1>9. \A p \in People, t \in Teams : team[p] = t => team'[p] = t
    BY <1>0, <1>2
  <1> QED BY <1>1, <1>4, <1>5, <1>6, <1>7, <1>8, <1>9, DoneStep, TableStep

\* A request that finds its account where it was changes nothing but a division.
LEMMA StayStep ==
  ASSUME TeamsIInv, UNCHANGED mix, Learn, NEW r \in Requests, Done(r), onsite' \subseteq People \cup Teams,
         UNCHANGED <<contest, team, code, lastCode, failures, deleted, runs, stranded>>
  PROVE  TeamsIInv'
PROOF
  <1> USE DEF contest
  <1>0. \A s \in Requests : req'[s] = IF s = r THEN Idle ELSE req[s]
    BY DoneStep
  <1>1. TablesOK' /\ GuessesBounded'
    BY TablesTyped DEF TablesOK, Sizes, TeamsIInv, GuessesBounded
  <1>2. \A s \in Joining : failures[req[s].who] \in Nat
    BY TablesTyped DEF Joining, Open, Record, Join, Remove, Submit, Delete, TablesOK
  <1>3. RequestsKnow'
    BY <1>0, <1>2, SameTeamsKnow
  <1>4. RunsKept'
    BY <1>0, SameTeamsRuns DEF Started
  <1>5. TeamsFit'
    BY DEF TeamsIInv, TeamsFit, Members
  <1> QED BY <1>0, <1>1, <1>3, <1>4, <1>5, DoneStep, SameTeamsStep

LEMMA OnsiteTyped ==
  ASSUME TeamsIInv, NEW q \in Join, NEW t \in Teams \cup {Solo}
  PROVE  OnsiteAfter(q, t) \subseteq People \cup Teams
  BY TablesTyped DEF TablesOK, OnsiteAfter, Join

LEMMA JoinAloneStep ==
  ASSUME TeamsIInv, UNCHANGED mix, Learn, NEW r \in Requests, JoinAlone(r)
  PROVE  TeamsIInv'
PROOF
  <1> onsite' = onsite /\ onsite \subseteq People \cup Teams
    BY TablesTyped DEF JoinAlone, TablesOK
  <1> PICK q : q = req[r]
    OBVIOUS
  <1>1. CASE q.was = Out
    BY <1>1, RegisterStep DEF JoinAlone
  <1>2. CASE q.was # Out
    BY <1>2, StayStep DEF JoinAlone
  <1> QED BY <1>1, <1>2

\* One more member.
LEMMA OneMore ==
  ASSUME NEW t \in Teams, NEW p \in People, team \in [People -> Teams \cup {Out, Solo}], team[p] # t,
         team' = [team EXCEPT ![p] = t]
  PROVE  /\ Cardinality(Members(t)') = Cardinality(Members(t)) + 1
         /\ Members(t)' # {}
         /\ \A u \in Teams : u # t /\ team[p] # u => Members(u)' = Members(u)
PROOF
  <1>1. Members(t)' = Members(t) \cup {p} /\ p \notin Members(t)
    BY DEF Members
  <1>2. Cardinality(Members(t) \cup {p}) = Cardinality(Members(t)) + 1
    BY <1>1, MembersCount, FS_AddElement
  <1>3. \A u \in Teams : u # t /\ team[p] # u => Members(u)' = Members(u)
    BY DEF Members
  <1> QED BY <1>1, <1>2, <1>3

\* An account enters a team that its transaction has locked.
LEMMA EnterStep ==
  ASSUME TeamsIInv, UNCHANGED mix, Learn, NEW r \in Requests, NEW q, q = req[r], q # Idle, q.op = "join",
         NEW t \in Teams, Entering(q), Cardinality(Members(t)) < maxSize, q.want = "create" <=> code[t] = 0,
         \A s \in Requests \ {r} : req[s] # Idle => TeamHeld(req[s]) # t,
         (q.was = Out /\ ~ProfileLocked(q.who)) \/ (q.was = Solo /\ q.at = "moved"),
         EnterCommit(r, t)
  PROVE  TeamsIInv'
PROOF
  <1> USE DEF contest
  <1>0. /\ q \in Join /\ q.who \in People /\ JoinKnows(q) /\ Out \notin Teams /\ Solo \notin Teams /\ Out # Solo
        /\ maxSize \in Nat /\ MaxCode \in Nat
    BY SentinelAssumption, MixesAssumption
       DEF TeamsIInv, TypeOK, RequestsKnow, Knows, Join, Remove, Submit, Delete, Sizes
  <1>1. \A s \in Requests : req'[s] = IF s = r THEN Idle ELSE req[s]
    BY DoneStep DEF EnterCommit
  <1>2. /\ team \in [People -> Teams \cup {Out, Solo}] /\ team[q.who] \in {Out, Solo}
        /\ team' = [team EXCEPT ![q.who] = t]
        /\ q.was = Out => team[q.who] = Out
        /\ q.at = "moved" => team[q.who] = Solo
    BY <1>0, TablesTyped DEF TablesOK, JoinKnows, EnterCommit, Entering
  <1>3. /\ Cardinality(Members(t)') <= maxSize /\ Members(t)' # {}
        /\ \A u \in Teams \ {t} : Members(u)' = Members(u)
    <2>1. /\ Cardinality(Members(t)') = Cardinality(Members(t)) + 1 /\ Members(t)' # {}
          /\ \A u \in Teams : u # t /\ team[q.who] # u => Members(u)' = Members(u)
      <3> team[q.who] # t
        BY <1>0, <1>2
      <3> QED BY <1>0, <1>2, OneMore
    <2>2. Cardinality(Members(t)) \in Nat
      BY MembersCount
    <2> QED BY <2>1, <2>2, <1>0, <1>2
  <1>4. /\ lastCode \in Nat /\ lastCode' \in 0..MaxCode /\ lastCode <= lastCode' /\ code' \in [Teams -> 0..MaxCode]
        /\ \A u \in Teams \ {t} : code'[u] = code[u]
        /\ code'[t] # 0
        /\ code'[t] = code[t] \/ (code'[t] = lastCode + 1 /\ lastCode' = lastCode + 1)
        /\ \A u \in Teams : code[u] <= lastCode
    <2>1. code \in [Teams -> 0..MaxCode] /\ lastCode \in 0..MaxCode /\ \A u \in Teams : code[u] <= lastCode
      BY TablesTyped DEF TablesOK, TeamsIInv, CodesDistinct
    <2>2. CASE q.want = "create"
      <3> lastCode < MaxCode /\ lastCode' = lastCode + 1 /\ code' = [code EXCEPT ![t] = lastCode + 1]
        BY <2>2 DEF EnterCommit
      <3> QED BY <1>0, <2>1
    <2>3. CASE q.want # "create"
      <3> UNCHANGED <<code, lastCode>>
        BY <2>3 DEF EnterCommit
      <3> QED BY <1>0, <2>1, <2>3
    <2> QED BY <2>2, <2>3
  <1>5. TablesOK' /\ GuessesBounded'
    <2> onsite' \subseteq People \cup Teams
      BY <1>0, OnsiteTyped DEF EnterCommit
    <2> team' \in [People -> Teams \cup {Out, Solo}]
      BY <1>2
    <2> QED BY <1>4, TablesTyped DEF TablesOK, Sizes, TeamsIInv, GuessesBounded, EnterCommit
  <1>6. TeamsFit'
    <2> SUFFICES ASSUME NEW u \in Teams
                 PROVE  /\ Cardinality(Members(u)') <= maxSize
                        /\ Members(u)' # {} => teamMode /\ code'[u] # 0
                        /\ code'[u] # 0 => Members(u)' # {} \/ code'[u] \in stranded
      BY DEF TeamsFit, EnterCommit
    <2>1. CASE u = t
      BY <2>1, <1>0, <1>3, <1>4 DEF JoinKnows, Entering
    <2>2. CASE u # t
      BY <2>2, <1>3, <1>4 DEF TeamsIInv, TeamsFit
    <2> QED BY <2>1, <2>2
  <1>7. RequestsKnow'
    <2> SUFFICES ASSUME NEW s \in Requests \ {r}, req[s] # Idle, NEW y, y = req[s]
                 PROVE  Knows(y)'
      BY <1>1 DEF RequestsKnow, Knows, JoinKnows, RemoveKnows, DeleteKnows, Members
    <2>1. Knows(y) /\ y \in Record /\ Apart(q, y) /\ TeamHeld(y) # t
      BY TablesTyped DEF TeamsIInv, RequestsKnow, RequestsApart
    <2>2. CASE y.op = "join"
      <3>1. y \in Join /\ JoinKnows(y) /\ y.who # q.who /\ y.who \in People /\ failures[y.who] \in Nat
        BY <2>1, <2>2, <1>0, TablesTyped DEF Record, Join, Remove, Submit, Delete, Knows, Apart, TablesOK
      <3>2. y.at # "begun" => y.team \in Teams \ {t}
        BY <2>1, <3>1 DEF JoinKnows, TeamHeld, Join
      <3>3. y.at # "begun" => /\ \A p \in People : team'[p] = y.team => team[p] = y.team
                              /\ code'[y.team] = 0 <=> code[y.team] = 0
        BY <1>2, <1>4, <3>2
      <3>4. JoinKnows(y)'
        BY <3>1, <3>3, <1>2, JoinKept DEF TeamsIInv, EnterCommit
      <3> QED BY <2>2, <3>4 DEF Knows
    <2>3. CASE y.op = "remove"
      <3> y.who # q.who /\ y.who \in People
        BY <1>0, <2>1, <2>3 DEF Apart, Record, Join, Remove, Submit, Delete, Entering
      <3> QED BY <1>2, <2>1, <2>3 DEF Knows, RemoveKnows, EnterCommit
    <2>4. CASE y.op = "delete"
      <3> SUFFICES ASSUME y.at = "locked", y.team \in Teams PROVE y.upcoming /\ team'[y.who] = y.team
        BY <2>4 DEF Knows, DeleteKnows
      <3>1. y.upcoming /\ team[y.who] = y.team
        BY <2>1, <2>4 DEF Knows, DeleteKnows
      <3>2. y.who \in People /\ y.who # q.who
        BY <2>1, <2>4, <3>1, <1>0, <1>2 DEF Record, Join, Remove, Submit, Delete
      <3> QED BY <3>1, <3>2, <1>2
    <2> QED BY <2>1, <2>2, <2>3, <2>4 DEF Knows
  <1>8. RunsKept'
    <2> SUFFICES ASSUME NEW x \in runs, x.for = Solo, x.held
                 PROVE  /\ Started
                        /\ team'[x.by] = Solo \/ (team'[x.by] = Out /\ x.by \in deleted)
                        /\ \A s \in Joining : req[s].who = x.by => req[s].was # Out /\ req[s].at # "moved"
      BY <1>1 DEF RunsKept, Started, Joining, Open, EnterCommit
    <2>1. x.by \in People /\ x.by # q.who
      BY TablesTyped DEF TablesOK, TeamsIInv, RunsKept, Joining, Open
    <2> QED BY <1>2, <2>1 DEF TeamsIInv, RunsKept
  <1>9. /\ \A u \in Teams : code'[u] \in {0, code[u]} \/ (code'[u] = lastCode + 1 /\ lastCode' = lastCode + 1)
        /\ \A w, u \in Teams : code'[w] = lastCode + 1 /\ code'[u] = lastCode + 1 => w = u
    BY <1>4
  <1>10. \A p \in People, u \in Teams : team[p] = u => team'[p] = u
    BY <1>0, <1>2
  <1>11. stranded \subseteq stranded'
    BY DEF EnterCommit
  <1> QED BY <1>1, <1>4, <1>5, <1>6, <1>7, <1>8, <1>9, <1>10, <1>11, DoneStep, TableStep DEF EnterCommit

LEMMA JoinEnterStep ==
  ASSUME TeamsIInv, UNCHANGED mix, Learn, NEW r \in Requests, NEW t \in Teams \cup {Solo}, JoinEnter(r, t)
  PROVE  TeamsIInv'
PROOF
  <1> PICK q : q = req[r]
    OBVIOUS
  <1>0. /\ q # Idle /\ q.op = "join" /\ q.at = "begun" /\ (Entering(q) \/ q.guess # 0) /\ JoinTeam(r, t)
        /\ t \in Teams => ~TeamLocked(t)
        /\ q.was \in Teams => team[q.who] = q.was
    BY DEF JoinEnter
  <1>1. q \in Join /\ JoinKnows(q) /\ Out \notin Teams /\ Solo \notin Teams /\ Out # Solo
    BY <1>0, SentinelAssumption DEF TeamsIInv, TypeOK, RequestsKnow, Knows, Join, Remove, Submit, Delete
  <1>2. onsite' = OnsiteAfter(q, t) => onsite' \subseteq People \cup Teams
    BY <1>1, OnsiteTyped
  <1>3. CASE q.guess # 0 /\ q.guess # passphrase
    BY <1>3, <1>0, FailAttemptStep DEF JoinEnter
  <1>4. CASE /\ ~(q.guess # 0 /\ q.guess # passphrase)
             /\ Entering(q) /\ q.want = "join" /\ Cardinality(Members(t)) >= maxSize
    BY <1>4, RefuseStep DEF JoinEnter
  <1>5. CASE /\ ~(q.guess # 0 /\ q.guess # passphrase)
             /\ ~(Entering(q) /\ q.want = "join" /\ Cardinality(Members(t)) >= maxSize)
             /\ Entering(q) /\ q.was = Solo
    BY <1>5, <1>0, JoinMovingStep DEF JoinEnter
  <1>6. CASE /\ ~(q.guess # 0 /\ q.guess # passphrase)
             /\ ~(Entering(q) /\ q.want = "join" /\ Cardinality(Members(t)) >= maxSize)
             /\ ~(Entering(q) /\ q.was = Solo)
    <2>0. EnterCommit(r, t) /\ (q.was = Out => ~ProfileLocked(q.who))
      BY <1>6 DEF JoinEnter
    <2>1. CASE q.was \in Teams \/ (~Entering(q) /\ q.was = Solo)
      <3>1. UNCHANGED <<team, code, lastCode>>
        BY <2>0, <2>1 DEF EnterCommit, Entering
      <3>2. onsite' = OnsiteAfter(q, t) /\ Done(r) /\ UNCHANGED <<contest, failures, deleted, runs, stranded>>
        BY <2>0 DEF EnterCommit
      <3> QED BY <3>1, <3>2, <1>2, StayStep
    <2>2. CASE ~Entering(q) /\ q.was = Out
      <3> t = Solo
        BY <2>2, <1>0, <1>1 DEF JoinTeam
      <3> team' = [team EXCEPT ![q.who] = Solo] /\ UNCHANGED <<code, lastCode>> /\ onsite' = OnsiteAfter(q, t) /\ Done(r)
          /\ UNCHANGED <<contest, failures, deleted, runs, stranded>>
        BY <2>0, <2>2, <1>1 DEF EnterCommit
      <3> QED BY <2>0, <2>2, <1>0, <1>2, RegisterStep
    <2>3. CASE Entering(q) /\ q.was = Out
      <3>1. /\ t \in Teams /\ q.want \in {"create", "join"}
            /\ q.want = "create" => code[t] = 0
            /\ q.want = "join" => code[t] = q.code /\ q.code # 0
        BY <2>3, <1>0, <1>1 DEF JoinTeam, Entering, FreeId, Join, NewJoin, JoinKnows
      <3>2. Cardinality(Members(t)) < maxSize
        <4>1. maxSize \in Nat \ {0, 1} /\ Cardinality(Members(t)) \in Nat /\ Cardinality({}) = 0
          BY MembersCount, FS_EmptySet, MixesAssumption DEF TeamsIInv, TypeOK, Sizes
        <4>2. q.want = "create" => Members(t) = {}
          BY <3>1 DEF TeamsIInv, TeamsFit
        <4> QED BY <1>6, <2>3, <3>1, <4>1, <4>2
      <3>3. \A s \in Requests \ {r} : req[s] # Idle => TeamHeld(req[s]) # t
        BY <3>1, <1>0, <1>1 DEF TeamLocked, TeamHeld, Moving, Joining, Open
      <3> QED BY <2>0, <2>3, <3>1, <3>2, <3>3, <1>0, EnterStep
    <2> QED BY <1>1, <1>6, <2>1, <2>2, <2>3 DEF Join
  <1> QED BY <1>3, <1>4, <1>5, <1>6

LEMMA CommitMoveStep ==
  ASSUME TeamsIInv, UNCHANGED mix, Learn, NEW r \in Requests, CommitMove(r)
  PROVE  TeamsIInv'
PROOF
  <1> PICK q : q = req[r]
    OBVIOUS
  <1> PICK t : t = q.team
    OBVIOUS
  <1>0. q # Idle /\ q.op = "join" /\ q.at = "moved" /\ EnterCommit(r, t)
    BY DEF CommitMove, Moving, Joining, Open
  <1>1. q \in Join /\ JoinKnows(q) /\ Solo \notin Teams
    BY <1>0, SentinelAssumption DEF TeamsIInv, TypeOK, RequestsKnow, Knows, Join, Remove, Submit, Delete
  <1>2. q.was = Solo /\ t \in Teams /\ Entering(q) /\ Cardinality(Members(t)) < maxSize /\ (q.want = "create" <=> code[t] = 0)
    BY <1>0, <1>1 DEF JoinKnows, Entering
  <1>3. \A s \in Requests \ {r} : req[s] # Idle => TeamHeld(req[s]) # t
    BY <1>0, <1>2 DEF TeamsIInv, RequestsApart, Apart, TeamHeld
  <1> QED BY <1>0, <1>2, <1>3, EnterStep

LEMMA JoinNoTeamStep ==
  ASSUME TeamsIInv, UNCHANGED mix, Learn, NEW r \in Requests, JoinNoTeam(r)
  PROVE  TeamsIInv'
PROOF
  <1> PICK q : q = req[r]
    OBVIOUS
  <1>1. CASE Refuse(r)
    BY <1>1, RefuseStep
  <1>2. CASE ~Refuse(r)
    BY <1>2, FailAttemptStep DEF JoinNoTeam, Entering
  <1> QED BY <1>1, <1>2

\* A member's departure: with the team's lock, or with the deletion of the account.
LEMMA LeaveStep ==
  ASSUME TeamsIInv, UNCHANGED mix, Learn, NEW r \in Requests, Done(r), NEW p \in People, NEW t \in Teams \cup {Solo},
         Leave(p, t), RowFree(p) \/ t \in Teams,
         \/ t \in Teams /\ team[p] \in {t, Out}
         \/ /\ RowFree(p) /\ p \in deleted'
            /\ \A s \in Requests \ {r} : req[s] # Idle /\ req[s].op = "delete" => req[s].who # p,
         t \in Teams => /\ team[p] \in {t, Out}
                        /\ \A s \in Requests \ {r} : req[s] # Idle => TeamHeld(req[s]) # t,
         UNCHANGED <<contest, runs>>, deleted \subseteq deleted', deleted' \subseteq People,
         failures' \in [People -> Nat], \A y \in People : failures'[y] <= failures[y],
         stranded \subseteq stranded', stranded' \subseteq 0..MaxCode,
         \A u \in Teams \ {t} : team[p] = u => code[u] \in stranded'
  PROVE  TeamsIInv'
PROOF
  <1> USE DEF contest
  <1>0. Out \notin Teams /\ Solo \notin Teams /\ Out # Solo /\ MaxCode \in Nat /\ AttemptLimit \in Nat
        /\ team \in [People -> Teams \cup {Out, Solo}] /\ code \in [Teams -> 0..MaxCode] /\ lastCode \in 0..MaxCode
        /\ failures \in [People -> Nat]
    BY SentinelAssumption, LimitAssumption, TablesTyped DEF TablesOK
  <1>1. \A s \in Requests : req'[s] = IF s = r THEN Idle ELSE req[s]
    BY DoneStep
  <1>2. /\ team' \in [People -> Teams \cup {Out, Solo}]
        /\ \A y \in People : team'[y] = IF y = p THEN Out ELSE team[y]
    BY <1>0 DEF Leave
  <1>3. \A u \in Teams : u # team[p] => Members(u)' = Members(u)
    BY <1>0, <1>2 DEF Members
  <1>4. /\ lastCode' \in 0..MaxCode /\ lastCode <= lastCode' /\ code' \in [Teams -> 0..MaxCode]
        /\ \A u \in Teams \ {t} : code'[u] = code[u]
        /\ t \in Teams => \/ code'[t] = 0 /\ Members(t) \subseteq {p}
                          \/ code'[t] = lastCode + 1 /\ lastCode' = lastCode + 1 /\ ~(Members(t) \subseteq {p})
    <2>1. CASE t \in Teams /\ Members(t) \subseteq {p}
      <3> code' = [code EXCEPT ![t] = 0] /\ UNCHANGED lastCode
        BY <2>1 DEF Leave
      <3> QED BY <2>1, <1>0
    <2>2. CASE t \in Teams /\ ~(Members(t) \subseteq {p})
      <3> lastCode < MaxCode /\ lastCode' = lastCode + 1 /\ code' = [code EXCEPT ![t] = lastCode + 1]
        BY <2>2 DEF Leave, Renewed
      <3> QED BY <2>2, <1>0
    <2>3. CASE t \notin Teams
      <3> UNCHANGED <<code, lastCode>>
        BY <2>3 DEF Leave
      <3> QED BY <2>3, <1>0
    <2> QED BY <2>1, <2>2, <2>3
  <1>5. TablesOK' /\ GuessesBounded'
    <2>1. onsite' \subseteq People \cup Teams
      BY TablesTyped DEF Leave, TablesOK
    <2>2. GuessesBounded'
      BY <1>0 DEF TeamsIInv, GuessesBounded
    <2> QED BY <2>1, <2>2, <1>2, <1>4, TablesTyped DEF TablesOK, Sizes
  <1>6. TeamsFit'
    <2> SUFFICES ASSUME NEW u \in Teams
                 PROVE  /\ Cardinality(Members(u)') <= maxSize
                        /\ Members(u)' # {} => teamMode /\ code'[u] # 0
                        /\ code'[u] # 0 => Members(u)' # {} \/ code'[u] \in stranded'
      BY DEF TeamsFit
    <2>1. Members(u)' \subseteq Members(u)
      BY <1>0, <1>2 DEF Members
    <2>2. Cardinality(Members(u)') <= maxSize
      <3> Members(u) \subseteq People /\ maxSize \in Nat
        BY MixesAssumption, TablesTyped DEF Members, TablesOK, Sizes
      <3> QED BY <2>1, FewerMembers DEF TeamsIInv, TeamsFit
    <2>3. Members(u)' # {} => teamMode /\ code[u] # 0
      BY <2>1 DEF TeamsIInv, TeamsFit
    <2>4. CASE u = t
      <3>1. Members(u)' = Members(u) \ {p}
        BY <1>0, <1>2 DEF Members
      <3> QED BY <2>2, <2>3, <2>4, <3>1, <1>0, <1>4
    <2>5. CASE u # t /\ u # team[p]
      BY <2>5, <2>2, <2>3, <1>3, <1>4 DEF TeamsIInv, TeamsFit
    <2>6. CASE u # t /\ u = team[p]
      BY <2>6, <2>2, <2>3, <1>4
    <2> QED BY <2>4, <2>5, <2>6
  <1>7. RequestsKnow'
    <2> SUFFICES ASSUME NEW s \in Requests \ {r}, req[s] # Idle, NEW y, y = req[s]
                 PROVE  Knows(y)'
      BY <1>1 DEF RequestsKnow, Knows, JoinKnows, RemoveKnows, DeleteKnows, Members
    <2>1. Knows(y) /\ y \in Record /\ (t \in Teams => TeamHeld(y) # t)
      BY TablesTyped DEF TeamsIInv, RequestsKnow
    <2>2. CASE y.op = "join"
      <3>1. y \in Join /\ JoinKnows(y) /\ y.who \in People /\ (y.at = "moved" => team[y.who] = Solo)
        BY <2>1, <2>2 DEF Record, Join, Remove, Submit, Delete, Knows, JoinKnows
      <3>2. y.at # "begun" => y.team \in Teams \ {t}
        BY <2>1, <3>1 DEF JoinKnows, TeamHeld, Join
      <3>3. y.at # "begun" => /\ \A x \in People : team'[x] = y.team => team[x] = y.team
                              /\ code'[y.team] = 0 <=> code[y.team] = 0
        BY <1>0, <1>2, <1>4, <3>2
      <3>4. y.at = "moved" => y.who # p
        <4>1. RowFree(p) /\ y.at = "moved" => y.who # p
          BY <2>2 DEF RowFree, RowTaken, Moving, Joining, Open
        <4> QED BY <4>1, <3>1, <1>0
      <3>5. JoinKnows(y)'
        BY <3>1, <3>3, <3>4, <1>2, JoinKept DEF TeamsIInv
      <3> QED BY <2>2, <3>5 DEF Knows
    <2>3. CASE y.op = "remove"
      <3>1. y.who \in People /\ y.team \in Teams /\ y.team # t
        BY <1>0, <2>1, <2>3 DEF Record, Join, Remove, Submit, Delete, TeamHeld, Knows, RemoveKnows
      <3>2. team[y.who] = y.team \/ (team[y.who] = Out /\ y.who \in deleted)
        BY <2>1, <2>3 DEF Knows, RemoveKnows
      <3>3. y.who = p => p \in deleted'
        BY <3>1, <3>2, <1>0
      <3> QED BY <2>3, <3>1, <3>2, <3>3, <1>2 DEF Knows, RemoveKnows
    <2>4. CASE y.op = "delete"
      <3> SUFFICES ASSUME y.at = "locked", y.team \in Teams PROVE y.upcoming /\ team'[y.who] = y.team
        BY <2>4 DEF Knows, DeleteKnows
      <3>1. y.upcoming /\ team[y.who] = y.team /\ y.who \in People
        BY <2>1, <2>4 DEF Knows, DeleteKnows, Record, Join, Remove, Submit, Delete
      <3>2. y.team # t
        BY <2>1, <2>4, <1>0 DEF TeamHeld
      <3>3. y.who # p
        BY <3>1, <3>2, <2>4, <1>0
      <3> QED BY <3>1, <3>3, <1>2
    <2> QED BY <2>1, <2>2, <2>3, <2>4 DEF Knows
  <1>8. RunsKept'
    <2> SUFFICES ASSUME NEW x \in runs, x.for = Solo, x.held
                 PROVE  /\ Started
                        /\ team'[x.by] = Solo \/ (team'[x.by] = Out /\ x.by \in deleted')
                        /\ \A s \in Joining : req[s].who = x.by => req[s].was # Out /\ req[s].at # "moved"
      BY <1>1 DEF RunsKept, Started, Joining, Open
    <2>1. x.by \in People
      BY TablesTyped DEF TablesOK
    <2>2. /\ Started /\ (team[x.by] = Solo \/ (team[x.by] = Out /\ x.by \in deleted))
          /\ \A s \in Joining : req[s].who = x.by => req[s].was # Out /\ req[s].at # "moved"
      BY DEF TeamsIInv, RunsKept
    <2> QED BY <1>0, <1>2, <2>1, <2>2
  <1>9. /\ \A u \in Teams : code'[u] \in {0, code[u]} \/ (code'[u] = lastCode + 1 /\ lastCode' = lastCode + 1)
        /\ \A w, u \in Teams : code'[w] = lastCode + 1 /\ code'[u] = lastCode + 1 => w = u
    BY <1>0, <1>4 DEF TeamsIInv, CodesDistinct
  <1>10. \A y \in People, u \in Teams :
           team[y] = u /\ code'[u] = code[u] /\ code[u] # 0 => team'[y] = u \/ code[u] \in stranded'
    BY <1>0, <1>2, <1>4 DEF TeamsIInv, CodesDistinct
  <1> QED BY <1>1, <1>4, <1>5, <1>6, <1>7, <1>8, <1>9, <1>10, DoneStep, TableStep

LEMMA RemoveCommitStep ==
  ASSUME TeamsIInv, UNCHANGED mix, Learn, NEW r \in Requests, RemoveCommit(r)
  PROVE  TeamsIInv'
PROOF
  <1> PICK q : q = req[r]
    OBVIOUS
  <1>1. /\ q # Idle /\ q.op = "remove" /\ RowFree(q.who) /\ Leave(q.who, q.team) /\ Done(r)
        /\ UNCHANGED <<contest, failures, deleted, runs, stranded>>
    BY DEF RemoveCommit, Open
  <1>2. q.who \in People /\ q.team \in Teams /\ team[q.who] \in {q.team, Out}
    BY <1>1 DEF TeamsIInv, TypeOK, RequestsKnow, Knows, RemoveKnows, Join, Remove, Submit, Delete
  <1>3. \A s \in Requests \ {r} : req[s] # Idle => TeamHeld(req[s]) # q.team
    BY <1>1, <1>2 DEF TeamsIInv, RequestsApart, Apart, TeamHeld
  <1>4. /\ deleted \subseteq People /\ stranded \subseteq 0..MaxCode /\ failures \in [People -> Nat]
        /\ Out \notin Teams
    BY TablesTyped, SentinelAssumption DEF TablesOK
  <1>5. \A u \in Teams \ {q.team} : team[q.who] # u
    BY <1>2, <1>4
  <1>6. \A y \in People : failures'[y] <= failures[y]
    BY <1>1, <1>4
  <1> QED BY <1>1, <1>2, <1>3, <1>4, <1>5, <1>6, LeaveStep

LEMMA DeleteCommitStep ==
  ASSUME TeamsIInv, UNCHANGED mix, Learn, NEW r \in Requests, DeleteCommit(r)
  PROVE  TeamsIInv'
PROOF
  <1> PICK q : q = req[r]
    OBVIOUS
  <1>1. /\ q # Idle /\ q.op = "delete" /\ q.at = "locked" /\ Done(r) /\ deleted' = deleted \cup {q.who}
        /\ failures' = [failures EXCEPT ![q.who] = 0] /\ UNCHANGED <<contest, runs>>
        /\ stranded' = stranded \cup {code[t] : t \in {u \in Teams \ {q.team} : q.upcoming /\ team[q.who] = u}}
    BY DEF DeleteCommit, Open
  <1>2. /\ q \in Delete /\ q.who \in People /\ q.team \in Teams \cup {Solo}
        /\ q.team \in Teams => q.upcoming /\ team[q.who] = q.team
    BY <1>1 DEF TeamsIInv, TypeOK, RequestsKnow, Knows, DeleteKnows, Join, Remove, Submit, Delete
  <1>3. \A s \in Requests \ {r} : req[s] # Idle => /\ q.team \in Teams => TeamHeld(req[s]) # q.team
                                                   /\ req[s].op = "delete" => req[s].who # q.who
    BY <1>1 DEF TeamsIInv, RequestsApart, Apart, TeamHeld
  <1>4. /\ deleted' \subseteq People /\ failures \in [People -> Nat] /\ failures' \in [People -> Nat]
        /\ \A y \in People : failures'[y] <= failures[y]
        /\ stranded' \subseteq 0..MaxCode /\ stranded \subseteq stranded'
    BY <1>1, <1>2, TablesTyped DEF TablesOK
  <1>5. CASE q.upcoming
    <2>1. RowFree(q.who) /\ Leave(q.who, q.team)
      BY <1>5 DEF DeleteCommit
    <2>2. \A u \in Teams \ {q.team} : team[q.who] = u => code[u] \in stranded'
      BY <1>1, <1>5
    <2> QED BY <2>1, <2>2, <1>1, <1>2, <1>3, <1>4, LeaveStep
  <1>6. CASE ~q.upcoming
    <2> USE DEF contest
    <2>1. UNCHANGED <<team, code, lastCode, onsite>> /\ stranded' = stranded
      BY <1>1, <1>6 DEF DeleteCommit
    <2>2. \A s \in Requests : req'[s] = IF s = r THEN Idle ELSE req[s]
      BY <1>1, DoneStep
    <2>3. TablesOK'
      BY <1>1, <1>4, <2>1, TablesTyped DEF TablesOK, Sizes
    <2>4. GuessesBounded'
      BY <1>4, LimitAssumption DEF TeamsIInv, GuessesBounded
    <2>5. \A s \in Joining : req[s].who \in People
      BY TablesTyped DEF Joining, Open, Record, Join, Remove, Submit, Delete
    <2>6. RequestsKnow'
      BY <1>1, <1>4, <2>1, <2>2, <2>5, SameTeamsKnow
    <2>7. RunsKept'
      BY <1>1, <2>1, <2>2, SameTeamsRuns DEF Started
    <2>8. TeamsFit'
      BY <1>1, <2>1 DEF TeamsIInv, TeamsFit, Members
    <2> QED BY <1>1, <2>1, <2>2, <2>3, <2>4, <2>6, <2>7, <2>8, DoneStep, SameTeamsStep
  <1> QED BY <1>5, <1>6

\* A member draws a new code.
LEMMA RenewTeamCodeStep ==
  ASSUME TeamsIInv, UNCHANGED mix, Learn, NEW p \in People, RenewTeamCode(p)
  PROVE  TeamsIInv'
PROOF
  <1> USE DEF contest
  <1> PICK t : t = team[p]
    OBVIOUS
  <1>0. /\ t \in Teams /\ ~TeamLocked(t) /\ lastCode < MaxCode /\ lastCode' = lastCode + 1
        /\ code' = [code EXCEPT ![t] = lastCode + 1]
        /\ UNCHANGED <<contest, team, onsite, failures, deleted, runs, stranded, req>>
    BY DEF RenewTeamCode, Renewed
  <1>1. /\ code \in [Teams -> 0..MaxCode] /\ lastCode \in 0..MaxCode /\ MaxCode \in Nat /\ failures \in [People -> Nat]
        /\ \A u \in Teams : code[u] <= lastCode
    BY TablesTyped DEF TablesOK, TeamsIInv, CodesDistinct
  <1>2. /\ lastCode' \in 0..MaxCode /\ code' \in [Teams -> 0..MaxCode]
        /\ \A u \in Teams : code'[u] = IF u = t THEN lastCode + 1 ELSE code[u]
    BY <1>0, <1>1
  <1>3. TablesOK' /\ GuessesBounded'
    BY <1>0, <1>2, TablesTyped DEF TablesOK, Sizes, TeamsIInv, GuessesBounded
  <1>4. \A u \in Teams : Members(u)' = Members(u)
    BY <1>0 DEF Members
  <1>5. TeamsFit'
    <2> p \in Members(t)
      BY DEF Members
    <2> QED BY <1>0, <1>1, <1>2, <1>4 DEF TeamsIInv, TeamsFit
  <1>6. RequestsKnow'
    <2> SUFFICES ASSUME NEW s \in Requests, req[s] # Idle, NEW y, y = req[s]
                 PROVE  Knows(y)'
      BY <1>0 DEF RequestsKnow, Knows, JoinKnows, RemoveKnows, DeleteKnows, Members
    <2>1. Knows(y) /\ y \in Record
      BY TablesTyped DEF TeamsIInv, RequestsKnow
    <2>2. CASE y.op = "join"
      <3>1. y \in Join /\ JoinKnows(y) /\ failures[y.who] \in Nat
        BY <2>1, <2>2, <1>1 DEF Record, Join, Remove, Submit, Delete, Knows
      <3>2. y.at # "begun" => y.team \in Teams \ {t}
        BY <1>0, <2>2, <3>1 DEF JoinKnows, TeamLocked, Moving, Joining, Open, Join
      <3>3. JoinKnows(y)'
        BY <3>1, <3>2, <1>0, <1>2, JoinKept DEF TeamsIInv
      <3> QED BY <2>2, <3>3 DEF Knows
    <2>3. CASE y.op # "join"
      BY <1>0, <2>1, <2>3 DEF Knows, RemoveKnows, DeleteKnows
    <2> QED BY <2>2, <2>3
  <1>7. RunsKept'
    BY <1>0, SameTeamsRuns DEF Started
  <1>8. \A w, u \in Teams : code'[w] = lastCode + 1 /\ code'[u] = lastCode + 1 => w = u
    BY <1>1, <1>2
  <1> QED BY <1>0, <1>1, <1>2, <1>3, <1>5, <1>6, <1>7, <1>8, TablesTyped, TableStep

LEMMA TeamsInit == Init => TeamsIInv
PROOF
  <1> SUFFICES ASSUME Init PROVE TeamsIInv
    OBVIOUS
  <1> USE DEF Init
  <1>0. Out \notin Teams /\ MaxCode \in Nat /\ MaxPassphrase \in Nat \ {0}
    BY SentinelAssumption
  <1>1. TypeOK
    BY <1>0 DEF TypeOK, Sizes
  <1>2. TeamsFit
    <2>1. \A t \in Teams : Members(t) = {}
      BY <1>0 DEF Members
    <2> QED BY <2>1, FS_EmptySet, MixesAssumption DEF TeamsFit, Sizes
  <1>3. RequestsKnow /\ RequestsApart /\ CodesDistinct /\ RunsKept /\ OnlyMembersKnowTheCode
    BY DEF RequestsKnow, RequestsApart, CodesDistinct, RunsKept, OnlyMembersKnowTheCode
  <1>4. GuessesBounded
    BY LimitAssumption DEF GuessesBounded
  <1> QED BY <1>1, <1>2, <1>3, <1>4 DEF TeamsIInv

LEMMA TeamsNext == TeamsIInv /\ [Next]_vars => TeamsIInv'
PROOF
  <1> SUFFICES ASSUME TeamsIInv, [Next]_vars PROVE TeamsIInv'
    OBVIOUS
  <1>1. CASE UNCHANGED vars
    BY <1>1 DEF vars, contest, tables, TeamsIInv, TypeOK, Sizes, RequestsKnow, Knows, JoinKnows, RemoveKnows, DeleteKnows,
                RequestsApart, Apart, TeamHeld, CodesDistinct, RunsKept, Started, Joining, Open, TeamsFit, Members,
                OnlyMembersKnowTheCode, GuessesBounded
  <1>2. CASE Next
    <2>0. Step /\ UNCHANGED mix /\ Learn
      BY <1>2 DEF Next, Learn
    <2>1. CASE JoinRequest
      BY <2>0, <2>1, JoinBeginStep, JoinAloneStep, JoinNoTeamStep, JoinEnterStep, EnterTeamStep, CommitMoveStep
         DEF JoinRequest
    <2>2. CASE LeaveRequest
      BY <2>0, <2>2, RemoveBeginStep, RemoveCommitStep, DeleteBeginStep, DeleteLockStep, DeleteCommitStep DEF LeaveRequest
    <2>3. CASE SubmitRequest
      BY <2>0, <2>3, SubmitBeginStep, SubmitEligibleStep, SubmitCommitStep DEF SubmitRequest
    <2>4. CASE Setter
      BY <2>0, <2>4, SetOnsiteStep, RotatePassphraseStep, SaveStep DEF Setter
    <2>5. CASE \E r \in Requests : Abort(r)
      BY <2>0, <2>5, RefuseStep DEF Abort
    <2>6. CASE \E p \in People : RenewTeamCode(p) \/ WindowPasses(p)
      BY <2>0, <2>6, RenewTeamCodeStep, WindowPassesStep
    <2>7. CASE Tick
      BY <2>0, <2>7, TickStep
    <2> QED BY <2>0, <2>1, <2>2, <2>3, <2>4, <2>5, <2>6, <2>7 DEF Step
  <1> QED BY <1>1, <1>2

-----------------------------------------------------------------------------
\* What an open transaction of Join, enterTeam, RemoveTeamMember, leaveUpcoming or
\* CreateRun has read and still relies on is true of the tables until it commits.
THEOREM TeamsInvariance == Spec => []TeamsIInv
PROOF
  <1>1. Init => TeamsIInv
    BY TeamsInit
  <1>2. TeamsIInv /\ [Next]_vars => TeamsIInv'
    BY TeamsNext
  <1> QED BY <1>1, <1>2, PTL DEF Spec

\* Every variable of the registrations keeps its type.
THEOREM TeamsAreTyped == Spec => []TypeOK
PROOF
  <1>1. TeamsIInv => TypeOK
    BY DEF TeamsIInv
  <1> QED BY <1>1, TeamsInvariance, PTL

\* No team ever has more members than the contest allows, however many accounts
\* join it at once, and a team is there exactly as long as someone is in it, but
\* for the deletion that TeamsFit excepts.
THEOREM TeamsAlwaysFit == Spec => []TeamsFit
PROOF
  <1>1. TeamsIInv => TeamsFit
    BY DEF TeamsIInv
  <1> QED BY <1>1, TeamsInvariance, PTL

\* A submission that someone registered alone made while the contest ran, holding
\* the registration, never counts for a team.
THEOREM IndividualsAlwaysKeepTheirRuns == Spec => []IndividualsKeepTheirRuns
PROOF
  <1>1. TeamsIInv => IndividualsKeepTheirRuns
    BY SentinelAssumption DEF TeamsIInv, RunsKept, IndividualsKeepTheirRuns
  <1> QED BY <1>1, TeamsInvariance, PTL

\* A departed member does not know the team's code, nobody guesses more often than
\* the limit, and who has passed the passphrase check holds the stored one.
THEOREM SecretsAlwaysGuarded == Spec => []SecretsGuarded
PROOF
  <1>1. TeamsIInv => PassphraseHeld
    <2> SUFFICES ASSUME TeamsIInv, NEW r \in Moving, req[r].guess # 0 PROVE req[r].guess = passphrase
      BY DEF PassphraseHeld
    <2>1. r \in Requests /\ req[r] # Idle /\ req[r].op = "join" /\ req[r].at # "begun"
      BY DEF Moving, Joining, Open
    <2> QED BY <2>1 DEF TeamsIInv, RequestsKnow, Knows, JoinKnows
  <1>2. TeamsIInv => SecretsGuarded
    BY <1>1 DEF SecretsGuarded, TeamsIInv
  <1> QED BY <1>2, TeamsInvariance, PTL

\* What an entrant's division goes with: their row, or their team's.
LEMMA LeaveKeepsOnsite ==
  ASSUME TeamsIInv, NEW p \in People, NEW t \in Teams \cup {Solo}, Leave(p, t), NEW y \in People, Onsite(y), team'[y] # Out
  PROVE  Onsite(y)'
PROOF
  <1>0. Out \notin Teams /\ Solo \notin Teams /\ People \cap Teams = {} /\ lastCode \in Nat /\ code \in [Teams -> 0..MaxCode]
        /\ team \in [People -> Teams \cup {Out, Solo}]
    BY SentinelAssumption, TablesTyped DEF TablesOK
  <1>1. y # p /\ team'[y] = team[y]
    BY <1>0 DEF Leave
  <1>2. CASE team[y] \in Teams
    <2>1. y \in Members(team[y])
      BY DEF Members
    <2>2. code[team[y]] # 0
      BY <1>2, <2>1 DEF TeamsIInv, TeamsFit
    <2>3. CASE t \in Teams /\ Members(t) \subseteq {p}
      <3> code' = [code EXCEPT ![t] = 0] /\ team[y] # t
        BY <1>1, <2>1, <2>3 DEF Leave
      <3> code'[team[y]] # 0
        BY <1>0, <1>2, <2>2
      <3> QED BY <1>0, <1>1, <1>2 DEF Leave, Onsite
    <2>4. CASE t \in Teams /\ ~(Members(t) \subseteq {p})
      <3> code' = [code EXCEPT ![t] = lastCode + 1]
        BY <2>4 DEF Leave, Renewed
      <3> code'[team[y]] # 0
        BY <1>0, <1>2, <2>2
      <3> QED BY <1>0, <1>1, <1>2 DEF Leave, Onsite
    <2>5. CASE t \notin Teams
      <3> code'[team[y]] # 0
        BY <2>2, <2>5 DEF Leave
      <3> QED BY <1>0, <1>1, <1>2 DEF Leave, Onsite
    <2> QED BY <2>3, <2>4, <2>5
  <1>3. CASE team[y] \notin Teams
    BY <1>0, <1>1, <1>3 DEF Leave, Onsite
  <1> QED BY <1>2, <1>3

LEMMA EnterKeepsOnsite ==
  ASSUME TeamsIInv, NEW r \in Requests, NEW q, q = req[r], q # Idle, q.op = "join", NEW t \in Teams \cup {Solo},
         q.was \in Teams => t = q.was /\ team[q.who] = t, t \in Teams => q.was \in Teams \/ Entering(q),
         EnterCommit(r, t), NEW y \in People, Onsite(y)
  PROVE  Onsite(y)'
PROOF
  <1>0. /\ Out \notin Teams /\ Solo \notin Teams /\ Out # Solo /\ People \cap Teams = {}
        /\ team \in [People -> Teams \cup {Out, Solo}] /\ q \in Join /\ JoinKnows(q) /\ q.who \in People
    BY SentinelAssumption, TablesTyped
       DEF TablesOK, TeamsIInv, TypeOK, RequestsKnow, Knows, Join, Remove, Submit, Delete
  <1>1. onsite' = OnsiteAfter(q, t) /\ (team' = team \/ team' = [team EXCEPT ![q.who] = t])
        /\ (q.was \in Teams => team' = team)
    BY DEF EnterCommit
  <1>2. CASE y # q.who
    BY <1>0, <1>1, <1>2 DEF Onsite, OnsiteAfter
  <1>3. CASE y = q.who /\ q.was \in Teams
    BY <1>0, <1>1, <1>3 DEF Onsite, OnsiteAfter
  <1>4. CASE y = q.who /\ q.was \notin Teams
    <2>1. team[y] \notin Teams /\ y \in onsite
      BY <1>0, <1>4 DEF JoinKnows, Onsite
    <2>2. CASE t = Solo
      BY <2>1, <2>2, <1>0, <1>1, <1>4 DEF Onsite, OnsiteAfter
    <2>3. CASE t \in Teams
      <3>1. t \in onsite'
        BY <2>1, <2>3, <1>1, <1>4 DEF OnsiteAfter
      <3>2. team' = [team EXCEPT ![q.who] = t]
        BY <2>3, <1>0, <1>4, <2>1 DEF EnterCommit
      <3> QED BY <3>1, <3>2, <2>3, <1>0, <1>4 DEF Onsite
    <2> QED BY <2>2, <2>3
  <1> QED BY <1>2, <1>3, <1>4

\* Nobody who was registered and onsite turns open again while the contest keeps
\* its division: Join, enterTeam and SetOnsite only add onsite_at, and who enters a
\* team brings it along.
THEOREM OnsiteIsAlwaysKept == Spec => OnsiteIsKept
PROOF
  <1>1. ASSUME TeamsIInv, Next, NEW y \in People, Onsite(y), team'[y] # Out, division'
        PROVE  Onsite(y)'
    <2> USE <1>1
    <2>0. Step /\ team \in [People -> Teams \cup {Out, Solo}] /\ Out \notin Teams /\ Solo \notin Teams /\ Out # Solo
      BY TablesTyped, SentinelAssumption DEF Next, TablesOK
    <2>1. UNCHANGED <<team, onsite>> => Onsite(y)'
      BY DEF Onsite
    <2>2. \A r \in Requests : Refuse(r) \/ FailAttempt(r) => UNCHANGED <<team, onsite>>
      BY DEF Refuse, FailAttempt, tables
    <2>3. CASE JoinRequest
      <3> PICK r \in Requests :
            \/ \E p \in People, want \in NewJoin, c \in 0..MaxCode, g \in 0..MaxPassphrase : JoinBegin(r, p, want, c, g)
            \/ JoinAlone(r) \/ JoinNoTeam(r)
            \/ \E t \in Teams \cup {Solo} : JoinEnter(r, t)
            \/ EnterTeam(r) \/ CommitMove(r)
        BY <2>3 DEF JoinRequest
      <3> PICK q : q = req[r]
        OBVIOUS
      <3>1. CASE \E p \in People, want \in NewJoin, c \in 0..MaxCode, g \in 0..MaxPassphrase : JoinBegin(r, p, want, c, g)
        BY <3>1, <2>1 DEF JoinBegin, tables
      <3>2. CASE JoinAlone(r)
        <4> q \in Join /\ JoinKnows(q)
          BY <3>2 DEF JoinAlone, TeamsIInv, TypeOK, RequestsKnow, Knows, Join, Remove, Submit, Delete
        <4>1. CASE q.was = Out
          <5> team' = [team EXCEPT ![q.who] = Solo] /\ onsite' = onsite /\ team[q.who] = Out
            BY <3>2, <4>1 DEF JoinAlone, JoinKnows
          <5> QED BY <2>0 DEF Onsite
        <4>2. CASE q.was # Out
          BY <3>2, <4>2, <2>1 DEF JoinAlone
        <4> QED BY <4>1, <4>2
      <3>3. CASE JoinNoTeam(r)
        BY <3>3, <2>1, <2>2 DEF JoinNoTeam
      <3>4. CASE \E t \in Teams \cup {Solo} : JoinEnter(r, t)
        <4> PICK t \in Teams \cup {Solo} : JoinEnter(r, t)
          BY <3>4
        <4>1. CASE EnterCommit(r, t)
          <5>1. q # Idle /\ q.op = "join" /\ (q.was \in Teams => t = q.was /\ team[q.who] = t)
            BY DEF JoinEnter, JoinTeam, Entering
          <5>2. t \in Teams => q.was \in Teams \/ Entering(q)
            BY <2>0 DEF JoinEnter, JoinTeam, Entering
          <5> QED BY <4>1, <5>1, <5>2, EnterKeepsOnsite
        <4>2. CASE ~EnterCommit(r, t)
          BY <4>2, <2>1, <2>2 DEF JoinEnter, tables
        <4> QED BY <4>1, <4>2
      <3>5. CASE EnterTeam(r)
        BY <3>5, <2>1, <2>2 DEF EnterTeam, tables
      <3>6. CASE CommitMove(r)
        <4>1. q # Idle /\ q.op = "join" /\ q.at = "moved" /\ EnterCommit(r, q.team)
          BY <3>6 DEF CommitMove, Moving, Joining, Open
        <4>2. q.was = Solo /\ q.team \in Teams /\ Entering(q)
          BY <4>1, <2>0 DEF TeamsIInv, RequestsKnow, Knows, JoinKnows, Entering
        <4> QED BY <4>1, <4>2, <2>0, EnterKeepsOnsite
      <3> QED BY <3>1, <3>2, <3>3, <3>4, <3>5, <3>6
    <2>4. CASE LeaveRequest
      <3> PICK r \in Requests : \/ \E p, q \in People : RemoveBegin(r, p, q)
                                \/ RemoveCommit(r)
                                \/ \E p \in People : DeleteBegin(r, p)
                                \/ DeleteLock(r) \/ DeleteCommit(r)
        BY <2>4 DEF LeaveRequest
      <3> PICK q : q = req[r]
        OBVIOUS
      <3>1. CASE RemoveCommit(r)
        <4>1. q # Idle /\ q.op = "remove" /\ Leave(q.who, q.team)
          BY <3>1 DEF RemoveCommit, Open
        <4>2. q.who \in People /\ q.team \in Teams
          BY <4>1 DEF TeamsIInv, TypeOK, Join, Remove, Submit, Delete
        <4> QED BY <4>1, <4>2, LeaveKeepsOnsite
      <3>2. CASE DeleteCommit(r)
        <4>1. CASE q.upcoming
          <5>1. q # Idle /\ q.op = "delete" /\ Leave(q.who, q.team)
            BY <3>2, <4>1 DEF DeleteCommit, Open
          <5>2. q.who \in People /\ q.team \in Teams \cup {Solo}
            BY <5>1 DEF TeamsIInv, TypeOK, Join, Remove, Submit, Delete
          <5> QED BY <5>1, <5>2, LeaveKeepsOnsite
        <4>2. CASE ~q.upcoming
          BY <3>2, <4>2, <2>1 DEF DeleteCommit
        <4> QED BY <4>1, <4>2
      <3>3. CASE ~RemoveCommit(r) /\ ~DeleteCommit(r)
        BY <3>3, <2>1 DEF RemoveBegin, DeleteBegin, DeleteLock, tables
      <3> QED BY <3>1, <3>2, <3>3
    <2>5. CASE SubmitRequest
      BY <2>5, <2>1, <2>2 DEF SubmitRequest, SubmitBegin, SubmitEligible, SubmitCommit, tables
    <2>6. CASE Setter
      <3>1. CASE \E e \in People \cup Teams : SetOnsite(e)
        BY <3>1 DEF SetOnsite, Onsite
      <3>2. CASE RotatePassphrase
        BY <3>2, <2>1 DEF RotatePassphrase, tables
      <3>3. ASSUME NEW mode \in BOOLEAN, NEW div \in BOOLEAN, NEW size \in Sizes,
                   NEW word \in {passphrase, passphrase + 1} \cap (1..MaxPassphrase), Save(mode, size, div, word)
            PROVE  UNCHANGED <<team, onsite>>
        BY <3>3 DEF Save, KeepRegistrations
      <3> QED BY <2>6, <3>1, <3>2, <3>3, <2>1 DEF Setter
    <2>7. CASE \E r \in Requests : Abort(r)
      BY <2>7, <2>1, <2>2 DEF Abort
    <2>8. CASE \E p \in People : RenewTeamCode(p) \/ WindowPasses(p)
      BY <2>8, <2>1 DEF RenewTeamCode, WindowPasses
    <2>9. CASE Tick
      BY <2>9, <2>1 DEF Tick, tables
    <2> QED BY <2>0, <2>3, <2>4, <2>5, <2>6, <2>7, <2>8, <2>9 DEF Step
  <1>2. TeamsIInv /\ [Next]_vars => [\A p \in People : Onsite(p) /\ team'[p] # Out /\ division' => Onsite(p)']_vars
    BY <1>1
  <1> QED BY <1>2, TeamsInvariance, PTL DEF Spec, OnsiteIsKept

=============================================================================
