------------------------- MODULE ContestStaff_proofs -------------------------
(***************************************************************************)
(* The invariants of a contest's staff, for every number of accounts,      *)
(* problems and transactions and with every kind of request at once, and   *)
(* for requests authenticated before the deletion of their account too     *)
(* (Late), but for one: only without those does a contest keep an owner    *)
(* with an account.                                                        *)
(***************************************************************************)
EXTENDS ContestStaff, SequenceTheorems, TLAPS

\* The row of the id is locked by one transaction at a time, and by none beside
\* a registration; the id itself by one, and an account is deleted once.  A
\* deletion that hands something over is the only one of its two accounts.
Alone(q) == \/ q.op \in {"accept", "save", "publish"} \/ (q.op = "tester" /\ q.contest)
            \/ (q.op = "delete" /\ q.at = "handed" /\ q.row)
Apart(q, s) ==
  /\ Alone(q) => ~Alone(s) /\ s.op # "join"
  /\ q.op \in {"create", "publish"} => s.op \notin {"create", "publish"}
  /\ q.op = "delete" /\ s.op = "delete" => q.who # s.who /\ (q.at = "handed" => s.who # q.heir)
  /\ ~Late /\ q.op = "delete" => s.who # q.who

\* What an open transaction has read and still relies on.
Knows(q) ==
  /\ q.op = "create" => IF q.draft THEN ~Published ELSE ~Drafted
  /\ q.op = "publish" => Drafted
  /\ q.op = "save" => Published
  /\ q.op = "join" => Published /\ Competitor(q.who)
  /\ q.op = "accept" => (Drafted \/ Published) /\ ~Setter(q.who) /\ q.who \notin participants
  /\ q.op = "delete" /\ q.at = "handed" =>
       /\ ~q.row => draftOwner # q.who
       /\ q.heir # Nobody => /\ q.row /\ q.heir \in ToSet(setters) /\ q.heir # q.who
                             /\ owner = q.who \/ draftOwner = q.who
  /\ ~Late => q.who \notin deleted

RequestsKnow  == \A r \in Requests : req[r] # Idle => Knows(req[r])
RequestsApart == \A r, s \in Requests : r # s /\ req[r] # Idle /\ req[s] # Idle => Apart(req[r], req[s])

\* What the id holds before there is a contest, and when neither row exists.
IdFresh ==
  /\ ~(Drafted /\ Published)
  /\ ~Published => inContest = {} /\ participants = {} /\ phase = "before"
  /\ ~Published /\ ~Drafted => wasStaff = {} /\ banned = {}

\* StaffDoNotCompete, from the draft on.
Separate ==
  /\ Published /\ ~Final => \A p \in participants \ deleted : ~Staff(p)
  /\ \A p \in wasStaff : ~Competitor(p)

\* RemovedHoldNoLink, with what keeps a removed account from another link.
LinksKept ==
  /\ token <= lastToken /\ \A h \in holds : h[2] <= lastToken
  /\ \A p \in banned : ~Setter(p) /\ <<p, token>> \notin holds

\* Who owns the row, or comes after the owner, has an account.
OwnersStay ==
  ~Late => /\ Published /\ ~Final => owner \notin deleted
           /\ draftOwner \notin deleted /\ ToSet(setters) \cap deleted = {}

StaffIInv ==
  TypeOK /\ RequestsKnow /\ RequestsApart /\ IdFresh /\ Separate /\ LinksKept /\ OwnersStay

-----------------------------------------------------------------------------
\* The account's row goes, the others keep their order.
LEMMA WithoutOne ==
  ASSUME NEW s \in Seq(People), IsInjective(s), NEW p
  PROVE  /\ Without(s, p) \in Seq(People) /\ IsInjective(Without(s, p))
         /\ ToSet(Without(s, p)) = ToSet(s) \ {p}
PROOF
  <1>1. CASE p \notin ToSet(s)
    BY <1>1 DEF Without
  <1>2. CASE p \in ToSet(s)
    <2> DEFINE k == CHOOSE i \in DOMAIN s : s[i] = p
               w == RemoveAt(s, k)
    <2>1. k \in 1..Len(s) /\ s[k] = p /\ Len(s) \in Nat
      BY <1>2 DEF ToSet
    <2> HIDE DEF k
    <2>2. w \in Seq(People) /\ Len(w) = Len(s) - 1 /\ \A i \in 1..Len(w) : w[i] = IF i < k THEN s[i] ELSE s[i + 1]
      <3> DEFINE a == SubSeq(s, 1, k - 1)
                 b == SubSeq(s, k + 1, Len(s))
      <3>1. a \in Seq(People) /\ Len(a) = k - 1 /\ \A i \in 1..(k - 1) : a[i] = s[i]
        BY <2>1
      <3>2. b \in Seq(People) /\ Len(b) = Len(s) - k /\ \A i \in 1..(Len(s) - k) : b[i] = s[k + i]
        BY <2>1
      <3>3. w = a \o b
        BY DEF RemoveAt
      <3> HIDE DEF a, b, w
      <3>4. w \in Seq(People) /\ Len(w) = Len(s) - 1
        BY <2>1, <3>1, <3>2, <3>3
      <3>5. \A i \in 1..Len(w) : w[i] = IF i < k THEN a[i] ELSE b[i - (k - 1)]
        <4>1. \A i \in 1..(Len(a) + Len(b)) : (a \o b)[i] = IF i <= Len(a) THEN a[i] ELSE b[i - Len(a)]
          BY <3>1, <3>2, ConcatProperties
        <4>2. Len(w) = Len(a) + Len(b)
          BY <3>1, <3>2, <3>3
        <4> QED BY <4>1, <4>2, <2>1, <3>1, <3>3
      <3>6. ASSUME NEW i \in 1..Len(w), i >= k PROVE b[i - (k - 1)] = s[i + 1]
        <4> i - (k - 1) \in 1..(Len(s) - k) /\ k + (i - (k - 1)) = i + 1
          BY <3>6, <2>1, <3>4
        <4> QED BY <3>2
      <3> QED BY <2>1, <3>1, <3>4, <3>5, <3>6
    <2>3. Without(s, p) = w
      BY <1>2 DEF Without, k
    <2> HIDE DEF w
    <2>4. IsInjective(w)
      BY <2>1, <2>2 DEF IsInjective
    <2>5. ToSet(w) = ToSet(s) \ {p}
      <3>1. ASSUME NEW x \in ToSet(w) PROVE x \in ToSet(s) \ {p}
        BY <3>1, <2>1, <2>2 DEF ToSet, IsInjective
      <3>2. ASSUME NEW x \in ToSet(s) \ {p} PROVE x \in ToSet(w)
        <4> PICK i \in 1..Len(s) : s[i] = x
          BY DEF ToSet
        <4>1. CASE i < k
          <5> i \in 1..Len(w) /\ w[i] = x
            BY <4>1, <2>1, <2>2
          <5> QED BY DEF ToSet
        <4>2. CASE i > k
          <5> i - 1 \in 1..Len(w) /\ w[i - 1] = x
            BY <4>2, <2>1, <2>2
          <5> QED BY <2>2 DEF ToSet
        <4> QED BY <4>1, <4>2, <2>1
      <3> QED BY <3>1, <3>2
    <2> QED BY <2>2, <2>3, <2>4, <2>5
  <1> QED BY <1>1, <1>2

-----------------------------------------------------------------------------
Remember == wasStaff' = IF ~Drafted' /\ ~Published' THEN {} ELSE wasStaff \cup {p \in People : ~Final' /\ Staff(p)'}

\* TypeOK without the requests and wasStaff.
TablesOK ==
  /\ mix \in Mixes /\ phase \in {"before", "running", "ended", "final"}
  /\ draftOwner \in People \cup {Nobody} /\ owner \in People \cup {Nobody}
  /\ listed \subseteq Problems /\ inContest \subseteq Problems
  /\ setters \in Seq(People) /\ IsInjective(setters)
  /\ excluded \subseteq People /\ participants \subseteq People /\ deleted \subseteq People
  /\ token \in 0..MaxToken /\ lastToken \in 0..MaxToken
  /\ testers \in [Problems -> SUBSET People] /\ lateTesters \in [Problems -> SUBSET People]
  /\ banned \subseteq People /\ holds \subseteq People \X (1..MaxToken)

LEMMA TablesTyped ==
  ASSUME StaffIInv
  PROVE  /\ TablesOK /\ req \in [Requests -> {Idle} \cup Request] /\ wasStaff \subseteq People
         /\ Nobody \notin People /\ MaxToken \in Nat
         /\ \A m \in Mixes : m.people \subseteq People /\ m.links \in 0..MaxToken
  BY TokenAssumption, MixesAssumption DEF StaffIInv, TypeOK, TablesOK

LEMMA SetterPeople ==
  ASSUME StaffIInv
  PROVE  /\ ToSet(setters) \subseteq People
         /\ \A p \in People : Setter(p) <=> owner = p \/ (draftOwner = p /\ ~Published) \/ p \in ToSet(setters)
  BY TablesTyped DEF TablesOK, ToSet, Setter

\* Which transactions hold the row of the id.
LEMMA LocksHeld ==
  ASSUME TRUE
  PROVE  /\ \A r \in Requests : r \in Exclusive <=> req[r] # Idle /\ Alone(req[r])
         /\ CanLock => \A s \in Requests : req[s] # Idle => ~Alone(req[s]) /\ req[s].op # "join"
         /\ CanShare => \A s \in Requests : req[s] # Idle => ~Alone(req[s])
PROOF
  <1>1. \A r \in Requests : r \in Exclusive <=> req[r] # Idle /\ Alone(req[r])
    BY DEF Exclusive, Open, Alone
  <1> QED BY <1>1 DEF CanLock, CanShare, Open

\* Who was staff stays out, if no step makes a competitor of someone who is none.
LEMMA SeparateStep ==
  ASSUME StaffIInv, Remember,
         (Drafted \/ Published) /\ (Drafted' \/ Published') => \A p \in People : Competitor(p)' => Competitor(p)
  PROVE  /\ \A p \in wasStaff' : ~Competitor(p)'
         /\ wasStaff' \subseteq People
         /\ ~Published' /\ ~Drafted' => wasStaff' = {}
PROOF
  <1>1. wasStaff' \subseteq People /\ (~Published' /\ ~Drafted' => wasStaff' = {})
    BY TablesTyped DEF Remember
  <1>2. ASSUME NEW p \in wasStaff' PROVE ~Competitor(p)'
    <2>1. p \in People /\ (Drafted' \/ Published')
      BY <1>1
    <2>2. CASE p \in wasStaff
      BY <2>1, <2>2 DEF StaffIInv, IdFresh, Separate
    <2>3. CASE Staff(p)'
      BY <2>3 DEF Staff, Competitor
    <2> QED BY <2>1, <2>2, <2>3 DEF Remember
  <1> QED BY <1>1, <1>2

LEMMA ApartKept ==
  ASSUME RequestsApart, \A s \in Requests : req'[s] \in {req[s], Idle}
  PROVE  RequestsApart'
  BY DEF RequestsApart, Apart, Alone

\* A step of one request alone keeps everything, if what the request becomes fits.
LEMMA RequestStep ==
  ASSUME StaffIInv, Remember, UNCHANGED mix, NEW r \in Requests, NEW v, req' = [req EXCEPT ![r] = v],
         UNCHANGED <<phase, tables, holds, banned>>,
         v # Idle => /\ v \in Request /\ Knows(v)
                     /\ \A s \in Requests \ {r} : req[s] # Idle => Apart(v, req[s]) /\ Apart(req[s], v)
  PROVE  StaffIInv'
PROOF
  <1> USE DEF tables
  <1>1. \A s \in Requests : req'[s] = IF s = r THEN v ELSE req[s]
    BY TablesTyped
  <1>2. /\ \A p \in wasStaff' : ~Competitor(p)'
        /\ wasStaff' \subseteq People
        /\ ~Published' /\ ~Drafted' => wasStaff' = {}
    <2> \A p \in People : Competitor(p)' => Competitor(p)
      BY DEF Competitor, Setter, ProblemStaff, Published
    <2> QED BY SeparateStep
  <1>3. TypeOK'
    <2> req' \in [Requests -> {Idle} \cup Request]
      BY TablesTyped
    <2> QED BY <1>2, TablesTyped DEF TypeOK, TablesOK
  <1>4. RequestsKnow'
    <2> SUFFICES ASSUME NEW s \in Requests, req'[s] # Idle, NEW q, q = req'[s] PROVE Knows(q)'
      BY DEF RequestsKnow, Knows, Competitor, Setter, ProblemStaff, Published, Drafted
    <2>1. Knows(q)
      BY <1>1 DEF StaffIInv, RequestsKnow
    <2> QED BY <2>1 DEF Knows, Competitor, Setter, ProblemStaff, Published, Drafted
  <1>5. RequestsApart'
    BY <1>1 DEF StaffIInv, RequestsApart, Apart, Alone
  <1>6. IdFresh' /\ OwnersStay'
    BY <1>2 DEF StaffIInv, IdFresh, OwnersStay, Published, Drafted, Final
  <1>7. Separate'
    <2> \A p \in People : Staff(p)' <=> Staff(p)
      BY DEF Staff, Setter, ProblemStaff, Published
    <2> QED BY <1>2, TablesTyped DEF StaffIInv, Separate, Published, Final, TablesOK
  <1>8. LinksKept'
    BY DEF StaffIInv, LinksKept, Setter, Published
  <1> QED BY <1>3, <1>4, <1>5, <1>6, <1>7, <1>8 DEF StaffIInv

LEMMA RefuseStep ==
  ASSUME StaffIInv, Remember, UNCHANGED mix, NEW r \in Requests, Refuse(r)
  PROVE  StaffIInv'
  BY RequestStep DEF Refuse, Done

\* A request that begins.
LEMMA BeginStep ==
  ASSUME StaffIInv, Remember, UNCHANGED mix, NEW r \in Requests, NEW v, Begin(r, v), v \in Request,
         v.who \notin deleted => Knows(v),
         \A s \in Requests \ {r} : req[s] # Idle => Apart(v, req[s]) /\ Apart(req[s], v)
  PROVE  StaffIInv'
  BY RequestStep DEF Begin

\* While a request of an account may begin, its deletion has not, unless Late.
LEMMA NotDeleting ==
  ASSUME NEW p, NEW r, Late \/ ~ProfileLocked(p), NEW s \in Requests \ {r}, req[s] # Idle, ~Late, req[s].op = "delete"
  PROVE  req[s].who # p
  BY DEF ProfileLocked, Open

LEMMA CreateBeginStep ==
  ASSUME StaffIInv, Remember, UNCHANGED mix, NEW r \in Requests, NEW p \in People, NEW draft \in BOOLEAN, NEW ids \in Sets,
         CreateBegin(r, p, draft, ids)
  PROVE  StaffIInv'
PROOF
  <1> DEFINE v == [op |-> "create", who |-> p, draft |-> draft, ids |-> ids]
  <1>1. v \in Request /\ v.op = "create" /\ v.who = p /\ v.draft = draft
    BY DEF Request
  <1>2. Begin(r, v) /\ ~IdLocked /\ (IF draft THEN ~Published ELSE ~Drafted) /\ (Late \/ ~ProfileLocked(v.who))
    BY DEF CreateBegin, Begin
  <1> HIDE DEF v
  <1>3. v.who \notin deleted => Knows(v)
    BY <1>1, <1>2 DEF Knows
  <1>4. ASSUME NEW s \in Requests \ {r}, req[s] # Idle PROVE Apart(v, req[s]) /\ Apart(req[s], v)
    <2>1. req[s].op \notin {"create", "publish"}
      BY <1>2, <1>4 DEF IdLocked, Open
    <2> QED BY <1>1, <1>2, <1>4, <2>1, NotDeleting DEF Apart, Alone
  <1> QED BY <1>1, <1>2, <1>3, <1>4, BeginStep

LEMMA PublishBeginStep ==
  ASSUME StaffIInv, Remember, UNCHANGED mix, NEW r \in Requests, NEW p \in People, PublishBegin(r, p)
  PROVE  StaffIInv'
PROOF
  <1> DEFINE v == [op |-> "publish", who |-> p]
  <1>1. v \in Request /\ v.op = "publish" /\ v.who = p
    BY DEF Request
  <1>2. Begin(r, v) /\ ~IdLocked /\ Drafted /\ CanLock /\ (Late \/ ~ProfileLocked(v.who))
    BY DEF PublishBegin, Begin
  <1> HIDE DEF v
  <1>3. v.who \notin deleted => Knows(v)
    BY <1>1, <1>2 DEF Knows
  <1>4. ASSUME NEW s \in Requests \ {r}, req[s] # Idle PROVE Apart(v, req[s]) /\ Apart(req[s], v)
    <2>1. req[s].op \notin {"create", "publish"}
      BY <1>2, <1>4 DEF IdLocked, Open
    <2> QED BY <1>1, <1>2, <1>4, <2>1, NotDeleting, LocksHeld DEF Apart, Alone
  <1> QED BY <1>1, <1>2, <1>3, <1>4, BeginStep

LEMMA SaveBeginStep ==
  ASSUME StaffIInv, Remember, UNCHANGED mix, NEW r \in Requests, NEW p \in People, NEW ids \in Sets, SaveBegin(r, p, ids)
  PROVE  StaffIInv'
PROOF
  <1> DEFINE v == [op |-> "save", who |-> p, ids |-> ids]
  <1>1. v \in Request /\ v.op = "save" /\ v.who = p
    BY DEF Request
  <1>2. Begin(r, v) /\ Published /\ CanLock /\ (Late \/ ~ProfileLocked(v.who))
    BY DEF SaveBegin, Begin
  <1> HIDE DEF v
  <1>3. v.who \notin deleted => Knows(v)
    BY <1>1, <1>2 DEF Knows
  <1>4. ASSUME NEW s \in Requests \ {r}, req[s] # Idle PROVE Apart(v, req[s]) /\ Apart(req[s], v)
    BY <1>1, <1>2, <1>4, NotDeleting, LocksHeld DEF Apart, Alone
  <1> QED BY <1>1, <1>2, <1>3, <1>4, BeginStep

LEMMA AcceptBeginStep ==
  ASSUME StaffIInv, Remember, UNCHANGED mix, NEW r \in Requests, NEW p \in People, NEW t \in 1..MaxToken, AcceptBegin(r, p, t)
  PROVE  StaffIInv'
PROOF
  <1> DEFINE v == [op |-> "accept", who |-> p]
  <1>1. v \in Request /\ v.op = "accept" /\ v.who = p
    BY DEF Request
  <1>2. /\ Begin(r, v) /\ (Drafted \/ Published) /\ ~Setter(p) /\ p \notin participants /\ CanLock
        /\ Late \/ ~ProfileLocked(v.who)
    BY DEF AcceptBegin, Begin
  <1> HIDE DEF v
  <1>3. v.who \notin deleted => Knows(v)
    BY <1>1, <1>2 DEF Knows
  <1>4. ASSUME NEW s \in Requests \ {r}, req[s] # Idle PROVE Apart(v, req[s]) /\ Apart(req[s], v)
    BY <1>1, <1>2, <1>4, NotDeleting, LocksHeld DEF Apart, Alone
  <1> QED BY <1>1, <1>2, <1>3, <1>4, BeginStep

LEMMA JoinBeginStep ==
  ASSUME StaffIInv, Remember, UNCHANGED mix, NEW r \in Requests, NEW p \in People, JoinBegin(r, p)
  PROVE  StaffIInv'
PROOF
  <1> DEFINE v == [op |-> "join", who |-> p]
  <1>1. v \in Request /\ v.op = "join" /\ v.who = p
    BY DEF Request
  <1>2. Begin(r, v) /\ Published /\ Competitor(p) /\ CanShare /\ (Late \/ ~ProfileLocked(v.who))
    BY DEF JoinBegin, Begin
  <1> HIDE DEF v
  <1>3. v.who \notin deleted => Knows(v)
    BY <1>1, <1>2 DEF Knows
  <1>4. ASSUME NEW s \in Requests \ {r}, req[s] # Idle PROVE Apart(v, req[s]) /\ Apart(req[s], v)
    BY <1>1, <1>2, <1>4, NotDeleting, LocksHeld DEF Apart, Alone
  <1> QED BY <1>1, <1>2, <1>3, <1>4, BeginStep

LEMMA TesterBeginStep ==
  ASSUME StaffIInv, Remember, UNCHANGED mix, NEW r \in Requests, NEW p \in People, NEW x \in Problems, TesterBegin(r, p, x)
  PROVE  StaffIInv'
PROOF
  <1> DEFINE v == [op |-> "tester", at |-> "begun", who |-> p, problem |-> x, contest |-> x \in inContest]
  <1>1. v \in Request /\ v.op = "tester" /\ v.who = p /\ v.contest = (x \in inContest)
    BY DEF Request
  <1>2. Begin(r, v) /\ (x \in inContest => CanLock) /\ (Late \/ ~ProfileLocked(v.who))
    BY DEF TesterBegin, Begin
  <1> HIDE DEF v
  <1>3. v.who \notin deleted => Knows(v)
    BY <1>1, <1>2 DEF Knows
  <1>4. ASSUME NEW s \in Requests \ {r}, req[s] # Idle PROVE Apart(v, req[s]) /\ Apart(req[s], v)
    BY <1>1, <1>2, <1>4, NotDeleting, LocksHeld DEF Apart, Alone
  <1> QED BY <1>1, <1>2, <1>3, <1>4, BeginStep

LEMMA TesterLockStep ==
  ASSUME StaffIInv, Remember, UNCHANGED mix, NEW r \in Requests, TesterLock(r)
  PROVE  StaffIInv'
PROOF
  <1> PICK q : q = req[r]
    OBVIOUS
  <1>1. CASE Refuse(r)
    BY <1>1, RefuseStep
  <1>2. CASE ~Refuse(r)
    <2> DEFINE v == [op |-> "tester", at |-> "locked", who |-> q.who, problem |-> q.problem, contest |-> q.contest]
    <2>1. q # Idle /\ q.op = "tester" /\ req' = [req EXCEPT ![r] = v] /\ UNCHANGED <<phase, tables, holds, banned>>
      BY <1>2 DEF TesterLock, Open
    <2>2. q \in Request /\ Knows(q)
      BY <2>1, TablesTyped DEF StaffIInv, RequestsKnow
    <2>3. v \in Request /\ v.op = "tester" /\ v.who = q.who /\ v.contest = q.contest
      BY <2>1, <2>2 DEF Request
    <2> HIDE DEF v
    <2>4. Knows(v)
      BY <2>2, <2>3 DEF Knows
    <2>5. ASSUME NEW s \in Requests \ {r}, req[s] # Idle PROVE Apart(v, req[s]) /\ Apart(req[s], v)
      <3> Apart(q, req[s]) /\ Apart(req[s], q)
        BY <2>1, <2>5 DEF StaffIInv, RequestsApart
      <3> QED BY <2>1, <2>3 DEF Apart, Alone
    <2> QED BY <2>1, <2>3, <2>4, <2>5, RequestStep
  <1> QED BY <1>1, <1>2

LEMMA DeleteBeginStep ==
  ASSUME StaffIInv, Remember, UNCHANGED mix, NEW r \in Requests, NEW p \in People, DeleteBegin(r, p)
  PROVE  StaffIInv'
PROOF
  <1> DEFINE v == [op |-> "delete", at |-> "begun", who |-> p, row |-> FALSE, heir |-> Nobody]
  <1>1. v \in Request /\ v.op = "delete" /\ v.at = "begun" /\ v.who = p
    BY DEF Request
  <1>2. /\ Begin(r, v) /\ ~ProfileLocked(p)
        /\ Late \/ \A s \in Requests : req[s] # Idle => req[s].who # p
        /\ p \in ToSet(setters) => \A s \in Open("delete") : ~req[s].row
    BY DEF DeleteBegin
  <1> HIDE DEF v
  <1>3. v.who \notin deleted => Knows(v)
    BY <1>1, <1>2 DEF Knows
  <1>4. ASSUME NEW s \in Requests \ {r}, req[s] # Idle PROVE Apart(v, req[s]) /\ Apart(req[s], v)
    <2>1. req[s].op = "delete" => req[s].who # p
      BY <1>2, <1>4 DEF ProfileLocked, Open
    <2>2. req[s].op = "delete" /\ req[s].at = "handed" => req[s].heir # p
      <3> SUFFICES ASSUME req[s].op = "delete", req[s].at = "handed", req[s].heir = p PROVE FALSE
        OBVIOUS
      <3> req[s].row /\ p \in ToSet(setters)
        BY <1>4, TablesTyped DEF StaffIInv, RequestsKnow, Knows
      <3> QED BY <1>2, <1>4 DEF Open
    <2> QED BY <1>1, <1>2, <1>4, <2>1, <2>2 DEF Apart, Alone
  <1> QED BY <1>1, <1>2, <1>3, <1>4, BeginStep

\* The heir is another co-setter, and not one who is leaving.
LEMMA HandOverStep ==
  ASSUME StaffIInv, Remember, UNCHANGED mix, NEW r \in Requests, HandOver(r)
  PROVE  StaffIInv'
PROOF
  <1> PICK q : q = req[r]
    OBVIOUS
  <1> PICK owns \in BOOLEAN : owns = ((owner = q.who /\ ~Final) \/ draftOwner = q.who)
    OBVIOUS
  <1> PICK heirs : heirs = Without(setters, q.who)
    OBVIOUS
  <1> PICK heir : heir = IF owns /\ heirs # <<>> THEN Head(heirs) ELSE Nobody
    OBVIOUS
  <1> DEFINE v == [op |-> "delete", at |-> "handed", who |-> q.who, row |-> owns, heir |-> heir]
  <1>1. /\ q # Idle /\ q.op = "delete" /\ q.at = "begun" /\ req' = [req EXCEPT ![r] = v]
        /\ UNCHANGED <<phase, tables, holds, banned>>
        /\ owns => CanLock /\ \A s \in People \ {q.who} : ~SetterRowLocked(s)
    BY DEF HandOver, Open
  <1>2. q \in Request /\ q.who \in People /\ Knows(q) /\ Nobody \notin People
    BY <1>1, TablesTyped DEF StaffIInv, RequestsKnow, Request
  <1>3. heir # Nobody => owns /\ heir \in ToSet(setters) /\ heir # q.who /\ heir \in People
    <2> SUFFICES ASSUME heir # Nobody PROVE owns /\ heir \in ToSet(setters) /\ heir # q.who /\ heir \in People
      OBVIOUS
    <2>1. heirs \in Seq(People) /\ ToSet(heirs) = ToSet(setters) \ {q.who} /\ owns /\ heirs # <<>> /\ heir = Head(heirs)
      BY WithoutOne, TablesTyped DEF TablesOK
    <2>2. heir \in ToSet(heirs) /\ heir \in People
      BY <2>1 DEF ToSet
    <2> QED BY <2>1, <2>2
  <1>4. v \in Request /\ v.op = "delete" /\ v.at = "handed" /\ v.who = q.who /\ v.row = owns /\ v.heir = heir
    BY <1>2, <1>3 DEF Request
  <1> HIDE DEF v
  <1>5. Knows(v)
    BY <1>2, <1>3, <1>4 DEF Knows
  <1>6. ASSUME NEW s \in Requests \ {r}, req[s] # Idle PROVE Apart(v, req[s]) /\ Apart(req[s], v)
    <2>1. Apart(q, req[s]) /\ Apart(req[s], q)
      BY <1>1, <1>6 DEF StaffIInv, RequestsApart
    <2>2. owns => ~Alone(req[s]) /\ req[s].op # "join"
      BY <1>1, <1>6, LocksHeld
    <2>3. req[s].op = "delete" => req[s].who # heir
      <3> SUFFICES ASSUME req[s].op = "delete", req[s].who = heir PROVE FALSE
        OBVIOUS
      <3>1. heir # Nobody
        BY <1>2, <1>6, TablesTyped DEF Request
      <3>2. ~SetterRowLocked(heir) /\ heir \in ToSet(setters)
        BY <1>1, <1>3, <3>1
      <3> QED BY <3>2, <1>6 DEF SetterRowLocked, ProfileLocked, Open
    <2> QED BY <1>1, <1>4, <2>1, <2>2, <2>3 DEF Apart, Alone
  <1> QED BY <1>1, <1>4, <1>5, <1>6, RequestStep

-----------------------------------------------------------------------------
\* A step on the tables, of a request that ends with it or of none.
LEMMA TableStep ==
  ASSUME StaffIInv, Remember, req' \in [Requests -> {Idle} \cup Request], \A s \in Requests : req'[s] \in {req[s], Idle},
         TablesOK', RequestsKnow', LinksKept', OwnersStay',
         ~(Drafted' /\ Published'), ~Published' => inContest' = {} /\ participants' = {} /\ phase' = "before",
         ~Published' /\ ~Drafted' => banned' = {},
         Published' /\ ~Final' => \A p \in participants' \ deleted' : ~Staff(p)',
         (Drafted \/ Published) /\ (Drafted' \/ Published') => \A p \in People : Competitor(p)' => Competitor(p)
  PROVE  StaffIInv'
PROOF
  <1>1. /\ \A p \in wasStaff' : ~Competitor(p)'
        /\ wasStaff' \subseteq People
        /\ ~Published' /\ ~Drafted' => wasStaff' = {}
    BY SeparateStep
  <1>2. TypeOK'
    BY <1>1 DEF TypeOK, TablesOK
  <1>3. RequestsApart'
    BY ApartKept DEF StaffIInv
  <1>4. IdFresh' /\ Separate'
    BY <1>1 DEF IdFresh, Separate
  <1> QED BY <1>2, <1>3, <1>4 DEF StaffIInv

LEMMA DoneStep ==
  ASSUME StaffIInv, NEW r \in Requests, Done(r)
  PROVE  /\ req' \in [Requests -> {Idle} \cup Request]
         /\ \A s \in Requests : req'[s] = IF s = r THEN Idle ELSE req[s]
  BY TablesTyped DEF Done

\* The requests that go on still know what they knew while roles and accounts stay.
LEMMA SameRolesKnow ==
  ASSUME StaffIInv, \A s \in Requests : req'[s] \in {req[s], Idle},
         UNCHANGED <<draftOwner, owner, setters, deleted, participants>>,
         \A s \in Open("join") : req'[s] = req[s] => (Competitor(req[s].who) => Competitor(req[s].who)')
  PROVE  RequestsKnow'
PROOF
  <1> SUFFICES ASSUME NEW s \in Requests, req[s] # Idle, req'[s] = req[s], NEW q, q = req[s] PROVE Knows(q)'
    BY DEF RequestsKnow, Knows, Competitor, Setter, ProblemStaff, Published, Drafted
  <1>1. Knows(q)
    BY DEF StaffIInv, RequestsKnow
  <1>2. q.op = "join" => (Competitor(q.who) => Competitor(q.who)')
    BY DEF Open, Competitor, Setter, ProblemStaff, Published
  <1> QED BY <1>1, <1>2 DEF Knows, Setter, Published, Drafted

\* With the row of the id locked, only these go on beside it.
LEMMA OthersBeside ==
  ASSUME StaffIInv, NEW s \in Requests, req[s] # Idle, ~Alone(req[s]), req[s].op # "join"
  PROVE  /\ req[s].op \in {"create", "tester", "delete"}
         /\ req[s].op = "delete" /\ req[s].at = "handed" => req[s].heir = Nobody /\ draftOwner # req[s].who
  BY TablesTyped DEF StaffIInv, RequestsKnow, Knows, Alone, Request

LEMMA UpdateDraftStep ==
  ASSUME StaffIInv, Remember, UNCHANGED mix, NEW p \in People, NEW ids \in Sets, UpdateDraft(p, ids)
  PROVE  StaffIInv'
PROOF
  <1> USE DEF UpdateDraft
  <1>1. TablesOK'
    BY TablesTyped DEF TablesOK, Sets
  <1>2. \A y \in People : (Competitor(y)' <=> Competitor(y)) /\ (Staff(y)' <=> Staff(y))
    BY DEF Competitor, Staff, Setter, ProblemStaff, Published
  <1>3. RequestsKnow'
    <2> \A s \in Open("join") : req[s].who \in People
      BY TablesTyped DEF Open, Request
    <2> QED BY <1>2, SameRolesKnow
  <1>4. LinksKept' /\ OwnersStay'
    BY DEF StaffIInv, LinksKept, OwnersStay, Setter, Published, Final
  <1> QED BY <1>1, <1>2, <1>3, <1>4, TablesTyped, TableStep DEF StaffIInv, IdFresh, Separate, Published, Drafted, Final, TablesOK

LEMMA SetterInvitationLinkStep ==
  ASSUME StaffIInv, Remember, UNCHANGED mix, NEW p \in People, NEW renew \in BOOLEAN, SetterInvitationLink(p, renew)
  PROVE  StaffIInv'
PROOF
  <1> USE DEF SetterInvitationLink
  <1>1. /\ token' \in 1..MaxToken /\ lastToken' \in 0..MaxToken
        /\ (token' = token /\ lastToken' = lastToken) \/ (token' = lastToken + 1 /\ lastToken' = lastToken + 1)
    BY TablesTyped DEF TablesOK, Drawn
  <1>2. TablesOK'
    BY <1>1, TablesTyped DEF TablesOK
  <1>3. \A y \in People : (Competitor(y)' <=> Competitor(y)) /\ (Staff(y)' <=> Staff(y)) /\ (Setter(y)' <=> Setter(y))
    BY DEF Competitor, Staff, Setter, ProblemStaff, Published
  <1>4. RequestsKnow'
    <2> \A s \in Open("join") : req[s].who \in People
      BY TablesTyped DEF Open, Request
    <2> QED BY <1>3, SameRolesKnow
  <1>5. OwnersStay'
    BY DEF StaffIInv, OwnersStay, Published, Final
  <1>6. LinksKept'
    <2>0. token \in Nat /\ lastToken \in Nat /\ token <= lastToken /\ \A h \in holds : h[2] \in Nat /\ h[2] <= lastToken
      BY TablesTyped DEF TablesOK, StaffIInv, LinksKept
    <2>1. token' <= lastToken' /\ lastToken <= lastToken'
      BY <1>1, <2>0
    <2>2. ASSUME NEW h \in holds' PROVE h[2] <= lastToken'
      <3>1. CASE h \in holds
        BY <3>1, <1>1, <2>0
      <3>2. CASE h = <<p, token'>>
        BY <3>2, <2>1
      <3> QED BY <3>1, <3>2
    <2>3. ASSUME NEW y \in banned PROVE ~Setter(y)' /\ <<y, token'>> \notin holds'
      <3>1. ~Setter(y) /\ <<y, token>> \notin holds /\ y \in People
        BY TablesTyped DEF StaffIInv, LinksKept, TablesOK
      <3>2. y # p
        BY <3>1
      <3>3. <<y, token'>> \notin holds
        <4> SUFFICES ASSUME <<y, token'>> \in holds PROVE FALSE
          OBVIOUS
        <4> <<y, token'>>[2] <= lastToken
          BY <2>0
        <4> QED BY <1>1, <2>0, <3>1
      <3> QED BY <1>3, <3>1, <3>2, <3>3
    <2> QED BY <2>1, <2>2, <2>3 DEF LinksKept
  <1> QED BY <1>2, <1>3, <1>4, <1>5, <1>6, TablesTyped, TableStep
      DEF StaffIInv, IdFresh, Separate, Published, Drafted, Final, TablesOK

LEMMA DeleteDraftStep ==
  ASSUME StaffIInv, Remember, UNCHANGED mix, NEW p \in People, DeleteDraft(p)
  PROVE  StaffIInv'
PROOF
  <1> USE DEF DeleteDraft
  <1>1. ~Published /\ ~Drafted' /\ ~Published' /\ Drafted
    BY TablesTyped DEF StaffIInv, IdFresh, Published, Drafted
  <1>2. setters' = <<>> /\ token' = 0 /\ excluded' = {} /\ banned' = {}
    BY <1>1
  <1>3. TablesOK' /\ ToSet(setters') = {}
    BY <1>2, TablesTyped DEF TablesOK, IsInjective, ToSet
  <1>4. RequestsKnow'
    <2> SUFFICES ASSUME NEW s \in Requests, req[s] # Idle, NEW q, q = req[s] PROVE Knows(q)'
      BY DEF RequestsKnow, Knows, Competitor, Setter, ProblemStaff, Published, Drafted
    <2>1. ~Alone(q) /\ q.op # "join" /\ Knows(q) /\ q.who \in People /\ Nobody \notin People
      BY LocksHeld, TablesTyped DEF StaffIInv, RequestsKnow, Request
    <2>2. /\ q.op \in {"create", "tester", "delete"}
          /\ q.op = "delete" /\ q.at = "handed" => q.heir = Nobody
      BY <2>1, OthersBeside
    <2> QED BY <1>1, <2>1, <2>2 DEF Knows
  <1>5. LinksKept' /\ OwnersStay'
    BY <1>1, <1>2, <1>3, TablesTyped DEF StaffIInv, LinksKept, OwnersStay, TablesOK
  <1> QED BY <1>1, <1>2, <1>3, <1>4, <1>5, TablesTyped, TableStep DEF StaffIInv, IdFresh

\* Problems that leave the contest take their people out of it, those that enter
\* bring no participant in.
LEMMA SaveCommitStep ==
  ASSUME StaffIInv, Remember, UNCHANGED mix, NEW r \in Requests, SaveCommit(r)
  PROVE  StaffIInv'
PROOF
  <1> PICK q : q = req[r]
    OBVIOUS
  <1>1. CASE Refuse(r)
    BY <1>1, RefuseStep
  <1>2. CASE ~Refuse(r)
    <2>0. /\ q # Idle /\ q.op = "save" /\ Allowed(q.who, q.ids, FALSE) /\ inContest' = q.ids
          /\ excluded' = excluded \cup Seen(q.ids) /\ Done(r)
          /\ UNCHANGED <<phase, token, lastToken, testers, lateTesters, participants, deleted, holds,
                         draftOwner, owner, listed, setters, banned>>
      BY <1>2 DEF SaveCommit, Open, Unmanaged
    <2>1. q \in Request /\ q.ids \subseteq Problems /\ Knows(q) /\ Author \in [Problems -> People]
      BY <2>0, TablesTyped, AuthorAssumption DEF Request, Sets, StaffIInv, RequestsKnow
    <2>2. Published /\ Published' /\ (Final' <=> Final)
      BY <2>0, <2>1 DEF Knows, Published, Final
    <2>3. TablesOK'
      <3> Seen(q.ids) \subseteq People
        BY TablesTyped, <2>1 DEF Seen, TablesOK
      <3> QED BY <2>0, <2>1, TablesTyped DEF TablesOK
    <2>4. \A y \in People : Setter(y)' <=> Setter(y)
      BY <2>0 DEF Setter, Published
    <2>5. ASSUME NEW y \in People, ProblemStaff(y), ~ProblemStaff(y)' PROVE y \in excluded'
      <3>1. PICK x \in inContest : Author[x] = y \/ y \in testers[x]
        BY <2>5 DEF ProblemStaff
      <3>2. x \notin q.ids
        BY <2>0, <2>5, <3>1 DEF ProblemStaff
      <3>3. y \in {Author[x]} \cup testers[x] \cup lateTesters[x]
        BY <3>1
      <3> QED BY <2>0, <3>2, <3>3 DEF Seen
    <2>6. \A y \in People : Competitor(y)' => Competitor(y)
      BY <2>0, <2>4, <2>5 DEF Competitor
    <2>7. Published' /\ ~Final' => \A y \in participants' \ deleted' : ~Staff(y)'
      <3> SUFFICES ASSUME ~Final, NEW y \in participants \ deleted, ProblemStaff(y)' PROVE FALSE
        BY <2>0, <2>2, <2>4, TablesTyped DEF Staff, StaffIInv, Separate, TablesOK
      <3>1. ~Staff(y)
        BY <2>2 DEF StaffIInv, Separate
      <3>2. PICK x \in q.ids : Author[x] = y \/ y \in testers[x]
        BY <2>0 DEF ProblemStaff
      <3>3. x \notin inContest
        BY <3>1, <3>2 DEF Staff, ProblemStaff
      <3>4. Exists(x) /\ ~Manages(y, x)
        BY <2>0, <3>2, <3>3 DEF Allowed, Manages
      <3> QED BY <3>2, <3>4 DEF Manages
    <2>8. RequestsKnow'
      <3> \A s \in Open("join") : s # r /\ s \in Requests /\ req[s] # Idle /\ req[s].op = "join"
        BY <2>0 DEF Open
      <3> Open("join") = {}
        BY <2>0 DEF StaffIInv, RequestsApart, Apart, Alone
      <3> QED BY <2>0, DoneStep, SameRolesKnow
    <2>9. LinksKept' /\ OwnersStay'
      BY <2>0, <2>4, <2>2, TablesTyped DEF StaffIInv, LinksKept, OwnersStay, TablesOK
    <2> QED BY <2>0, <2>2, <2>3, <2>6, <2>7, <2>8, <2>9, DoneStep, TableStep DEF StaffIInv, IdFresh, Drafted
  <1> QED BY <1>1, <1>2

LEMMA PublishCommitStep ==
  ASSUME StaffIInv, Remember, UNCHANGED mix, NEW r \in Requests, PublishCommit(r)
  PROVE  StaffIInv'
PROOF
  <1> PICK q : q = req[r]
    OBVIOUS
  <1>1. CASE Refuse(r)
    BY <1>1, RefuseStep
  <1>2. CASE ~Refuse(r)
    <2>0. /\ q # Idle /\ q.op = "publish" /\ ~Published /\ owner' = draftOwner /\ draftOwner' = Nobody
          /\ inContest' = listed /\ listed' = {} /\ Done(r)
          /\ UNCHANGED <<phase, token, lastToken, testers, lateTesters, participants, deleted, holds, setters, excluded, banned>>
      BY <1>2 DEF PublishCommit, Open, Unmanaged
    <2>1. q \in Request /\ Knows(q)
      BY <2>0, TablesTyped DEF StaffIInv, RequestsKnow
    <2>2. Drafted /\ ~Drafted' /\ Published' /\ inContest = {} /\ participants = {}
      BY <2>0, <2>1 DEF Knows, Published, Drafted, StaffIInv, IdFresh
    <2>3. TablesOK'
      BY <2>0, TablesTyped DEF TablesOK
    <2>4. \A y \in People : Setter(y)' <=> Setter(y)
      BY <2>0, <2>2, TablesTyped DEF Setter, Published, Drafted
    <2>5. \A y \in People : Competitor(y)' => Competitor(y)
      BY <2>0, <2>2, <2>4 DEF Competitor, ProblemStaff
    <2>6. RequestsKnow'
      <3> SUFFICES ASSUME NEW s \in Requests \ {r}, req[s] # Idle, NEW y, y = req[s] PROVE Knows(y)'
        BY <2>0, DoneStep DEF RequestsKnow, Knows, Competitor, Setter, ProblemStaff, Published, Drafted
      <3>1. Apart(q, y) /\ Apart(y, q) /\ Knows(y) /\ y.who \in People /\ Nobody \notin People
        BY <2>0, TablesTyped DEF StaffIInv, RequestsApart, RequestsKnow, Request
      <3>2. ~Alone(y) /\ y.op # "join" /\ y.op # "create"
        BY <2>0, <3>1 DEF Apart, Alone
      <3>3. /\ y.op \in {"create", "tester", "delete"}
            /\ y.op = "delete" /\ y.at = "handed" => y.heir = Nobody
        BY <3>2, OthersBeside
      <3> QED BY <2>0, <3>1, <3>2, <3>3 DEF Knows
    <2>7. LinksKept' /\ OwnersStay'
      BY <2>0, <2>2, <2>4, TablesTyped DEF StaffIInv, LinksKept, OwnersStay, TablesOK
    <2> QED BY <2>0, <2>2, <2>3, <2>5, <2>6, <2>7, DoneStep, TableStep
  <1> QED BY <1>1, <1>2

LEMMA CreateCommitStep ==
  ASSUME StaffIInv, Remember, UNCHANGED mix, NEW r \in Requests, CreateCommit(r)
  PROVE  StaffIInv'
PROOF
  <1> PICK q : q = req[r]
    OBVIOUS
  <1>0. q # Idle /\ q.op = "create" /\ ~ProfileLocked(q.who)
    BY DEF CreateCommit, Open
  <1>1. q \in Request /\ Knows(q) /\ q.who \in People /\ q.ids \subseteq Problems /\ Nobody \notin People
    BY <1>0, TablesTyped DEF StaffIInv, RequestsKnow, Request, Sets
  <1>2. CASE Refuse(r)
    BY <1>2, RefuseStep
  <1>3. CASE ~Refuse(r)
    <2>0. /\ ~Drafted /\ ~Published /\ Done(r) /\ phase = phase'
          /\ \/ draftOwner' = q.who /\ listed' = q.ids /\ UNCHANGED <<owner, inContest>>
             \/ owner' = q.who /\ inContest' = q.ids /\ UNCHANGED <<draftOwner, listed>>
          /\ UNCHANGED <<token, lastToken, testers, lateTesters, participants, deleted, holds, setters, excluded, banned>>
      BY <1>0, <1>1, <1>3 DEF CreateCommit, Unmanaged, Knows
    <2>1. draftOwner = Nobody /\ owner = Nobody /\ inContest = {} /\ participants = {} /\ phase = "before" /\ banned = {}
      BY <2>0 DEF Drafted, Published, StaffIInv, IdFresh
    <2>2. TablesOK'
      BY <1>1, <2>0, TablesTyped DEF TablesOK
    <2>3. (Drafted' \/ Published') /\ ~(Drafted' /\ Published') /\ (~Published' => inContest' = {})
      BY <1>1, <2>0, <2>1 DEF Drafted, Published
    <2>4. RequestsKnow'
      <3> SUFFICES ASSUME NEW s \in Requests \ {r}, req[s] # Idle, NEW y, y = req[s] PROVE Knows(y)'
        BY <2>0, DoneStep DEF RequestsKnow, Knows, Competitor, Setter, ProblemStaff, Published, Drafted
      <3>1. Apart(q, y) /\ Knows(y) /\ y \in Request /\ y.who \in People
        BY <1>0, TablesTyped DEF StaffIInv, RequestsApart, RequestsKnow, Request
      <3>2. y.op \in {"tester", "delete"}
        BY <1>0, <2>0, <3>1 DEF Apart, Knows, Request
      <3>3. y.op = "delete" => y.who # q.who /\ (y.at = "handed" => y.heir = Nobody)
        BY <1>0, <1>1, <2>1, <3>1 DEF ProfileLocked, Open, Knows
      <3> QED BY <1>1, <2>0, <2>1, <3>1, <3>2, <3>3 DEF Knows
    <2>5. LinksKept'
      BY <2>0, <2>1 DEF StaffIInv, LinksKept
    <2>6. OwnersStay'
      <3> SUFFICES ASSUME ~Late PROVE owner' \notin deleted /\ draftOwner' \notin deleted /\ ToSet(setters) \cap deleted = {}
        BY <2>0 DEF OwnersStay
      <3> q.who \notin deleted /\ Nobody \notin deleted
        BY <1>1, TablesTyped DEF Knows, TablesOK
      <3> QED BY <2>0, <2>1 DEF StaffIInv, OwnersStay
    <2> QED BY <2>0, <2>1, <2>2, <2>3, <2>4, <2>5, <2>6, DoneStep, TableStep
  <1> QED BY <1>2, <1>3

-----------------------------------------------------------------------------
LEMMA AppendOne ==
  ASSUME NEW s \in Seq(People), IsInjective(s), NEW p \in People, p \notin ToSet(s)
  PROVE  /\ Append(s, p) \in Seq(People) /\ IsInjective(Append(s, p))
         /\ ToSet(Append(s, p)) = ToSet(s) \cup {p}
PROOF
  <1> PICK w : w = Append(s, p)
    OBVIOUS
  <1>1. w \in Seq(People) /\ Len(w) = Len(s) + 1 /\ Len(s) \in Nat
    OBVIOUS
  <1>2. \A i \in 1..Len(w) : w[i] = IF i <= Len(s) THEN s[i] ELSE p
    BY <1>1
  <1>3. \A i \in 1..Len(s) : s[i] # p
    BY DEF ToSet
  <1>4. IsInjective(w)
    BY <1>1, <1>2, <1>3 DEF IsInjective
  <1>5. \A y \in ToSet(w) : y \in ToSet(s) \cup {p}
    BY <1>1, <1>2 DEF ToSet
  <1>6. \A y \in ToSet(s) : y \in ToSet(w)
    BY <1>1, <1>2 DEF ToSet
  <1>7. p \in ToSet(w)
    <2> w[Len(w)] = p /\ Len(w) \in 1..Len(w)
      BY <1>1, <1>2
    <2> QED BY <1>1 DEF ToSet
  <1> QED BY <1>1, <1>4, <1>5, <1>6, <1>7

\* Nobody accepts a link who has registered by then, and no registration is under way.
LEMMA AcceptCommitStep ==
  ASSUME StaffIInv, Remember, UNCHANGED mix, NEW r \in Requests, AcceptCommit(r)
  PROVE  StaffIInv'
PROOF
  <1> PICK q : q = req[r]
    OBVIOUS
  <1>0. /\ q # Idle /\ q.op = "accept" /\ setters' = Append(setters, q.who) /\ banned' = banned \ {q.who} /\ Done(r)
        /\ UNCHANGED <<phase, token, lastToken, testers, lateTesters, participants, deleted, holds,
                       draftOwner, owner, listed, inContest, excluded>>
    BY DEF AcceptCommit, Open, Unmanaged
  <1>1. q.who \in People /\ Knows(q) /\ Nobody \notin People
    BY <1>0, TablesTyped DEF StaffIInv, RequestsKnow, Request
  <1>2. (Drafted \/ Published) /\ ~Setter(q.who) /\ q.who \notin participants
    BY <1>0, <1>1 DEF Knows
  <1>3. setters' \in Seq(People) /\ IsInjective(setters') /\ ToSet(setters)' = ToSet(setters) \cup {q.who}
    <2> q.who \notin ToSet(setters)
      BY <1>2 DEF Setter
    <2> QED BY <1>0, <1>1, AppendOne, TablesTyped DEF TablesOK
  <1>4. TablesOK'
    BY <1>0, <1>3, TablesTyped DEF TablesOK
  <1>5. \A y \in People : Setter(y)' <=> Setter(y) \/ y = q.who
    BY <1>0, <1>3 DEF Setter, Published
  <1>6. \A y \in People : (Competitor(y)' => Competitor(y)) /\ (Staff(y)' => Staff(y) \/ y = q.who)
    BY <1>0, <1>5 DEF Competitor, Staff, ProblemStaff
  <1>7. RequestsKnow'
    <2> SUFFICES ASSUME NEW s \in Requests \ {r}, req[s] # Idle, NEW y, y = req[s] PROVE Knows(y)'
      BY <1>0, DoneStep DEF RequestsKnow, Knows, Competitor, Setter, ProblemStaff, Published, Drafted
    <2>1. Apart(q, y) /\ Knows(y)
      BY <1>0 DEF StaffIInv, RequestsApart, RequestsKnow
    <2>2. ~Alone(y) /\ y.op # "join"
      BY <1>0, <2>1 DEF Apart, Alone
    <2>3. /\ y.op \in {"create", "tester", "delete"}
          /\ y.op = "delete" /\ y.at = "handed" => y.heir = Nobody
      BY <2>2, OthersBeside
    <2> QED BY <1>0, <2>1, <2>3 DEF Knows, Published, Drafted
  <1>8. LinksKept'
    BY <1>0, <1>5, TablesTyped DEF StaffIInv, LinksKept, TablesOK
  <1>9. OwnersStay'
    BY <1>0, <1>1, <1>3 DEF StaffIInv, OwnersStay, Published, Final, Knows
  <1>10. Published' /\ ~Final' => \A y \in participants' \ deleted' : ~Staff(y)'
    BY <1>0, <1>2, <1>6, TablesTyped DEF StaffIInv, Separate, Published, Final, TablesOK
  <1>11. /\ ~(Drafted' /\ Published')
         /\ ~Published' => inContest' = {} /\ participants' = {} /\ phase' = "before"
         /\ ~Published' /\ ~Drafted' => banned' = {}
    BY <1>0 DEF StaffIInv, IdFresh, Published, Drafted
  <1> QED BY <1>0, <1>4, <1>6, <1>7, <1>8, <1>9, <1>10, <1>11, DoneStep, TableStep

LEMMA JoinCommitStep ==
  ASSUME StaffIInv, Remember, UNCHANGED mix, NEW r \in Requests, JoinCommit(r)
  PROVE  StaffIInv'
PROOF
  <1> PICK q : q = req[r]
    OBVIOUS
  <1>0. /\ q # Idle /\ q.op = "join" /\ participants' = participants \cup {q.who} /\ Done(r)
        /\ UNCHANGED <<phase, draftOwner, owner, listed, inContest, setters, excluded, token, lastToken,
                       testers, lateTesters, deleted, holds, banned>>
    BY DEF JoinCommit, Open
  <1>1. q.who \in People /\ Published /\ Competitor(q.who)
    BY <1>0, TablesTyped DEF StaffIInv, RequestsKnow, Request, Knows
  <1>2. TablesOK'
    BY <1>0, <1>1, TablesTyped DEF TablesOK
  <1>3. \A y \in People : (Competitor(y)' <=> Competitor(y)) /\ (Staff(y)' <=> Staff(y)) /\ (Setter(y)' <=> Setter(y))
    BY <1>0 DEF Competitor, Staff, Setter, ProblemStaff, Published
  <1>4. RequestsKnow'
    <2> SUFFICES ASSUME NEW s \in Requests \ {r}, req[s] # Idle, NEW y, y = req[s] PROVE Knows(y)'
      BY <1>0, DoneStep DEF RequestsKnow, Knows, Competitor, Setter, ProblemStaff, Published, Drafted
    <2>1. Apart(y, q) /\ Knows(y) /\ y.who \in People
      BY <1>0, TablesTyped DEF StaffIInv, RequestsApart, RequestsKnow, Request
    <2>2. y.op # "accept"
      BY <1>0, <2>1 DEF Apart, Alone
    <2> QED BY <1>0, <1>3, <2>1, <2>2 DEF Knows, Published, Drafted
  <1>5. LinksKept' /\ OwnersStay'
    BY <1>0, <1>3, TablesTyped DEF StaffIInv, LinksKept, OwnersStay, TablesOK, Published, Final
  <1>6. Published' /\ ~Final' => \A y \in participants' \ deleted' : ~Staff(y)'
    <2> ~Staff(q.who)
      BY <1>1 DEF Competitor, Staff
    <2> QED BY <1>0, <1>1, <1>3, TablesTyped DEF StaffIInv, Separate, Published, Final, TablesOK
  <1>7. Published' /\ ~(Drafted' /\ Published')
    BY <1>0, <1>1 DEF StaffIInv, IdFresh, Published, Drafted
  <1> QED BY <1>0, <1>2, <1>3, <1>4, <1>5, <1>6, <1>7, DoneStep, TableStep

\* A tester of a problem in the contest is no participant, and registers with
\* nobody's help: the contest's row is locked by then.
LEMMA TesterCommitStep ==
  ASSUME StaffIInv, Remember, UNCHANGED mix, NEW r \in Requests, TesterCommit(r)
  PROVE  StaffIInv'
PROOF
  <1> PICK q : q = req[r]
    OBVIOUS
  <1>1. CASE Refuse(r)
    BY <1>1, RefuseStep
  <1>2. CASE ~Refuse(r)
    <2>0. /\ q # Idle /\ q.op = "tester" /\ Relocked(r) /\ ~Competes(r) /\ Done(r)
          /\ \/ Final /\ testers' = testers /\ lateTesters' = [lateTesters EXCEPT ![q.problem] = @ \cup {q.who}]
             \/ ~Final /\ lateTesters' = lateTesters /\ testers' = [testers EXCEPT ![q.problem] = @ \cup {q.who}]
          /\ UNCHANGED <<phase, draftOwner, owner, listed, inContest, setters, excluded, token, lastToken,
                         participants, deleted, holds, banned>>
      BY <1>2 DEF TesterCommit, Open
    <2>1. q.who \in People /\ q.problem \in Problems
      BY <2>0, TablesTyped DEF Request
    <2>2. TablesOK'
      <3> testers' \in [Problems -> SUBSET People] /\ lateTesters' \in [Problems -> SUBSET People]
        BY <2>0, <2>1, TablesTyped DEF TablesOK
      <3> QED BY <2>0, TablesTyped DEF TablesOK
    <2>3. \A y \in People : Setter(y)' <=> Setter(y)
      BY <2>0 DEF Setter, Published
    <2>4. ASSUME NEW y \in People
          PROVE  /\ ProblemStaff(y) => ProblemStaff(y)'
                 /\ ProblemStaff(y)' /\ ~ProblemStaff(y) => y = q.who /\ q.problem \in inContest /\ ~Final
      <3>1. \A x \in Problems :
              /\ y \in testers[x] => y \in testers'[x]
              /\ y \in testers'[x] /\ y \notin testers[x] => y = q.who /\ x = q.problem /\ ~Final
        BY <2>0, <2>1, TablesTyped DEF TablesOK
      <3>2. inContest \subseteq Problems /\ inContest' = inContest
        BY <2>0, TablesTyped DEF TablesOK
      <3> QED BY <3>1, <3>2 DEF ProblemStaff
    <2>5. \A y \in People : Competitor(y)' => Competitor(y)
      BY <2>0, <2>3, <2>4 DEF Competitor
    <2>6. RequestsKnow'
      <3>1. ASSUME NEW s \in Open("join"), req'[s] = req[s], Competitor(req[s].who), ~Competitor(req[s].who)' PROVE FALSE
        <4>1. s \in Requests /\ s # r /\ req[s] # Idle /\ req[s].op = "join" /\ req[s].who \in People
          BY <2>0, <3>1, TablesTyped DEF Open, Request
        <4>2. q.problem \in inContest
          BY <2>0, <2>3, <2>4, <3>1, <4>1 DEF Competitor
        <4>3. q.contest \/ CanLock
          BY <2>0, <4>2 DEF Relocked
        <4>4. ~CanLock
          BY <4>1, LocksHeld
        <4>5. Apart(q, req[s])
          BY <2>0, <4>1 DEF StaffIInv, RequestsApart
        <4> QED BY <2>0, <4>1, <4>3, <4>4, <4>5 DEF Apart, Alone
      <3> QED BY <2>0, <3>1, DoneStep, SameRolesKnow
    <2>7. LinksKept' /\ OwnersStay'
      BY <2>0, <2>3, TablesTyped DEF StaffIInv, LinksKept, OwnersStay, TablesOK, Published, Final
    <2>8. Published' /\ ~Final' => \A y \in participants' \ deleted' : ~Staff(y)'
      <3> SUFFICES ASSUME Published, ~Final, NEW y \in participants \ deleted, Staff(y)' PROVE FALSE
        BY <2>0 DEF Published, Final
      <3> y \in People /\ ~Staff(y)
        BY TablesTyped DEF StaffIInv, Separate, TablesOK
      <3> QED BY <2>0, <2>3, <2>4 DEF Staff, Competes
    <2>9. /\ ~(Drafted' /\ Published')
          /\ ~Published' => inContest' = {} /\ participants' = {} /\ phase' = "before"
          /\ ~Published' /\ ~Drafted' => banned' = {}
      BY <2>0 DEF StaffIInv, IdFresh, Published, Drafted
    <2> QED BY <2>0, <2>2, <2>5, <2>6, <2>7, <2>8, <2>9, DoneStep, TableStep
  <1> QED BY <1>1, <1>2

\* Left and removed co-setters are excluded, and a removed one's link is renewed.
LEMMA RemoveSetterStep ==
  ASSUME StaffIInv, Remember, UNCHANGED mix, NEW actor \in People, NEW p \in People, RemoveSetter(actor, p)
  PROVE  StaffIInv'
PROOF
  <1>0. /\ Drafted \/ Published
        /\ CanLock /\ p \in ToSet(setters) /\ actor \in {p, IF Published THEN owner ELSE draftOwner}
        /\ setters' = Without(setters, p) /\ excluded' = excluded \cup {p}
        /\ IF actor # p /\ token # 0 THEN Drawn ELSE UNCHANGED <<token, lastToken>>
        /\ banned' = IF actor = p THEN banned ELSE banned \cup {p}
        /\ UNCHANGED <<phase, draftOwner, owner, listed, inContest, testers, lateTesters, participants,
                       deleted, req, holds>>
    BY DEF RemoveSetter, Left
  <1>1. setters' \in Seq(People) /\ IsInjective(setters') /\ ToSet(setters)' = ToSet(setters) \ {p}
    BY <1>0, WithoutOne, TablesTyped DEF TablesOK
  <1>2. /\ token \in 0..MaxToken /\ lastToken \in 0..MaxToken /\ MaxToken \in Nat /\ token <= lastToken
        /\ \A h \in holds : h[2] \in 1..MaxToken /\ h[2] <= lastToken
    BY TablesTyped DEF TablesOK, StaffIInv, LinksKept
  <1>3. \/ token' = token /\ lastToken' = lastToken /\ (actor = p \/ token = 0)
        \/ token' = lastToken + 1 /\ lastToken' = lastToken + 1 /\ lastToken < MaxToken
    BY <1>0, <1>2, TablesTyped DEF Drawn, TablesOK
  <1>4. TablesOK'
    <2>1. token' \in 0..MaxToken /\ lastToken' \in 0..MaxToken
      BY <1>2, <1>3
    <2>2. banned' \subseteq People /\ excluded' \subseteq People
      BY <1>0, TablesTyped DEF TablesOK
    <2> QED BY <1>0, <1>1, <2>1, <2>2, TablesTyped DEF TablesOK
  <1>5. \A y \in People : (Setter(y)' => Setter(y)) /\ (Setter(y) /\ y # p => Setter(y)')
    BY <1>0, <1>1 DEF Setter, Published
  <1>6. \A y \in People : (Competitor(y)' => Competitor(y)) /\ (Staff(y)' => Staff(y))
    BY <1>0, <1>5 DEF Competitor, Staff, ProblemStaff
  <1>7. RequestsKnow'
    <2> SUFFICES ASSUME NEW s \in Requests, req[s] # Idle, NEW y, y = req[s] PROVE Knows(y)'
      BY <1>0 DEF RequestsKnow, Knows, Competitor, Setter, ProblemStaff, Published, Drafted
    <2>1. Knows(y) /\ ~Alone(y) /\ y.op # "join"
      BY <1>0, LocksHeld DEF StaffIInv, RequestsKnow
    <2>2. /\ y.op \in {"create", "tester", "delete"}
          /\ y.op = "delete" /\ y.at = "handed" => y.heir = Nobody
      BY <2>1, OthersBeside
    <2> QED BY <1>0, <2>1, <2>2 DEF Knows, Published, Drafted
  <1>8. LinksKept'
    <2>1. token' <= lastToken' /\ \A h \in holds : h[2] <= lastToken'
      BY <1>2, <1>3
    <2>2. ASSUME NEW y \in banned' PROVE ~Setter(y)' /\ <<y, token'>> \notin holds
      <3>1. y \in People
        BY <1>4 DEF TablesOK
      <3>2. token' # token => <<y, token'>> \notin holds
        <4> SUFFICES ASSUME token' # token, <<y, token'>> \in holds PROVE FALSE
          OBVIOUS
        <4> <<y, token'>>[2] <= lastToken
          BY <1>2
        <4> QED BY <1>2, <1>3
      <3>3. CASE y \in banned
        BY <3>1, <3>2, <3>3, <1>5 DEF StaffIInv, LinksKept
      <3>4. CASE actor # p /\ y = p
        <4>1. token' = token => token = 0
          BY <1>2, <1>3, <3>4
        <4>2. token = 0 => <<y, token>> \notin holds
          <5> SUFFICES ASSUME token = 0, <<y, token>> \in holds PROVE FALSE
            OBVIOUS
          <5> <<y, token>>[2] \in 1..MaxToken
            BY <1>2
          <5> QED BY <1>2
        <4>3. ~Setter(y)'
          BY <1>0, <1>1, <3>1, <3>4, TablesTyped DEF Setter, Published
        <4> QED BY <3>2, <4>1, <4>2, <4>3
      <3> QED BY <1>0, <3>3, <3>4
    <2> QED BY <1>0, <2>1, <2>2 DEF LinksKept
  <1>9. OwnersStay'
    BY <1>0, <1>1 DEF StaffIInv, OwnersStay, Published, Final
  <1>10. Published' /\ ~Final' => \A y \in participants' \ deleted' : ~Staff(y)'
    BY <1>0, <1>6, TablesTyped DEF StaffIInv, Separate, Published, Final, TablesOK
  <1>11. /\ ~(Drafted' /\ Published')
         /\ ~Published' => inContest' = {} /\ participants' = {} /\ phase' = "before"
         /\ Published' \/ Drafted'
    BY <1>0 DEF StaffIInv, IdFresh, Published, Drafted
  <1> QED BY <1>0, <1>4, <1>6, <1>7, <1>8, <1>9, <1>10, <1>11, TablesTyped, TableStep

LEMMA TickStep ==
  ASSUME StaffIInv, Remember, UNCHANGED mix, Tick
  PROVE  StaffIInv'
PROOF
  <1>0. Published /\ ~Final /\ phase' \in {"before", "running", "ended", "final"} /\ UNCHANGED <<tables, req, holds, banned>>
    BY TablesTyped DEF Tick, TablesOK, Final
  <1> USE DEF tables
  <1>1. TablesOK'
    BY <1>0, TablesTyped DEF TablesOK
  <1>2. \A y \in People : (Competitor(y)' <=> Competitor(y)) /\ (Staff(y)' <=> Staff(y)) /\ (Setter(y)' <=> Setter(y))
    BY <1>0 DEF Competitor, Staff, Setter, ProblemStaff, Published
  <1>3. RequestsKnow'
    <2> \A s \in Open("join") : req[s].who \in People
      BY TablesTyped DEF Open, Request
    <2> QED BY <1>0, <1>2, SameRolesKnow
  <1>4. LinksKept' /\ OwnersStay'
    BY <1>0, <1>2, TablesTyped DEF StaffIInv, LinksKept, OwnersStay, TablesOK, Published
  <1>5. Published' /\ ~Final' => \A y \in participants' \ deleted' : ~Staff(y)'
    BY <1>0, <1>2, TablesTyped DEF StaffIInv, Separate, TablesOK
  <1>6. Published' /\ ~(Drafted' /\ Published')
    BY <1>0 DEF StaffIInv, IdFresh, Published, Drafted
  <1> QED BY <1>0, <1>1, <1>2, <1>3, <1>4, <1>5, <1>6, TablesTyped, TableStep

-----------------------------------------------------------------------------
\* The deletion of an account that is not refused: q and how it hands over.
Deletes(r, q) ==
  /\ q = req[r] /\ q # Idle /\ q.op = "delete" /\ q.at = "handed" /\ Done(r)
  /\ ~(owner = q.who /\ ~Final /\ q.heir = Nobody)
  /\ draftOwner' = IF draftOwner = q.who THEN q.heir ELSE draftOwner
  /\ owner' = IF owner = q.who /\ q.heir # Nobody THEN q.heir ELSE owner
  /\ participants' = IF phase = "before" THEN participants \ {q.who} ELSE participants
  /\ deleted' = deleted \cup {q.who}
  /\ UNCHANGED <<phase, inContest, lastToken, testers, lateTesters, holds>>
DraftGoes(q) ==
  /\ draftOwner = q.who /\ q.heir = Nobody
  /\ setters' = <<>> /\ excluded' = {} /\ listed' = {} /\ banned' = {} /\ token' = 0
DraftStays(q) ==
  /\ ~(draftOwner = q.who /\ q.heir = Nobody)
  /\ setters' = Without(Without(setters, q.who), q.heir)
  /\ excluded' = excluded \cup (IF q.who \in ToSet(setters) \/ q.heir # Nobody THEN {q.who} ELSE {})
  /\ UNCHANGED <<listed, banned, token>>

LEMMA DeleteCases ==
  ASSUME NEW r, DeleteCommit(r), ~Refuse(r), NEW q, q = req[r]
  PROVE  Deletes(r, q) /\ (DraftGoes(q) \/ DraftStays(q))
PROOF
  <1>1. Deletes(r, q)
    BY DEF DeleteCommit, Deletes, Open
  <1>2. CASE draftOwner = q.who /\ q.heir = Nobody
    BY <1>1, <1>2 DEF DeleteCommit, DraftGoes
  <1>3. CASE ~(draftOwner = q.who /\ q.heir = Nobody)
    BY <1>1, <1>3 DEF DeleteCommit, DraftStays
  <1> QED BY <1>1, <1>2, <1>3

LEMMA DeleteTyped ==
  ASSUME StaffIInv, NEW r \in Requests, NEW q, Deletes(r, q)
  PROVE  /\ q \in Request /\ q.who \in People /\ Knows(q) /\ Nobody \notin People /\ q.heir \in People \cup {Nobody}
         /\ q.heir # Nobody => q.row /\ q.heir \in ToSet(setters) /\ q.heir # q.who
                               /\ (owner = q.who \/ draftOwner = q.who)
         /\ draftOwner' \in People \cup {Nobody} /\ owner' \in People \cup {Nobody}
         /\ participants' \subseteq participants /\ deleted' \subseteq People
         /\ \A s \in Requests \ {r} : req[s] # Idle => Apart(q, req[s]) /\ Apart(req[s], q)
PROOF
  <1> USE DEF Deletes
  <1>1. q \in Request /\ q.who \in People /\ q.heir \in People \cup {Nobody} /\ Nobody \notin People
    BY TablesTyped DEF Request
  <1>2. Knows(q)
    BY DEF StaffIInv, RequestsKnow
  <1>3. draftOwner' \in People \cup {Nobody} /\ owner' \in People \cup {Nobody} /\ deleted' \subseteq People
    BY <1>1, TablesTyped DEF TablesOK
  <1>4. \A s \in Requests \ {r} : req[s] # Idle => Apart(q, req[s]) /\ Apart(req[s], q)
    BY DEF StaffIInv, RequestsApart
  <1> QED BY <1>1, <1>2, <1>3, <1>4 DEF Knows

\* A draft without an heir goes with all that shares its id.
LEMMA DraftGoesStep ==
  ASSUME StaffIInv, Remember, UNCHANGED mix, NEW r \in Requests, NEW q, Deletes(r, q), DraftGoes(q)
  PROVE  StaffIInv'
PROOF
  <1>0. /\ q # Idle /\ q.op = "delete" /\ q.at = "handed" /\ draftOwner = q.who /\ q.heir = Nobody
        /\ Done(r) /\ draftOwner' = Nobody /\ owner' = owner /\ listed' = {} /\ inContest' = inContest
        /\ setters' = <<>> /\ excluded' = {} /\ banned' = {} /\ token' = 0 /\ deleted' = deleted \cup {q.who}
        /\ UNCHANGED <<phase, lastToken, testers, lateTesters, holds>>
    BY DEF Deletes, DraftGoes
  <1>1. q.who \in People /\ Nobody \notin People /\ participants' \subseteq participants /\ deleted' \subseteq People /\ Knows(q)
    BY DeleteTyped
  <1>2. q.row /\ Alone(q)
    BY <1>0, <1>1 DEF Knows, Alone
  <1>3. ~Published /\ ~Published' /\ ~Drafted' /\ inContest = {} /\ participants = {} /\ phase = "before"
    BY <1>0, <1>1 DEF StaffIInv, IdFresh, Published, Drafted
  <1>4. TablesOK' /\ ToSet(setters') = {}
    BY <1>0, <1>1, <1>3, TablesTyped DEF TablesOK, IsInjective, ToSet
  <1>5. RequestsKnow'
    <2> SUFFICES ASSUME NEW s \in Requests \ {r}, req[s] # Idle, NEW y, y = req[s] PROVE Knows(y)'
      BY <1>0, DoneStep DEF RequestsKnow, Knows, Competitor, Setter, ProblemStaff, Published, Drafted
    <2>1. Apart(q, y) /\ Knows(y) /\ y.who \in People
      BY DeleteTyped, TablesTyped DEF StaffIInv, RequestsKnow, Request
    <2>2. ~Alone(y) /\ y.op # "join"
      BY <1>2, <2>1 DEF Apart
    <2>3. /\ y.op \in {"create", "tester", "delete"}
          /\ y.op = "delete" /\ y.at = "handed" => y.heir = Nobody
      BY <2>2, OthersBeside
    <2>4. ~Late => y.who \notin deleted'
      BY <1>0, <2>1 DEF Apart, Knows
    <2> QED BY <1>0, <1>1, <1>3, <2>1, <2>3, <2>4 DEF Knows
  <1>6. LinksKept' /\ OwnersStay'
    <2> 0 <= lastToken /\ Nobody \notin deleted'
      BY <1>1, TablesTyped DEF TablesOK
    <2> QED BY <1>0, <1>3, <1>4 DEF StaffIInv, LinksKept, OwnersStay
  <1> QED BY <1>0, <1>1, <1>3, <1>4, <1>5, <1>6, DoneStep, TableStep

\* Otherwise the heir takes the account's place, and the account is excluded.
LEMMA HeirTakesOver ==
  ASSUME StaffIInv, NEW r \in Requests, NEW q, Deletes(r, q), DraftStays(q)
  PROVE  /\ setters' \in Seq(People) /\ IsInjective(setters') /\ ToSet(setters)' = ToSet(setters) \ {q.who, q.heir}
         /\ (Drafted' <=> Drafted) /\ (Published' <=> Published) /\ (Final' <=> Final)
         /\ \A y \in People :
              /\ (Setter(y)' => Setter(y)) /\ (ProblemStaff(y)' <=> ProblemStaff(y))
              /\ (Competitor(y)' => Competitor(y)) /\ (Staff(y)' => Staff(y))
         /\ Published => \A y \in People : Competitor(y) => Competitor(y)'
PROOF
  <1>0. /\ q.who \in People /\ Nobody \notin People /\ participants' \subseteq participants /\ deleted' \subseteq People
        /\ Knows(q) /\ q.heir \in People \cup {Nobody}
        /\ q.heir # Nobody => q.row /\ q.heir \in ToSet(setters) /\ q.heir # q.who /\ (owner = q.who \/ draftOwner = q.who)
        /\ draftOwner' \in People \cup {Nobody} /\ owner' \in People \cup {Nobody}
    BY DeleteTyped
  <1>1. setters' \in Seq(People) /\ IsInjective(setters') /\ ToSet(setters)' = ToSet(setters) \ {q.who, q.heir}
    <2> PICK w : w = Without(setters, q.who)
      OBVIOUS
    <2>1. w \in Seq(People) /\ IsInjective(w) /\ ToSet(w) = ToSet(setters) \ {q.who}
      BY WithoutOne, TablesTyped DEF TablesOK
    <2>2. setters' = Without(w, q.heir)
      BY DEF DraftStays
    <2>3. Without(w, q.heir) \in Seq(People) /\ IsInjective(Without(w, q.heir)) /\ ToSet(Without(w, q.heir)) = ToSet(w) \ {q.heir}
      BY <2>1, WithoutOne
    <2> QED BY <2>1, <2>2, <2>3
  <1>3. (Drafted' <=> Drafted) /\ (Published' <=> Published) /\ (Final' <=> Final)
    BY <1>0 DEF Deletes, DraftStays, Drafted, Published, Final
  <1>4. ~(Drafted /\ Published)
    BY DEF StaffIInv, IdFresh
  <1>5. ASSUME NEW y \in People
        PROVE  /\ Setter(y)' => Setter(y)
               /\ Setter(y) /\ ~Setter(y)' => y = q.who /\ y \in excluded'
    <2>1. Setter(y)' <=> owner' = y \/ (draftOwner' = y /\ ~Published') \/ y \in ToSet(setters)'
      BY DEF Setter
    <2>2. Setter(y)' => Setter(y)
      BY <1>0, <1>1, <1>3, <2>1 DEF Setter, Deletes
    <2>3. Setter(y) /\ y # q.who => Setter(y)'
      BY <1>0, <1>1, <1>3, <1>4, <2>1 DEF Setter, Deletes, Drafted
    <2>4. Setter(q.who) /\ ~Setter(q.who)' => q.who \in ToSet(setters) \/ q.heir # Nobody
      BY <1>0, <1>3 DEF Setter, Deletes, DraftStays
    <2> QED BY <2>2, <2>3, <2>4 DEF DraftStays
  <1>6. \A y \in People : (ProblemStaff(y)' <=> ProblemStaff(y)) /\ (y \in excluded => y \in excluded')
    BY DEF ProblemStaff, Deletes, DraftStays
  <1>7. \A y \in People : (Competitor(y)' => Competitor(y)) /\ (Staff(y)' => Staff(y))
    BY <1>5, <1>6 DEF Competitor, Staff
  <1>8. ASSUME Published, NEW y \in People, Competitor(y) PROVE Competitor(y)'
    <2>1. y \notin excluded'
      BY <1>0, <1>4, <1>8 DEF Competitor, Setter, DraftStays, Drafted
    <2> QED BY <1>5, <1>6, <1>8, <2>1 DEF Competitor
  <1> QED BY <1>1, <1>3, <1>5, <1>6, <1>7, <1>8

LEMMA DraftStaysStep ==
  ASSUME StaffIInv, Remember, UNCHANGED mix, NEW r \in Requests, NEW q, Deletes(r, q), DraftStays(q)
  PROVE  StaffIInv'
PROOF
  <1>0. /\ q.who \in People /\ Nobody \notin People /\ participants' \subseteq participants /\ deleted' \subseteq People
        /\ Knows(q) /\ q.heir \in People \cup {Nobody}
        /\ q.heir # Nobody => q.row /\ q.heir \in ToSet(setters) /\ q.heir # q.who /\ (owner = q.who \/ draftOwner = q.who)
        /\ draftOwner' \in People \cup {Nobody} /\ owner' \in People \cup {Nobody}
    BY DeleteTyped
  <1>1. setters' \in Seq(People) /\ IsInjective(setters') /\ ToSet(setters)' = ToSet(setters) \ {q.who, q.heir}
    BY HeirTakesOver
  <1>2. TablesOK'
    <2> excluded' \subseteq People
      BY <1>0, TablesTyped DEF DraftStays, TablesOK
    <2> QED BY <1>0, <1>1, TablesTyped DEF TablesOK, Deletes, DraftStays
  <1>3. (Drafted' <=> Drafted) /\ (Published' <=> Published) /\ (Final' <=> Final)
    BY HeirTakesOver
  <1>4. ~(Drafted /\ Published)
    BY DEF StaffIInv, IdFresh
  <1>5. \A y \in People : (Setter(y)' => Setter(y)) /\ (Competitor(y)' => Competitor(y)) /\ (Staff(y)' => Staff(y))
    BY HeirTakesOver
  <1>8. RequestsKnow'
    <2> SUFFICES ASSUME NEW s \in Requests \ {r}, req[s] # Idle, NEW y, y = req[s] PROVE Knows(y)'
      BY DoneStep DEF RequestsKnow, Knows, Competitor, Setter, ProblemStaff, Published, Drafted, Deletes
    <2>1. Apart(q, y) /\ Apart(y, q) /\ Knows(y) /\ y.who \in People /\ q.op = "delete" /\ q.at = "handed"
      BY DeleteTyped, TablesTyped DEF StaffIInv, RequestsKnow, Request, Deletes
    <2>2. ~Late => y.who \notin deleted'
      BY <2>1 DEF Apart, Knows, Deletes
    <2>3. ASSUME y.op = "join" PROVE Published' /\ Competitor(y.who)'
      <3>1. Published /\ Competitor(y.who)
        BY <2>1, <2>3 DEF Knows
      <3> QED BY <1>3, <2>1, <3>1, HeirTakesOver
    <2>4. ASSUME y.op = "accept" PROVE (Drafted' \/ Published') /\ ~Setter(y.who)' /\ y.who \notin participants'
      BY <1>0, <1>3, <1>5, <2>1, <2>4 DEF Knows
    <2>5. ASSUME y.op = "delete", y.at = "handed"
          PROVE  /\ ~y.row => draftOwner' # y.who
                 /\ y.heir # Nobody => /\ y.row /\ y.heir \in ToSet(setters') /\ y.heir # y.who
                                       /\ owner' = y.who \/ draftOwner' = y.who
      <3>1. y.who # q.who /\ y.who # q.heir /\ q.who # y.heir
        BY <2>1, <2>5 DEF Apart
      <3>2. ~y.row => draftOwner' # y.who
        BY <2>1, <2>5, <3>1 DEF Knows, Deletes
      <3>3. y.heir # Nobody => q.heir = Nobody
        BY <1>0, <2>1, <2>5 DEF Apart, Knows, Alone
      <3> QED BY <1>1, <2>1, <2>5, <3>1, <3>2, <3>3 DEF Knows, Deletes
    <2> QED BY <1>3, <2>1, <2>2, <2>3, <2>4, <2>5 DEF Knows
  <1>9. LinksKept'
    BY <1>5, TablesTyped DEF StaffIInv, LinksKept, Deletes, DraftStays, TablesOK
  <1>10. OwnersStay'
    <2> SUFFICES ASSUME ~Late
                 PROVE  /\ Published' /\ ~Final' => owner' \notin deleted'
                        /\ draftOwner' \notin deleted' /\ ToSet(setters)' \cap deleted' = {}
      BY DEF OwnersStay
    <2>1. /\ deleted' = deleted \cup {q.who} /\ Nobody \notin deleted /\ draftOwner \notin deleted
          /\ ToSet(setters) \cap deleted = {} /\ (Published /\ ~Final => owner \notin deleted)
      BY TablesTyped DEF Deletes, StaffIInv, OwnersStay, TablesOK
    <2>2. q.heir # Nobody => q.heir \notin deleted'
      BY <1>0, <2>1
    <2>3. Published' /\ ~Final' => owner' \notin deleted'
      BY <1>0, <1>3, <2>1, <2>2 DEF Deletes
    <2>4. draftOwner' \notin deleted'
      BY <1>0, <2>1, <2>2 DEF Deletes
    <2>5. ToSet(setters)' \cap deleted' = {}
      BY <1>1, <2>1
    <2> QED BY <2>3, <2>4, <2>5
  <1>11. Published' /\ ~Final' => \A y \in participants' \ deleted' : ~Staff(y)'
    <2> SUFFICES ASSUME Published, ~Final, NEW y \in participants' \ deleted', Staff(y)' PROVE FALSE
      BY <1>3
    <2> y \in participants \ deleted /\ y \in People
      BY <1>0, TablesTyped DEF Deletes, TablesOK
    <2> QED BY <1>5 DEF StaffIInv, Separate
  <1>12. /\ ~(Drafted' /\ Published')
         /\ ~Published' => inContest' = {} /\ participants' = {} /\ phase' = "before"
         /\ ~Published' /\ ~Drafted' => banned' = {}
    BY <1>0, <1>3, <1>4 DEF StaffIInv, IdFresh, Deletes, DraftStays
  <1>13. Done(r)
    BY DEF Deletes
  <1> QED BY <1>2, <1>5, <1>8, <1>9, <1>10, <1>11, <1>12, <1>13, DoneStep, TableStep

LEMMA DeleteCommitStep ==
  ASSUME StaffIInv, Remember, UNCHANGED mix, NEW r \in Requests, DeleteCommit(r)
  PROVE  StaffIInv'
PROOF
  <1> PICK q : q = req[r]
    OBVIOUS
  <1>1. CASE Refuse(r)
    BY <1>1, RefuseStep
  <1>2. CASE ~Refuse(r)
    BY <1>2, DeleteCases, DraftGoesStep, DraftStaysStep
  <1> QED BY <1>1, <1>2

-----------------------------------------------------------------------------
LEMMA StaffInit == Init => StaffIInv
PROOF
  <1> SUFFICES ASSUME Init PROVE StaffIInv
    OBVIOUS
  <1> USE DEF Init
  <1>1. ToSet(setters) = {} /\ IsInjective(setters) /\ setters \in Seq(People)
    BY DEF ToSet, IsInjective
  <1>2. TypeOK
    BY <1>1, TokenAssumption DEF TypeOK
  <1>3. RequestsKnow /\ RequestsApart
    BY DEF RequestsKnow, RequestsApart
  <1>4. IdFresh /\ Separate /\ LinksKept /\ OwnersStay
    BY <1>1 DEF IdFresh, Separate, LinksKept, OwnersStay, Drafted, Published
  <1> QED BY <1>2, <1>3, <1>4 DEF StaffIInv

LEMMA StaffNext == StaffIInv /\ [Next]_vars => StaffIInv'
PROOF
  <1> SUFFICES ASSUME StaffIInv, [Next]_vars PROVE StaffIInv'
    OBVIOUS
  <1>1. CASE UNCHANGED vars
    BY <1>1 DEF vars, tables, history, StaffIInv, TypeOK, Kinds, Request, RequestsKnow, Knows, RequestsApart, Apart, Alone,
                IdFresh, Separate, LinksKept, OwnersStay, Competitor, Staff, Setter, ProblemStaff, Published, Drafted, Final
  <1>2. CASE Next
    <2>0. Step /\ Remember /\ UNCHANGED mix
      BY <1>2 DEF Next, Remember
    <2>1. CASE DraftStep
      BY <2>0, <2>1, CreateBeginStep, CreateCommitStep, PublishBeginStep, PublishCommitStep, DeleteDraftStep, UpdateDraftStep
         DEF DraftStep
    <2>2. CASE SetterStep
      BY <2>0, <2>2, SaveBeginStep, SaveCommitStep, AcceptBeginStep, AcceptCommitStep, RemoveSetterStep, SetterInvitationLinkStep
         DEF SetterStep
    <2>3. CASE AccountStep
      BY <2>0, <2>3, TesterBeginStep, TesterLockStep, TesterCommitStep, JoinBeginStep, JoinCommitStep, DeleteBeginStep,
         HandOverStep, DeleteCommitStep DEF AccountStep
    <2>4. CASE Tick
      BY <2>0, <2>4, TickStep
    <2>5. CASE \E r \in Requests : Abort(r)
      BY <2>0, <2>5, RefuseStep DEF Abort
    <2> QED BY <2>0, <2>1, <2>2, <2>3, <2>4, <2>5 DEF Step
  <1> QED BY <1>1, <1>2

\* Every part of StaffIInv holds in every behaviour.
THEOREM StaffInvariance == Spec => []StaffIInv
  BY StaffInit, StaffNext, PTL DEF Spec

\* The tables, the open requests and the histories keep their types.
THEOREM StaffIsTyped == Spec => []TypeOK
PROOF
  <1>1. StaffIInv => TypeOK
    BY DEF StaffIInv
  <1> QED BY <1>1, StaffInvariance, PTL

\* No registered account is staff before the results are final, and whoever was
\* staff by then never competes: contestrole's reads under the contest's lock, and
\* the exclusions of leave, saveProblems and handOver.
THEOREM StaffNeverCompete == Spec => []StaffDoNotCompete
PROOF
  <1>1. StaffIInv => StaffDoNotCompete
    BY DEF StaffIInv, Separate, StaffDoNotCompete
  <1> QED BY <1>1, StaffInvariance, PTL

\* A removed co-setter holds no link that works: RemoveSetter renews the link it
\* would still know, SetterInvitationLink shows a link to setters alone.
THEOREM RemovedNeverHoldTheLink == Spec => []RemovedHoldNoLink
PROOF
  <1>1. StaffIInv => RemovedHoldNoLink
    BY DEF StaffIInv, LinksKept, RemovedHoldNoLink
  <1> QED BY <1>1, StaffInvariance, PTL

\* Draft and contest never share the id, whoever sends requests when.
THEOREM NeverBothRows == Spec => []~(Drafted /\ Published)
PROOF
  <1>1. StaffIInv => ~(Drafted /\ Published)
    BY DEF StaffIInv, IdFresh
  <1> QED BY <1>1, StaffInvariance, PTL

\* And without requests that outlive their account's deletion, a contest whose
\* results are not final has an owner with an account: handOver and Delete's refusal.
THEOREM AlwaysOneOwnedRow == ~Late => (Spec => []OneOwnedRow)
PROOF
  <1> SUFFICES ASSUME ~Late PROVE Spec => []OneOwnedRow
    OBVIOUS
  <1>1. StaffIInv => OneOwnedRow
    BY DEF StaffIInv, IdFresh, OwnersStay, OneOwnedRow
  <1> QED BY <1>1, StaffInvariance, PTL

-----------------------------------------------------------------------------
SameRoles == \A p \in participants : Competitor(p)' <=> Competitor(p)

LEMMA TablesStay ==
  ASSUME UNCHANGED tables
  PROVE  SameRoles
  BY DEF tables, SameRoles, Competitor, Setter, ProblemStaff, Published

\* Once the results are final there is a contest and no draft; the steps that
\* enter or take problems, and those of the draft, are refused.
LEMMA FinalStep ==
  ASSUME StaffIInv, Next, Final
  PROVE  SameRoles
PROOF
  <1>1. Published /\ ~Drafted /\ phase # "before" /\ participants \subseteq People /\ Nobody \notin People
    BY TablesTyped DEF StaffIInv, IdFresh, Final, TablesOK
  <1>2. ASSUME NEW r \in Requests, Refuse(r) PROVE SameRoles
    BY <1>2, TablesStay DEF Refuse
  <1>3. ASSUME NEW r \in Requests, NEW v, Begin(r, v) PROVE SameRoles
    BY <1>3, TablesStay DEF Begin
  <1>4. CASE DraftStep
    <2>1. ASSUME NEW r \in Requests, CreateCommit(r) PROVE SameRoles
      <3>1. Knows(req[r]) /\ req[r].op = "create"
        BY <2>1 DEF CreateCommit, Open, StaffIInv, RequestsKnow
      <3> QED BY <1>1, <1>2, <2>1, <3>1 DEF CreateCommit, Knows
    <2>2. ASSUME NEW r \in Requests, PublishCommit(r) PROVE SameRoles
      BY <1>1, <1>2, <2>2 DEF PublishCommit
    <2>3. ~\E p \in People : DeleteDraft(p) \/ \E ids \in Sets : UpdateDraft(p, ids)
      BY <1>1 DEF DeleteDraft, UpdateDraft, Drafted
    <2>4. ASSUME NEW r \in Requests, NEW p \in People,
                 PublishBegin(r, p) \/ \E draft \in BOOLEAN, ids \in Sets : CreateBegin(r, p, draft, ids)
          PROVE  SameRoles
      BY <1>3, <2>4 DEF PublishBegin, CreateBegin
    <2> QED BY <1>4, <2>1, <2>2, <2>3, <2>4 DEF DraftStep
  <1>5. CASE SetterStep
    <2>1. ASSUME NEW r \in Requests, SaveCommit(r) PROVE SameRoles
      BY <1>1, <1>2, <2>1 DEF SaveCommit
    <2>2. ASSUME NEW r \in Requests, AcceptCommit(r) PROVE SameRoles
      <3> PICK q : q = req[r]
        OBVIOUS
      <3>1. /\ q # Idle /\ q.op = "accept" /\ setters' = Append(setters, q.who)
            /\ UNCHANGED <<testers, draftOwner, owner, inContest, excluded>>
        BY <2>2 DEF AcceptCommit, Open, Unmanaged
      <3>2. Knows(q) /\ q.who \in People
        BY <3>1, TablesTyped DEF StaffIInv, RequestsKnow, Request
      <3>3. q.who \notin ToSet(setters) /\ q.who \notin participants
        BY <3>1, <3>2 DEF Knows, Setter
      <3>4. ToSet(setters)' = ToSet(setters) \cup {q.who}
        BY <3>1, <3>2, <3>3, AppendOne, TablesTyped DEF TablesOK
      <3> QED BY <3>1, <3>3, <3>4 DEF SameRoles, Competitor, Setter, ProblemStaff, Published
    <2>3. ASSUME NEW p \in People, NEW q \in People, RemoveSetter(p, q) PROVE SameRoles
      <3>1. /\ q \in ToSet(setters) /\ setters' = Without(setters, q) /\ excluded' = excluded \cup {q}
            /\ UNCHANGED <<testers, draftOwner, owner, inContest>>
        BY <2>3 DEF RemoveSetter, Left
      <3>2. ToSet(setters)' = ToSet(setters) \ {q}
        BY <3>1, WithoutOne, TablesTyped DEF TablesOK
      <3> QED BY <3>1, <3>2 DEF SameRoles, Competitor, Setter, ProblemStaff, Published
    <2>4. ~\E p \in People, renew \in BOOLEAN : SetterInvitationLink(p, renew)
      BY DEF SetterInvitationLink
    <2>5. ASSUME NEW r \in Requests, NEW p \in People,
                 (\E ids \in Sets : SaveBegin(r, p, ids)) \/ \E t \in 1..MaxToken : AcceptBegin(r, p, t)
          PROVE  SameRoles
      BY <1>3, <2>5 DEF SaveBegin, AcceptBegin
    <2> QED BY <1>5, <2>1, <2>2, <2>3, <2>4, <2>5 DEF SetterStep
  <1>6. CASE AccountStep
    <2>1. ASSUME NEW r \in Requests, TesterLock(r) \/ HandOver(r) PROVE SameRoles
      <3> UNCHANGED tables
        BY <2>1 DEF TesterLock, HandOver, Refuse
      <3> QED BY TablesStay
    <2>2. ASSUME NEW r \in Requests, TesterCommit(r) PROVE SameRoles
      <3>1. CASE Refuse(r)
        BY <1>2, <3>1
      <3>2. CASE ~Refuse(r)
        <4> UNCHANGED <<draftOwner, owner, inContest, setters, excluded, testers>>
          BY <2>2, <3>2 DEF TesterCommit
        <4> QED BY DEF SameRoles, Competitor, Setter, ProblemStaff, Published
      <3> QED BY <3>1, <3>2
    <2>3. ASSUME NEW r \in Requests, JoinCommit(r) PROVE SameRoles
      <3> UNCHANGED <<draftOwner, owner, inContest, setters, excluded, testers>>
        BY <2>3 DEF JoinCommit
      <3> QED BY DEF SameRoles, Competitor, Setter, ProblemStaff, Published
    <2>4. ASSUME NEW r \in Requests, DeleteCommit(r) PROVE SameRoles
      <3> PICK q : q = req[r]
        OBVIOUS
      <3>1. CASE Refuse(r)
        BY <1>2, <3>1
      <3>2. CASE ~Refuse(r)
        <4>1. Deletes(r, q) /\ (DraftGoes(q) \/ DraftStays(q))
          BY <2>4, <3>2, DeleteCases
        <4>2. ~DraftGoes(q)
          BY <1>1, <4>1, DeleteTyped DEF DraftGoes, Drafted
        <4> QED BY <1>1, <4>1, <4>2, HeirTakesOver DEF SameRoles
      <3> QED BY <3>1, <3>2
    <2>5. ASSUME NEW r \in Requests, NEW p \in People,
                 JoinBegin(r, p) \/ DeleteBegin(r, p) \/ \E x \in Problems : TesterBegin(r, p, x)
          PROVE  SameRoles
      BY <1>3, <2>5 DEF JoinBegin, DeleteBegin, TesterBegin
    <2> QED BY <1>6, <2>1, <2>2, <2>3, <2>4, <2>5 DEF AccountStep
  <1>7. ~Tick
    BY DEF Tick
  <1>8. CASE \E r \in Requests : Abort(r)
    BY <1>2, <1>8 DEF Abort
  <1> QED BY <1>4, <1>5, <1>6, <1>7, <1>8 DEF Next, Step

\* Once the results are final no step makes a participant a competitor, or takes
\* one out: a tester who joins late does not count, the link is closed, and a
\* deleted account's exclusion only meets one who was a setter.
THEOREM RanksAlwaysStay == Spec => RanksStay
PROOF
  <1>1. StaffIInv /\ [Next]_vars => [Final => \A p \in participants : Competitor(p)' = Competitor(p)]_vars
    <2> SUFFICES ASSUME StaffIInv, Next, Final, NEW p \in participants PROVE Competitor(p)' = Competitor(p)
      BY DEF vars
    <2> Competitor(p)' <=> Competitor(p)
      BY FinalStep DEF SameRoles
    <2> QED BY DEF Competitor
  <1> QED BY <1>1, StaffInvariance, PTL DEF Spec, RanksStay

=============================================================================
