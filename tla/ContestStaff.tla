---------------------------- MODULE ContestStaff ----------------------------
(***************************************************************************)
(* Who is staff of a ShareOJ contest and who may compete in it.            *)
(*                                                                         *)
(* One contest id: a draft that is published under the same id, with its   *)
(* owner, co-setters, invitation link and exclusions, the problems that    *)
(* enter and leave it with their authors and testers, and the accounts     *)
(* that register.  Requests are transactions side by side; a record in req *)
(* holds what a transaction has read and locked but not committed.  The    *)
(* staff of other contests and the versions of the rows are left out: a    *)
(* save with a stale version is refused and changes nothing.               *)
(***************************************************************************)
EXTENDS Naturals, Sequences, FiniteSets, SequencesExt

CONSTANTS
  People,    \* accounts
  Problems,  \* unpublished problems that a contest may hold
  Author,    \* the author of each problem
  Requests,  \* transactions that may be open at a time
  Mixes,     \* bound: of each behaviour, the kinds of requests, the accounts
             \* that send them and the links drawn
  Nobody,    \* the owner of what does not exist
  Idle,      \* no transaction
  MaxToken,  \* bound: links ever drawn for the id
  Late       \* whether a request authenticated before an account's deletion
             \* began may still be open then

AllKinds == {"create", "draft", "publish", "save", "link", "accept", "remove", "tester", "join", "delete"}

ASSUME AuthorAssumption == Author \in [Problems -> People]
ASSUME MixesAssumption  == Mixes \subseteq [kinds : SUBSET AllKinds, people : SUBSET People, links : 0..MaxToken]
ASSUME TokenAssumption  == MaxToken \in Nat \ {0} /\ Late \in BOOLEAN /\ Nobody \notin People

VARIABLES
  mix,          \* the behaviour's mix
  phase,        \* "before", "running", "ended" or, with the results, "final"
  draftOwner,   \* contest_drafts.owner_id, Nobody without a draft
  owner,        \* contests.owner_id, Nobody without a contest
  listed,       \* problems of the draft
  inContest,    \* contest_problems
  setters,      \* contest_setters with left_at IS NULL, in the order they joined
  excluded,     \* contest_exclusions
  token,        \* the link's token, 0 for no link
  lastToken,    \* the last token drawn
  testers,      \* problem_testers who joined before the results were final
  lateTesters,  \* and those who joined after
  participants, \* contest_participants
  deleted,      \* accounts with deleted_at
  req,          \* open transactions
  wasStaff,     \* history: staff of this id before the results were final
  holds,        \* history: <<account, token>> handed out to a setter
  banned        \* history: accounts an owner removed and who did not come back

tables == <<draftOwner, owner, listed, inContest, setters, excluded, token, lastToken, testers,
            lateTesters, participants, deleted>>
history == <<wasStaff, holds, banned>>
vars == <<mix, phase, tables, req, history>>

Kinds == mix.kinds
Sets  == SUBSET Problems
Request ==
       [op : {"join", "accept"}, who : People]
  \cup [op : {"tester"}, at : {"begun", "locked"}, who : People, problem : Problems, contest : BOOLEAN]
  \cup [op : {"save"}, who : People, ids : Sets]
  \cup [op : {"publish"}, who : People]
  \cup [op : {"create"}, who : People, draft : BOOLEAN, ids : Sets]
  \cup [op : {"delete"}, at : {"begun", "handed"}, who : People, row : BOOLEAN, heir : People \cup {Nobody}]

TypeOK ==
  /\ mix \in Mixes /\ phase \in {"before", "running", "ended", "final"}
  /\ draftOwner \in People \cup {Nobody} /\ owner \in People \cup {Nobody}
  /\ listed \subseteq Problems /\ inContest \subseteq Problems
  /\ setters \in Seq(People) /\ IsInjective(setters)
  /\ excluded \subseteq People /\ participants \subseteq People /\ deleted \subseteq People
  /\ token \in 0..MaxToken /\ lastToken \in 0..MaxToken
  /\ testers \in [Problems -> SUBSET People] /\ lateTesters \in [Problems -> SUBSET People]
  /\ req \in [Requests -> {Idle} \cup Request]
  /\ wasStaff \subseteq People /\ banned \subseteq People
  /\ holds \subseteq People \X (1..MaxToken)

-----------------------------------------------------------------------------
Drafted   == draftOwner # Nobody
Published == owner # Nobody
Final     == phase = "final"

\* contest_setter: a stray draft beside a contest makes nobody a setter.
Setter_owner(p) == owner = p \/ draftOwner = p             \* mutation: co-setters are forgotten
Setter(p) == owner = p \/ (draftOwner = p /\ ~Published) \/ p \in ToSet(setters)

\* The others, in their order; an account has one row of contest_setters.
Without(s, p) == IF p \in ToSet(s) THEN RemoveAt(s, CHOOSE i \in DOMAIN s : s[i] = p) ELSE s

\* An unpublished problem outside a contest goes with its author's account.
Exists(x)       == Author[x] \notin deleted \/ x \in inContest
Manages(p, x)   == Exists(x) /\ (Author[x] = p \/ p \in testers[x] \cup lateTesters[x]) \* directly
ProblemStaff_late(p) == \E x \in inContest : Author[x] = p \/ p \in testers[x] \cup lateTesters[x] \* mutation: late testers count
ProblemStaff(p) == \E x \in inContest : Author[x] = p \/ p \in testers[x]
Staff(p)        == Setter(p) \/ ProblemStaff(p)
Competitor(p)   == ~Setter(p) /\ ~ProblemStaff(p) /\ p \notin excluded

\* Row locks.  The draft's row and the contest's are the one lock of the id:
\* publishing keeps the draft's row until the contest's exists.
Open(op)   == {r \in Requests : req[r] # Idle /\ req[r].op = op}
Exclusive  == {r \in Open("tester") : req[r].contest} \cup {r \in Open("delete") : req[r].at = "handed" /\ req[r].row}
                \cup Open("accept") \cup Open("save") \cup Open("publish")
CanLock    == Exclusive = {} /\ Open("join") = {}
CanShare   == Exclusive = {}
IdLocked_never == FALSE                             \* mutation: no advisory lock on the id
IdLocked   == Open("create") \cup Open("publish") # {}
ProblemShared(x)   == \E r \in Open("tester") : req[r].at = "locked" /\ req[r].problem = x
ProfileLocked(p)   == \E r \in Open("delete") : req[r].who = p
\* A deletion under way has updated its own row of contest_setters.
SetterRowLocked_never(p) == FALSE                   \* mutation: heirs are not locked
SetterRowLocked(p) == ProfileLocked(p) /\ p \in ToSet(setters)

Init ==
  /\ mix \in Mixes /\ phase = "before" /\ draftOwner = Nobody /\ owner = Nobody /\ listed = {} /\ inContest = {}
  /\ setters = <<>> /\ excluded = {} /\ token = 0 /\ lastToken = 0
  /\ testers = [x \in Problems |-> {}] /\ lateTesters = testers
  /\ participants = {} /\ deleted = {}
  /\ req = [r \in Requests |-> Idle]
  /\ wasStaff = {} /\ holds = {} /\ banned = {}

Done(r)       == req' = [req EXCEPT ![r] = Idle]
Begin(r, q)   == /\ req[r] = Idle /\ q.who \in mix.people \ deleted /\ (Late \/ ~ProfileLocked(q.who))
                 /\ req' = [req EXCEPT ![r] = q] /\ UNCHANGED <<phase, tables, holds, banned>>
Refuse(r)     == Done(r) /\ UNCHANGED <<phase, tables, holds, banned>>
Unmanaged     == \* the link and the accounts stay
                 UNCHANGED <<phase, token, lastToken, testers, lateTesters, participants, deleted, holds>>

-----------------------------------------------------------------------------
\* A new draft, or a contest without one.  Each looks for the id in the other
\* table under the id's advisory lock; creating a draft has checked addable.
CreateBegin(r, p, draft, ids) ==
  /\ "create" \in Kinds /\ ~IdLocked /\ phase = "before"
  /\ draft => \A x \in ids : Manages(p, x)
  /\ IF draft THEN ~Published ELSE ~Drafted
  /\ Begin(r, [op |-> "create", who |-> p, draft |-> draft, ids |-> ids])

\* The INSERT; the table's key refuses an id that exists by then.  A contest
\* then takes its problems as a save does.
CreateCommit(r) ==
  LET q == req[r] IN
  /\ r \in Open("create") /\ ~ProfileLocked(q.who)
  /\ \/ /\ q.draft /\ ~Drafted
        /\ draftOwner' = q.who /\ listed' = q.ids /\ Done(r)
        /\ Unmanaged /\ UNCHANGED <<owner, inContest, setters, excluded, banned>>
     \/ /\ ~q.draft /\ ~Published /\ phase = "before"
        /\ \A x \in q.ids : Manages(q.who, x) /\ ~ProblemShared(x)
        /\ owner' = q.who /\ inContest' = q.ids /\ Done(r)
        /\ Unmanaged /\ UNCHANGED <<draftOwner, listed, setters, excluded, banned>>
     \/ (IF q.draft THEN Drafted ELSE Published \/ \E x \in q.ids : ~Manages(q.who, x)) /\ Refuse(r)

\* updateDraft: a setter adds only problems they manage themselves.
UpdateDraft(p, ids) ==
  /\ "draft" \in Kinds /\ Drafted /\ CanLock /\ Setter(p) /\ p \notin deleted
  /\ \A x \in ids \ listed : Manages(p, x)
  /\ listed' = ids
  /\ UNCHANGED <<phase, draftOwner, owner, inContest, setters, excluded, token, lastToken, testers,
                 lateTesters, participants, deleted, req, holds, banned>>

\* DeleteDraft, for the owner; forgetContest clears what shares the id unless
\* a contest has it.
DeleteDraft(p) ==
  /\ "draft" \in Kinds /\ draftOwner = p /\ p \notin deleted /\ CanLock
  /\ draftOwner' = Nobody /\ listed' = {}
  /\ IF Published THEN UNCHANGED <<setters, token, excluded, banned>>
                  ELSE setters' = <<>> /\ token' = 0 /\ excluded' = {} /\ banned' = {}
  /\ UNCHANGED <<phase, owner, inContest, lastToken, testers, lateTesters, participants, deleted, req, holds>>

\* What save checks of the problems it is given, once it holds their rows:
\* every one has a setter as author or tester, an added one the actor manages,
\* and an added one is not a participant's own.
Allowed(p, ids, publishing) ==
  /\ \A x \in ids : \E s \in People : Setter(s) /\ Manages(s, x)
  /\ publishing \/ \A x \in ids \ inContest : Manages(p, x)
  /\ \A x \in ids \ inContest : \A s \in participants : ~Manages(s, x)

\* Those who saw a removed problem stay out of the contest.
Seen_author(ids) == {Author[x] : x \in inContest \ ids}     \* mutation: testers are forgotten
Seen(ids) == UNION {{Author[x]} \cup testers[x] \cup lateTesters[x] : x \in inContest \ ids}

SaveBegin(r, p, ids) ==
  /\ "save" \in Kinds /\ Published /\ phase = "before" /\ CanLock /\ Setter(p)
  /\ Begin(r, [op |-> "save", who |-> p, ids |-> ids])

SaveCommit(r) ==
  LET q == req[r] IN
  /\ r \in Open("save") /\ \A x \in q.ids : ~ProblemShared(x)
  /\ IF phase # "before" \/ ~Setter(q.who) \/ ~Allowed(q.who, q.ids, FALSE)
     THEN Refuse(r)
     ELSE /\ inContest' = q.ids /\ excluded' = excluded \cup Seen(q.ids)
          /\ Done(r)
          /\ Unmanaged /\ UNCHANGED <<draftOwner, owner, listed, setters, banned>>

\* Publish: the draft's problems under the draft's owner, by any setter.
PublishBegin(r, p) ==
  /\ "publish" \in Kinds /\ ~IdLocked /\ Drafted /\ CanLock /\ Setter(p)
  /\ Begin(r, [op |-> "publish", who |-> p])

PublishCommit(r) ==
  LET q == req[r] IN
  /\ r \in Open("publish") /\ \A x \in listed : ~ProblemShared(x)
  /\ IF Published \/ phase # "before" \/ listed = {} \/ ~Allowed(q.who, listed, TRUE)
     THEN Refuse(r)
     ELSE /\ owner' = draftOwner /\ draftOwner' = Nobody /\ inContest' = listed /\ listed' = {}
          /\ Done(r)
          /\ Unmanaged /\ UNCHANGED <<setters, excluded, banned>>

-----------------------------------------------------------------------------
\* The co-setters' link: handed out, and renewed, to setters only.
Drawn == lastToken < mix.links /\ lastToken' = lastToken + 1 /\ token' = lastToken + 1

SetterInvitationLink(p, renew) ==
  /\ "link" \in Kinds /\ p \notin deleted /\ (Drafted \/ Published) /\ CanLock /\ Setter(p) /\ ~Final
  /\ IF token = 0 \/ renew THEN Drawn ELSE UNCHANGED <<token, lastToken>>
  /\ holds' = holds \cup {<<p, token'>>}
  /\ UNCHANGED <<phase, draftOwner, owner, listed, inContest, setters, excluded, testers, lateTesters,
                 participants, deleted, req, banned>>

\* Accepting the link t: the token, the role and the registrations are read
\* under the contest's lock; the INSERT waits for the account's deletion.
AcceptBegin(r, p, t) ==
  /\ "accept" \in Kinds /\ (Drafted \/ Published) /\ CanLock
  /\ t # 0 /\ t = token /\ ~Setter(p) /\ ~Final /\ p \notin participants
  /\ Begin(r, [op |-> "accept", who |-> p])

AcceptCommit(r) ==
  LET q == req[r] IN
  /\ r \in Open("accept") /\ ~ProfileLocked(q.who)
  /\ setters' = Append(setters, q.who) /\ banned' = banned \ {q.who}
  /\ Done(r)
  /\ Unmanaged /\ UNCHANGED <<draftOwner, owner, listed, inContest, excluded>>

\* leave: the row of contest_setters stays as left, the account is excluded.
Left(p) == /\ setters' = Without(setters, p)
           /\ excluded' = excluded \cup {p}

\* The owner removes a co-setter and the link is renewed; a co-setter leaves.
RemoveSetter_keep(actor, p) ==                      \* mutation: the link stays
  /\ "remove" \in Kinds /\ (Drafted \/ Published) /\ CanLock /\ actor \notin deleted
  /\ p \in ToSet(setters) /\ ~SetterRowLocked(p)
  /\ actor \in {p, IF Published THEN owner ELSE draftOwner}
  /\ Left(p)
  /\ banned' = IF actor = p THEN banned ELSE banned \cup {p}
  /\ UNCHANGED <<phase, draftOwner, owner, listed, inContest, token, lastToken, testers, lateTesters,
                 participants, deleted, req, holds>>
RemoveSetter(actor, p) ==
  /\ "remove" \in Kinds /\ (Drafted \/ Published) /\ CanLock /\ actor \notin deleted
  /\ p \in ToSet(setters) /\ ~SetterRowLocked(p)
  /\ actor \in {p, IF Published THEN owner ELSE draftOwner}
  /\ Left(p)
  /\ IF actor # p /\ token # 0 THEN Drawn ELSE UNCHANGED <<token, lastToken>>
  /\ banned' = IF actor = p THEN banned ELSE banned \cup {p}
  /\ UNCHANGED <<phase, draftOwner, owner, listed, inContest, testers, lateTesters, participants,
                 deleted, req, holds>>

-----------------------------------------------------------------------------
\* A tester's link: the contest that holds the problem, then the problem, then
\* the contest again, which the problem may have entered in between.
TesterBegin(r, p, x) ==
  /\ "tester" \in Kinds /\ Exists(x) /\ (x \in inContest => CanLock)
  /\ Begin(r, [op |-> "tester", at |-> "begun", who |-> p, problem |-> x, contest |-> x \in inContest])

TesterLock(r) ==
  LET q == req[r] IN
  /\ r \in Open("tester") /\ q.at = "begun"
  /\ \A s \in Open("save") : q.problem \notin req[s].ids
  /\ \A s \in Open("publish") : q.problem \notin listed
  /\ IF Manages(q.who, q.problem)
     THEN Refuse(r)
     ELSE /\ req' = [req EXCEPT ![r] = [op |-> "tester", at |-> "locked", who |-> q.who, problem |-> q.problem,
                                        contest |-> q.contest]]
          /\ UNCHANGED <<phase, tables, holds, banned>>

\* The second look at the contest.
Relocked_once(r) == TRUE                            \* mutation: the contest is locked only once
Relocked(r) == req[r].contest \/ req[r].problem \notin inContest \/ CanLock

Competes(r) == req[r].problem \in inContest /\ ~Final /\ req[r].who \in participants

TesterCommit(r) ==
  LET q == req[r] IN
  /\ r \in Open("tester") /\ q.at = "locked" /\ Relocked(r) /\ ~ProfileLocked(q.who)
  /\ IF Competes(r)
     THEN Refuse(r)
     ELSE /\ IF Final
               THEN lateTesters' = [lateTesters EXCEPT ![q.problem] = @ \cup {q.who}] /\ UNCHANGED testers
               ELSE testers' = [testers EXCEPT ![q.problem] = @ \cup {q.who}] /\ UNCHANGED lateTesters
          /\ Done(r)
          /\ UNCHANGED <<phase, draftOwner, owner, listed, inContest, setters, excluded, token, lastToken,
                         participants, deleted, holds, banned>>

-----------------------------------------------------------------------------
\* Registration, as far as the staff goes.
JoinBegin(r, p) ==
  /\ "join" \in Kinds /\ Published /\ CanShare /\ Competitor(p) /\ phase \in {"before", "running"}
  /\ p \notin participants
  /\ Begin(r, [op |-> "join", who |-> p])

JoinCommit(r) ==
  /\ r \in Open("join") /\ ~ProfileLocked(req[r].who)
  /\ participants' = participants \cup {req[r].who}
  /\ Done(r)
  /\ UNCHANGED <<phase, draftOwner, owner, listed, inContest, setters, excluded, token, lastToken,
                 testers, lateTesters, deleted, holds, banned>>

-----------------------------------------------------------------------------
\* Account deletion.  The account's own row of contest_setters is updated
\* first; then handOver locks what it owns and all co-setters.
DeleteBegin(r, p) ==
  /\ "delete" \in Kinds /\ ~ProfileLocked(p)
  /\ Late \/ \A s \in Requests : req[s] # Idle => req[s].who # p
  /\ p \in ToSet(setters) => \A s \in Open("delete") : ~req[s].row  \* handOver locks the co-setters
  /\ Begin(r, [op |-> "delete", at |-> "begun", who |-> p, row |-> FALSE, heir |-> Nobody])

\* handOver; the rows of accounts that are just leaving make it wait.
HandOver(r) ==
  LET q     == req[r]
      owns  == (owner = q.who /\ ~Final) \/ draftOwner = q.who
      heirs == Without(setters, q.who)
  IN /\ r \in Open("delete") /\ q.at = "begun"
     /\ owns => CanLock /\ \A s \in People \ {q.who} : ~SetterRowLocked(s)
     /\ req' = [req EXCEPT ![r] = [op |-> "delete", at |-> "handed", who |-> q.who, row |-> owns,
                                   heir |-> IF owns /\ heirs # <<>> THEN Head(heirs) ELSE Nobody]]
     /\ UNCHANGED <<phase, tables, holds, banned>>

\* Refused while a contest stays with the account; otherwise drafts without an
\* heir go, with what shares their id, and everything is committed.
DeleteCommit(r) ==
  LET q     == req[r]
      goes  == draftOwner = q.who /\ q.heir = Nobody
      mine  == q.who \in ToSet(setters) \/ q.heir # Nobody
  IN /\ r \in Open("delete") /\ q.at = "handed"
     /\ IF \/ owner = q.who /\ ~Final /\ q.heir = Nobody
           \/ phase \in {"before", "running"} /\ \E x \in inContest : Author[x] = q.who
        THEN Refuse(r)
        ELSE /\ setters' = IF goes THEN <<>> ELSE Without(Without(setters, q.who), q.heir)
             /\ excluded' = IF goes THEN {} ELSE excluded \cup (IF mine THEN {q.who} ELSE {})
             /\ draftOwner' = IF draftOwner = q.who THEN q.heir ELSE draftOwner
             /\ owner' = IF owner = q.who /\ q.heir # Nobody THEN q.heir ELSE owner
             /\ listed' = IF goes THEN {} ELSE listed
             /\ participants' = IF phase = "before" THEN participants \ {q.who} ELSE participants
             /\ banned' = IF goes THEN {} ELSE banned
             /\ deleted' = deleted \cup {q.who}
             /\ Done(r)
             /\ token' = IF goes THEN 0 ELSE token
             /\ UNCHANGED <<phase, inContest, lastToken, testers, lateTesters, holds>>

-----------------------------------------------------------------------------
\* A request is cancelled, loses its connection or is a deadlock's victim.
Abort(r) == req[r] # Idle /\ Refuse(r)

Tick ==
  /\ Published /\ ~Final
  /\ phase' \in CASE phase = "before" -> {"running"} [] phase = "running" -> {"ended", "final"} [] OTHER -> {"final"}
  /\ UNCHANGED <<tables, req, holds, banned>>

DraftStep ==
  \/ \E r \in Requests :
       \/ \E p \in People, draft \in BOOLEAN, ids \in Sets : CreateBegin(r, p, draft, ids)
       \/ CreateCommit(r)
       \/ \E p \in People : PublishBegin(r, p)
       \/ PublishCommit(r)
  \/ \E p \in People : DeleteDraft(p) \/ \E ids \in Sets : UpdateDraft(p, ids)

SetterStep ==
  \/ \E r \in Requests :
       \/ \E p \in People, ids \in Sets : SaveBegin(r, p, ids)
       \/ SaveCommit(r)
       \/ \E p \in People, t \in 1..MaxToken : AcceptBegin(r, p, t)
       \/ AcceptCommit(r)
  \/ \E p, q \in People : RemoveSetter(p, q)
  \/ \E p \in People, renew \in BOOLEAN : SetterInvitationLink(p, renew)

AccountStep ==
  \E r \in Requests :
    \/ \E p \in People, x \in Problems : TesterBegin(r, p, x)
    \/ TesterLock(r) \/ TesterCommit(r)
    \/ \E p \in People : JoinBegin(r, p) \/ DeleteBegin(r, p)
    \/ JoinCommit(r) \/ HandOver(r) \/ DeleteCommit(r)

Step == DraftStep \/ SetterStep \/ AccountStep \/ Tick \/ \E r \in Requests : Abort(r)

\* An id that neither table has starts afresh.
Next ==
  /\ Step /\ UNCHANGED mix
  /\ wasStaff' = IF ~Drafted' /\ ~Published' THEN {}
                 ELSE wasStaff \cup {p \in People : ~Final' /\ Staff(p)'}

Spec == Init /\ [][Next]_vars

-----------------------------------------------------------------------------
\* Until the results are final nobody who is registered is a setter, author or
\* tester: registering, accepting either link, saving and publishing look at
\* each other's rows under the contest's lock.  And whoever was staff before the
\* results were final never competes, however they stopped being staff: leave,
\* the removal of a problem and handOver exclude.
StaffDoNotCompete ==
  Published => /\ ~Final => \A p \in participants \ deleted : ~Staff(p)
               /\ \A p \in wasStaff : ~Competitor(p)

\* A co-setter whom the owner removed holds no link that still works:
\* RemoveSetter renews it and SetterInvitationLink asks for the role.
RemovedHoldNoLink == \A p \in banned : <<p, token>> \notin holds

\* A draft and a contest never share an id (lockID), and a contest whose results
\* are not final has an owner with an account, who can remove a co-setter:
\* handOver and the refusal in Delete.
OneOwnedRow == /\ ~(Drafted /\ Published)
               /\ Published /\ ~Final => owner \notin deleted

\* Once the results are final no participant's place changes: late testers do
\* not count, and the ways onto the staff are closed.
RanksStay ==
  [][Final => \A p \in participants : Competitor(p)' = Competitor(p)]_vars
=============================================================================
