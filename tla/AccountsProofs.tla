---------------------------- MODULE AccountsProofs ----------------------------
(***************************************************************************)
(* The safety properties of Accounts for any addresses, any finite number  *)
(* of ids, any requests in flight and a stop at any step.                  *)
(***************************************************************************)
EXTENDS Accounts, FiniteSetTheorems, WellFoundedInduction, TLAPS

TableRow == [no : Nat, uid : Ids, by : Nat, name : Emails \cup {None}, from : Nat \cup {None},
             live : BOOLEAN, late : BOOLEAN]
Cookie == [uid : Ids, cv : Nat, gen : Nat, secret : Nat]
Link == [email : Emails, cv : Nat]

Typed ==
    /\ kind \in Kinds
    /\ users \in [Ids -> UserRow \cup {None}]
    /\ rows \in SUBSET TableRow /\ IsFiniteSet(rows)
    /\ sessions \in SUBSET Cookie /\ links \in SUBSET Link
    /\ jobs \in [Slots -> Job \cup {None}]
    /\ begun \in 0..MaxRequests /\ accounts \in Nat /\ setups \in Nat

\* Versions grow with the requests, and generations with the accounts.
Counted ==
    /\ \A u \in Users : users[u].cv <= begun /\ users[u].gen <= accounts
    /\ \A s \in sessions : s.cv <= begun /\ s.gen <= accounts
    /\ \A j \in Slots : Doing(j, {"reset"}) => jobs[j].cv < begun

UniqueEmails == \A u, v \in Users : users[u].email = users[v].email => u = v
UniqueRows == \A r, x \in rows : r # x => r.no # x.no /\ (kind \in Single => r.uid # x.uid)

\* Before the set-up there is nobody.
NobodyYet == setups = 0 => Users = {} /\ \A j \in Slots : ~Doing(j, {"create"})

\* While no two removals crossed, each that is in flight leaves an administrator.
Others(j) == Admins \ {jobs[j].uid} # {}
Guarded ==
    "removal" \notin slips =>
        \A j \in Slots : Doing(j, {"delete", "demote"}) /\ ~jobs[j].crossed => Others(j)
\* After a set-up, others that are in flight know that they crossed it.
SetupsCross ==
    setups > 0 /\ slips \cap {"setup", "removal"} = {} =>
        \A j \in Slots : Doing(j, {"setup"}) => jobs[j].crossed

\* The password in force is that of the last reset, or a later one.
SecretsFit == \A u \in Users : users[u].since <= users[u].secret

\* A cookie is not ahead of the account it is for, and at the same version not of
\* before the last reset.
CookieFit(s) ==
    s.uid \in Users /\ users[s.uid].gen = s.gen /\ ~users[s.uid].slipped =>
       /\ s.cv <= users[s.uid].cv
       /\ s.cv = users[s.uid].cv => s.secret >= users[s.uid].since
CookiesFit == \A s \in sessions : CookieFit(s)

\* A token that came of another: the other is there, revoked, and has no second one.
Numbers == {r.no : r \in rows}
TokensFit ==
    /\ \A r \in rows : r.from # None => kind = "embed" /\ r.from \in Numbers
    /\ \A r, x \in rows : r.from # None /\ x.no = r.from => ~x.live
    /\ \A r, x \in rows : r.from # None /\ x.from = r.from => x = r \/ "rotation" \in slips
RotationFit(j) ==
    Doing(j, {"rotate"}) =>
       /\ kind = "embed" /\ jobs[j].row \in Numbers
       /\ jobs[j].crossed \/ \A r \in rows : r.from # jobs[j].row
RotationsFit == \A j \in Slots : RotationFit(j)

\* Browser sessions are cookies.
NoRows == kind = "session" => rows = {} /\ \A j \in Slots : ~Doing(j, {"row", "rotate"})

\* OwnRows, also while the user of a row is gone.
Owned(r) ==
    r.live =>
       \/ r.late
       \/ kind \in {"embed", "share", "mapping"}
       \/ kind \in {"reading", "oidc"} /\ r.by \in removed
       \/ r.uid \in Users /\ users[r.uid].gen = r.by
RowsOwned == \A r \in rows : Owned(r)

AccountsInv ==
    /\ Typed /\ Counted
    /\ UniqueEmails /\ UniqueRows
    /\ NobodyYet /\ Guarded /\ SetupsCross /\ Administered
    /\ SecretsFit /\ CookiesFit
    /\ TokensFit /\ RotationsFit
    /\ NoRows /\ RowsOwned

-----------------------------------------------------------------------------
(* The next id of a table.                                                 *)

\* A finite set of numbers has a greatest: else the sets of the numbers above one
\* of them would descend for ever.
LEMMA FiniteHasMax ==
    ASSUME NEW S \in SUBSET Nat, IsFiniteSet(S), S # {}
    PROVE  \E x \in S : \A y \in S : x >= y
<1> DEFINE Above(x) == {y \in S : y > x}
           T == {Above(x) : x \in S}
<1>1. IsWellFoundedOn(StrictSubsetOrdering(S), FiniteSubsetsOf(S))
  BY FS_StrictSubsetOrderingWellFounded
<1>2. T \subseteq FiniteSubsetsOf(S)
  <2>1. \A x \in S : Above(x) \in SUBSET S /\ IsFiniteSet(Above(x))
    BY FS_Subset
  <2> QED
    BY <2>1 DEF FiniteSubsetsOf
<1>3. PICK A \in T : \A B \in T : <<B, A>> \notin StrictSubsetOrdering(S)
  <2> HIDE DEF T
  <2>1. T # {}
    BY DEF T
  <2> QED
    BY <1>1, <1>2, <2>1, WFMin
<1>4. PICK x \in S : A = Above(x)
  OBVIOUS
<1>5. ASSUME NEW y \in S, y > x
      PROVE  FALSE
  <2>0. x \in Nat /\ y \in Nat /\ S \subseteq Nat
    OBVIOUS
  <2>1. Above(y) \in T
    OBVIOUS
  <2>3. \A z \in Nat : z > y => z > x
    BY <2>0, <1>5
  <2>4. Above(y) \subseteq A
    BY <2>0, <2>3, <1>4
  <2>5. y \in A /\ y \notin Above(y)
    BY <2>0, <1>4, <1>5
  <2>2. <<Above(y), A>> \in StrictSubsetOrdering(S)
    BY <2>4, <2>5, <1>4 DEF StrictSubsetOrdering
  <2> QED
    BY <2>1, <2>2, <1>3
<1> QED
  BY <1>5

\* The next id is not in use.
LEMMA NextIdIsNew ==
    ASSUME NEW S \in SUBSET Nat, IsFiniteSet(S)
    PROVE  NextId(S) \in Nat /\ NextId(S) \notin S
<1>1. PICK x \in S \cup {0} : \A y \in S \cup {0} : x >= y
  BY FiniteHasMax, FS_AddElement
<1>2. Max(S \cup {0}) \in S \cup {0} /\ \A y \in S \cup {0} : Max(S \cup {0}) >= y
  BY <1>1 DEF Max
<1>3. S \cup {0} \subseteq Nat
  OBVIOUS
<1>4. Max(S \cup {0}) \in Nat
  BY <1>2, <1>3, Zenon
<1> QED
  BY <1>2, <1>4 DEF NextId

-----------------------------------------------------------------------------
(* The requests in flight.                                                 *)

Crossable == {"setup", "demote", "delete", "rotate"}

\* What a handler remembers, by what it does.
LEMMA JobFields ==
    ASSUME NEW job \in Job
    PROVE  /\ job # None
           /\ job.op = "setup" => job.email \in Emails /\ job.role = "admin" /\ job.crossed \in BOOLEAN
           /\ job.op = "create" => job.email \in Emails /\ job.role \in Roles
           /\ job.op = "update" => job.uid \in Ids /\ job.role \in {"admin", None} /\ job.email \in Emails \cup {None}
           /\ job.op = "demote" =>
                 job.uid \in Ids /\ job.role \in {"user", None} /\ job.email \in Emails \cup {None}
                 /\ job.crossed \in BOOLEAN
           /\ job.op = "delete" =>
                 job.uid \in Ids /\ job.how \in {"admin", "self"} /\ job.own \in SUBSET Nat /\ job.crossed \in BOOLEAN
           /\ job.op = "reset" => job.uid \in Ids /\ job.cv \in Nat
           /\ job.op = "row" => job.uid \in Ids /\ job.gen \in Nat /\ job.name \in Emails \cup {None}
           /\ job.op = "rotate" => 
                 job.uid \in Ids /\ job.gen \in Nat /\ job.name = None /\ job.row \in Nat /\ job.crossed \in BOOLEAN
BY NoneAssumption DEF Job

Carried(k, ops) == jobs'[k] = IF Doing(k, ops) THEN [jobs[k] EXCEPT !.crossed = TRUE] ELSE jobs[k]
JobsStep(j, ops) == jobs' \in [Slots -> Job \cup {None}] /\ \A k \in Slots \ {j} : Carried(k, ops)

\* One that is crossed stays what it is.
LEMMA CrossedJob ==
    ASSUME NEW job \in Job, job.op \in Crossable
    PROVE  LET new == [job EXCEPT !.crossed = TRUE] IN
           /\ new \in Job /\ new.op = job.op /\ new.crossed
           /\ job.op \in {"delete", "demote"} => new.uid = job.uid
           /\ job.op = "rotate" => new.row = job.row
<1> DEFINE new == [job EXCEPT !.crossed = TRUE]
<1>1. CASE job.op = "setup"
  <2>1. job \in [op : {"setup"}, email : Emails, role : {"admin"}, crossed : BOOLEAN]
    BY <1>1 DEF Job
  <2> QED
    BY <1>1, <2>1 DEF Job
<1>2. CASE job.op = "demote"
  <2>1. job \in [op : {"demote"}, uid : Ids, role : {"user", None}, email : Emails \cup {None},
              password : BOOLEAN, crossed : BOOLEAN]
    BY <1>2 DEF Job
  <2> QED
    BY <1>2, <2>1 DEF Job
<1>3. CASE job.op = "delete"
  <2>1. job \in [op : {"delete"}, uid : Ids, how : {"admin", "self"}, own : SUBSET Nat, crossed : BOOLEAN]
    BY <1>3 DEF Job
  <2> QED
    BY <1>3, <2>1 DEF Job
<1>4. CASE job.op = "rotate"
  <2>1. job \in [op : {"rotate"}, uid : Ids, gen : Nat, name : {None}, row : Nat, crossed : BOOLEAN]
    BY <1>4 DEF Job
  <2> QED
    BY <1>4, <2>1 DEF Job
<1> QED
  BY <1>1, <1>2, <1>3, <1>4 DEF Crossable

\* What a step leaves of a request of another.
LEMMA CarriedJob ==
    ASSUME Typed, NEW k \in Slots, NEW ops \in SUBSET Crossable, Carried(k, ops)
    PROVE  /\ jobs'[k] # None <=> jobs[k] # None
           /\ jobs[k] # None =>
                 /\ jobs'[k].op = jobs[k].op
                 /\ jobs[k].op \in {"delete", "demote"} => jobs'[k].uid = jobs[k].uid
                 /\ jobs[k].op = "rotate" => jobs'[k].row = jobs[k].row
                 /\ jobs[k].op = "reset" => jobs'[k].cv = jobs[k].cv
                 /\ jobs[k].op \in Crossable =>
                       (jobs'[k].crossed <=> jobs[k].crossed \/ jobs[k].op \in ops)
<1>1. CASE Doing(k, ops)
  <2>1. jobs[k] \in Job /\ jobs[k].op \in Crossable
    BY <1>1 DEF Typed, Doing
  <2>2. jobs'[k] = [jobs[k] EXCEPT !.crossed = TRUE]
    BY <1>1 DEF Carried
  <2>3. jobs'[k] \in Job /\ jobs'[k] # None
    BY <2>1, <2>2, CrossedJob, JobFields
  <2> QED
    BY <1>1, <2>1, <2>2, <2>3, CrossedJob DEF Doing, Crossable
<1>2. CASE ~Doing(k, ops)
  <2>1. jobs'[k] = jobs[k]
    BY <1>2 DEF Carried
  <2> QED
    BY <1>2, <2>1 DEF Doing
<1> QED
  BY <1>1, <1>2

LEMMA BeginJobs ==
    ASSUME Typed, NEW j \in Slots, NEW job \in Job, Begin(j, job)
    PROVE  JobsStep(j, {}) /\ jobs'[j] = job
BY DEF Typed, Begin, JobsStep, Carried, Doing

LEMMA EndedJobs ==
    ASSUME Typed, NEW j \in Slots, jobs' = Ended(j)
    PROVE  JobsStep(j, {}) /\ jobs'[j] = None
BY DEF Typed, Ended, JobsStep, Carried, Doing

LEMMA CrossingJobs ==
    ASSUME Typed, NEW j \in Slots, NEW ops \in SUBSET Crossable
    PROVE  /\ Crossing(j, ops) \in [Slots -> Job \cup {None}]
           /\ Crossing(j, ops)[j] = None
           /\ \A k \in Slots \ {j} :
                 Crossing(j, ops)[k] = IF Doing(k, ops) THEN [jobs[k] EXCEPT !.crossed = TRUE] ELSE jobs[k]
<1>1. ASSUME NEW k \in Slots, Doing(k, ops)
      PROVE  [jobs[k] EXCEPT !.crossed = TRUE] \in Job
  BY <1>1, CrossedJob DEF Typed, Doing
<1> QED
  BY <1>1 DEF Crossing, Typed

-----------------------------------------------------------------------------
(* What the steps change.                                                  *)

\* A handler reads what it decides upon.
Begins(j) ==
    \/ \E e \in Emails : BeginSetup(j, e)
    \/ \E e \in Emails, role \in Roles : BeginCreate(j, e, role)
    \/ \E a, u \in Ids, role \in Roles \cup {None}, e \in Emails \cup {None}, password \in BOOLEAN :
          BeginUpdate(j, a, u, role, e, password)
    \/ \E a, u \in Ids : BeginDelete(j, a, u)
    \/ \E u \in Ids : BeginDeleteOwn(j, u) \/ BeginProfile(j, u) \/ BeginRow(j, u)
    \/ \E r \in rows : BeginRotate(j, r)
    \/ \E l \in links, u \in Ids : BeginReset(j, l, u)
Commits(j) ==
    \/ CommitUser(j) \/ CommitUpdate(j) \/ CommitDelete(j) \/ CommitReset(j)
    \/ CommitRow(j) \/ CommitRotate(j)
AtOnce ==
    \/ \E u \in Ids : Login(u) \/ ForgotPassword(u) \/ ResetData(u)
    \/ \E s \in sessions : Logout(s)
    \/ \E r \in rows : EndRow(r)

LEMMA Steps ==
    ASSUME [AccountsNext]_vars
    PROVE  \/ \E j \in Slots : Begins(j) \/ Commits(j) \/ Abort(j)
           \/ AtOnce
           \/ UNCHANGED vars
BY DEF AccountsNext, AdminRequest, UserRequest, Begins, Commits, AtOnce

LEMMA RowFields ==
    ASSUME Typed, NEW r \in rows
    PROVE  /\ r \in TableRow /\ r.no \in Nat /\ r.uid \in Ids /\ r.by \in Nat
           /\ r.name \in Emails \cup {None} /\ r.from \in Nat \cup {None}
           /\ r.live \in BOOLEAN /\ r.late \in BOOLEAN
BY DEF Typed, TableRow

LEMMA UserFields ==
    ASSUME Typed, NEW u \in Users
    PROVE  /\ u \in Ids /\ users[u] \in UserRow /\ users[u].gen \in Nat /\ users[u].email \in Emails
           /\ users[u].role \in Roles /\ users[u].cv \in Nat /\ users[u].secret \in Nat
           /\ users[u].since \in Nat /\ users[u].slipped \in BOOLEAN
BY DEF Typed, Users, UserRow

\* Of the requests, what each begins with.
LEMMA BeginsWith ==
    ASSUME Typed, NEW j \in Slots, Begins(j)
    PROVE  \E job \in Job :
              /\ Begin(j, job)
              /\ job.op = "setup" => Admins = {} /\ ~job.crossed
              /\ job.op = "create" => Admins # {}
              /\ job.op = "demote" => job.uid \in Users /\ Admins \ {job.uid} # {}
              /\ job.op = "delete" =>
                    job.uid \in Users /\ (Admins \ {job.uid} # {} \/ ~LastAdmin(job.uid))
              /\ job.op = "reset" => job.uid \in Users /\ job.cv = users[job.uid].cv
              /\ job.op = "row" => kind # "session"
              /\ job.op = "rotate" =>
                    kind = "embed" /\ \E r \in rows : r.live /\ r.no = job.row
<1>1. CASE \E e \in Emails : BeginSetup(j, e)
  <2>1. PICK e \in Emails : BeginSetup(j, e)
    BY <1>1
  <2> DEFINE job == [op |-> "setup", email |-> e, role |-> "admin", crossed |-> FALSE]
  <2>2. job \in Job
    BY DEF Job
  <2> QED
    BY <2>1, <2>2 DEF BeginSetup
<1>2. CASE \E e \in Emails, role \in Roles : BeginCreate(j, e, role)
  <2>1. PICK e \in Emails, role \in Roles : BeginCreate(j, e, role)
    BY <1>2
  <2> DEFINE job == [op |-> "create", email |-> e, role |-> role, crossed |-> FALSE]
  <2>2. job \in Job
    BY DEF Job
  <2> QED
    BY <2>1, <2>2 DEF BeginCreate
<1>3. CASE \E a, u \in Ids, role \in Roles \cup {None}, e \in Emails \cup {None}, password \in BOOLEAN :
              BeginUpdate(j, a, u, role, e, password)
  <2>1. PICK a \in Ids, u \in Ids, role \in Roles \cup {None}, e \in Emails \cup {None},
             password \in BOOLEAN : BeginUpdate(j, a, u, role, e, password)
    BY <1>3
  <2> DEFINE job == [op |-> IF role = "user" THEN "demote" ELSE "update", uid |-> u,
                     role |-> IF role = users[u].role THEN None ELSE role,
                     email |-> IF e = users[u].email THEN None ELSE e, password |-> password,
                     crossed |-> FALSE]
  <2>2. job \in Job
    <3>1. CASE role = "user"
      BY <3>1 DEF Job
    <3>2. CASE role # "user"
      BY <3>2 DEF Job, Roles
    <3> QED
      BY <3>1, <3>2
  <2>3. Begin(j, job) /\ u \in Users /\ a \in Admins /\ (role = "user" => a # u)
    BY <2>1 DEF BeginUpdate
  <2>4. job.op \in {"update", "demote"} /\ (job.op = "demote" => role = "user") /\ job.uid = u
    OBVIOUS
  <2> QED
    BY <2>2, <2>3, <2>4
<1>4. CASE (\E a, u \in Ids : BeginDelete(j, a, u)) \/ (\E u \in Ids : BeginDeleteOwn(j, u))
  <2>1. PICK u \in Ids, how \in {"admin", "self"} :
             Begin(j, Deletion(u, how)) /\ u \in Users /\ (Admins \ {u} # {} \/ ~LastAdmin(u))
    BY <1>4 DEF BeginDelete, BeginDeleteOwn
  <2> DEFINE job == Deletion(u, how)
  <2>2. {r.no : r \in RowsOf(u)} \in SUBSET Nat
    BY RowFields DEF RowsOf
  <2>3. job \in Job
    BY <2>2 DEF Job, Deletion
  <2>4. job.op = "delete" /\ job.uid = u
    BY DEF Deletion
  <2> QED
    BY <2>1, <2>3, <2>4
<1>5. CASE \E u \in Ids : BeginRow(j, u)
  <2>1. PICK u \in Ids : BeginRow(j, u)
    BY <1>5
  <2> DEFINE sub == IF kind = "oidc" THEN users[u].email ELSE None
             job == [op |-> "row", uid |-> u, gen |-> users[u].gen, name |-> sub,
                     old |-> IF kind \in Single THEN {r.no : r \in RowsOf(u)} ELSE {}]
  <2>2. u \in Users /\ kind # "session" /\ Begin(j, job)
    BY <2>1 DEF BeginRow
  <2>3. users[u].gen \in Nat /\ sub \in Emails \cup {None}
    BY <2>2, UserFields
  <2>4. {r.no : r \in RowsOf(u)} \in SUBSET Nat
    BY RowFields DEF RowsOf
  <2>5. job \in Job
    BY <2>3, <2>4 DEF Job
  <2>6. job.op = "row"
    OBVIOUS
  <2> QED
    BY <2>2, <2>5, <2>6
<1>6. CASE \E r \in rows : BeginRotate(j, r)
  <2>1. PICK r \in rows : BeginRotate(j, r)
    BY <1>6
  <2> DEFINE job == [op |-> "rotate", uid |-> r.uid, gen |-> users[r.uid].gen, name |-> None, row |-> r.no,
                     crossed |-> FALSE]
  <2>2. kind = "embed" /\ r.live /\ r.uid \in Users /\ Begin(j, job)
    BY <2>1 DEF BeginRotate
  <2>3. users[r.uid].gen \in Nat /\ r.uid \in Ids /\ r.no \in Nat
    BY <2>2, UserFields, RowFields
  <2>4. job \in Job
    BY <2>3 DEF Job
  <2>5. job.op = "rotate" /\ job.row = r.no
    OBVIOUS
  <2> QED
    BY <2>2, <2>4, <2>5
<1>7. CASE \E l \in links, u \in Ids : BeginReset(j, l, u)
  <2>1. PICK u \in Ids : u \in Users /\ Begin(j, [op |-> "reset", uid |-> u, cv |-> users[u].cv])
    BY <1>7 DEF BeginReset
  <2> DEFINE job == [op |-> "reset", uid |-> u, cv |-> users[u].cv]
  <2>2. users[u].cv \in Nat
    BY <2>1, UserFields
  <2>3. job \in Job
    BY <2>2 DEF Job
  <2>4. job.op = "reset" /\ job.uid = u /\ job.cv = users[u].cv
    OBVIOUS
  <2> QED
    BY <2>1, <2>3, <2>4
<1>8. CASE \E u \in Ids : BeginProfile(j, u)
  <2>1. PICK u \in Ids : BeginProfile(j, u)
    BY <1>8
  <2> DEFINE job == [op |-> "update", uid |-> u, role |-> None, email |-> None, password |-> TRUE,
                     crossed |-> FALSE]
  <2>2. job \in Job
    BY DEF Job
  <2>3. Begin(j, job)
    BY <2>1 DEF BeginProfile
  <2> QED
    BY <2>2, <2>3
<1> QED
  BY <1>1, <1>2, <1>3, <1>4, <1>5, <1>6, <1>7, <1>8 DEF Begins

-----------------------------------------------------------------------------
(* The users.                                                              *)

UsersTyped == users \in [Ids -> UserRow \cup {None}]

LEMMA UsersAreFinite == IsFiniteSet(Users) /\ Users \in SUBSET Nat
<1>1. Users \in SUBSET Ids
  BY DEF Users
<1> QED
  BY <1>1, BoundsAssumption, FS_Subset

\* A new account has an id that no account has.
LEMMA AddedUser ==
    ASSUME Typed, NEW j \in Slots, CommitUser(j)
    PROVE  \E u \in Ids \ Users :
              /\ UsersTyped' /\ \A v \in Ids \ {u} : users'[v] = users[v]
              /\ Users' = Users \cup {u}
              /\ users'[u].gen = accounts + 1 /\ users'[u].email = jobs[j].email
              /\ users'[u].role = jobs[j].role /\ users'[u].cv = 0
              /\ users'[u].secret = 0 /\ users'[u].since = 0
              /\ ~Taken(jobs[j].email)
<1> DEFINE u == NextId(Users)
           new == [gen |-> accounts + 1, email |-> jobs[j].email,
                   role |-> jobs[j].role, cv |-> 0, secret |-> 0, since |-> 0, slipped |-> FALSE]
<1>1. u \in Ids \ Users
  BY UsersAreFinite, NextIdIsNew DEF CommitUser
<1>2. jobs[j] \in Job /\ jobs[j].op \in {"setup", "create"}
  BY DEF CommitUser, Doing, Typed
<1>3. new \in UserRow /\ new # None
  <2>1. jobs[j].email \in Emails /\ jobs[j].role \in Roles
    BY <1>2, JobFields DEF Roles
  <2>2. new \in UserRow
    BY <2>1 DEF UserRow, Typed
  <2> QED
    BY <2>2, NoneAssumption
<1>4. users' = [users EXCEPT ![u] = new] /\ ~Taken(jobs[j].email)
  BY DEF CommitUser
<1> HIDE DEF u
<1>5. UsersTyped' /\ users'[u] = new /\ \A v \in Ids \ {u} : users'[v] = users[v]
  BY <1>1, <1>3, <1>4 DEF UsersTyped, Typed
<1>6. Users' = Users \cup {u}
  BY <1>1, <1>3, <1>5 DEF Users
<1> QED
  BY <1>1, <1>4, <1>5, <1>6

LEMMA UpdatedUser ==
    ASSUME Typed, NEW j \in Slots, CommitUpdate(j)
    PROVE  LET u == jobs[j].uid IN
           /\ u \in Users /\ Users' = Users /\ UsersTyped'
           /\ \A v \in Ids \ {u} : users'[v] = users[v]
           /\ users'[u].gen = users[u].gen /\ users'[u].cv = users[u].cv
           /\ users'[u].since = users[u].since /\ users'[u].slipped = users[u].slipped
           /\ users'[u].secret >= users[u].secret
           /\ users'[u].role = IF jobs[j].role = None THEN users[u].role ELSE jobs[j].role
           /\ users'[u].email = IF jobs[j].email = None THEN users[u].email ELSE jobs[j].email
           /\ jobs[j].email # None => ~Taken(jobs[j].email)
<1> DEFINE u == jobs[j].uid
           old == users[u]
           secret == IF jobs[j].password THEN old.secret + 1 ELSE old.secret
           new == [old EXCEPT !.role = IF jobs[j].role = None THEN old.role ELSE jobs[j].role,
                              !.email = IF jobs[j].email = None THEN old.email ELSE jobs[j].email,
                              !.secret = secret]
<1>1. u \in Users /\ old \in UserRow /\ jobs[j] \in Job /\ jobs[j].op \in {"update", "demote"}
  BY UserFields DEF CommitUpdate, Doing, Typed
<1>2. users' = [users EXCEPT ![u] = new] /\ (jobs[j].email # None => ~Taken(jobs[j].email))
  BY DEF CommitUpdate
<1>3. jobs[j].role \in Roles \cup {None} /\ jobs[j].email \in Emails \cup {None}
  BY <1>1, JobFields DEF Roles
<1>8. old.secret \in Nat /\ secret \in Nat /\ secret >= old.secret
  <2>1. old.secret \in Nat
    BY <1>1 DEF UserRow
  <2>2. CASE jobs[j].password
    BY <2>1, <2>2
  <2>3. CASE ~jobs[j].password
    BY <2>1, <2>3
  <2> QED
    BY <2>1, <2>2, <2>3
<1> HIDE DEF secret
<1>4. /\ new \in UserRow
      /\ new.gen = old.gen /\ new.cv = old.cv /\ new.since = old.since /\ new.slipped = old.slipped
      /\ new.secret >= old.secret
      /\ new.role = IF jobs[j].role = None THEN old.role ELSE jobs[j].role
      /\ new.email = IF jobs[j].email = None THEN old.email ELSE jobs[j].email
  BY <1>1, <1>3, <1>8 DEF UserRow
<1>5. new # None /\ u \in Ids
  BY <1>1, <1>4, NoneAssumption DEF Users
<1> HIDE DEF new
<1>6. UsersTyped' /\ users'[u] = new /\ \A v \in Ids \ {u} : users'[v] = users[v]
  BY <1>2, <1>4, <1>5 DEF UsersTyped, Typed
<1>7. Users' = Users
  BY <1>1, <1>5, <1>6 DEF Users
<1> QED
  BY <1>1, <1>2, <1>4, <1>6, <1>7

LEMMA DeletedUser ==
    ASSUME Typed, NEW j \in Slots, CommitDelete(j)
    PROVE  /\ jobs[j] \in Job /\ jobs[j].op = "delete" /\ jobs[j].uid \in Ids
           /\ UsersTyped' /\ Users' = Users \ {jobs[j].uid}
           /\ \A v \in Ids \ {jobs[j].uid} : users'[v] = users[v]
<1>1. jobs[j] \in Job /\ jobs[j].op = "delete" /\ jobs[j].uid \in Ids
  BY JobFields DEF CommitDelete, Doing, Typed
<1>2. users' = [users EXCEPT ![jobs[j].uid] = None]
  BY DEF CommitDelete
<1> QED
  BY <1>1, <1>2 DEF UsersTyped, Users, Typed

LEMMA ResetUser ==
    ASSUME Typed, NEW j \in Slots, CommitReset(j)
    PROVE  LET u == jobs[j].uid IN
           /\ u \in Users /\ Users' = Users /\ UsersTyped'
           /\ \A v \in Ids \ {u} : users'[v] = users[v]
           /\ users'[u].gen = users[u].gen /\ users'[u].cv = jobs[j].cv + 1
           /\ users'[u].email = users[u].email /\ users'[u].role = users[u].role
           /\ users'[u].since = users'[u].secret
           /\ ~users'[u].slipped => ~users[u].slipped /\ users[u].cv < users'[u].cv
<1> DEFINE u == jobs[j].uid
           old == users[u]
           new == [old EXCEPT !.cv = jobs[j].cv + 1, !.secret = old.secret + 1,
                              !.since = old.secret + 1,
                              !.slipped = old.slipped \/ old.cv >= jobs[j].cv + 1]
<1>1. u \in Users /\ old \in UserRow /\ old.cv \in Nat /\ jobs[j] \in Job /\ jobs[j].op = "reset"
  BY UserFields DEF CommitReset, Doing, Typed
<1>2. users' = [users EXCEPT ![u] = new]
  BY DEF CommitReset
<1>3. jobs[j].cv \in Nat
  BY <1>1, JobFields
<1>4. /\ new \in UserRow
      /\ new.gen = old.gen /\ new.cv = jobs[j].cv + 1 /\ new.email = old.email /\ new.role = old.role
      /\ new.since = new.secret
      /\ ~new.slipped => ~old.slipped /\ ~(old.cv >= jobs[j].cv + 1)
  <2>1. old.secret + 1 \in Nat /\ jobs[j].cv + 1 \in Nat /\ old.slipped \in BOOLEAN
    BY <1>1, <1>3 DEF UserRow
  <2>2. (old.slipped \/ old.cv >= jobs[j].cv + 1) \in BOOLEAN
    OBVIOUS
  <2> QED
    BY <1>1, <1>3, <2>1, <2>2 DEF UserRow
<1>5. new # None /\ u \in Ids
  BY <1>1, <1>4, NoneAssumption DEF Users
<1> HIDE DEF new
<1>6. UsersTyped' /\ users'[u] = new /\ \A v \in Ids \ {u} : users'[v] = users[v]
  BY <1>2, <1>4, <1>5 DEF UsersTyped, Typed
<1>7. Users' = Users
  BY <1>1, <1>5, <1>6 DEF Users
<1>8. ~new.slipped => ~old.slipped /\ old.cv < new.cv
  BY <1>1, <1>3, <1>4
<1> QED
  BY <1>1, <1>4, <1>6, <1>7, <1>8

LEMMA UsersChange ==
    ASSUME [AccountsNext]_vars
    PROVE  \/ \E j \in Slots : CommitUser(j) \/ CommitUpdate(j) \/ CommitDelete(j) \/ CommitReset(j)
           \/ UNCHANGED users
<1> USE DEF Begin
<1>1. ASSUME NEW j \in Slots, Begins(j) PROVE UNCHANGED users
  BY <1>1 DEF Begins, BeginSetup, BeginCreate, BeginUpdate, BeginDelete, BeginDeleteOwn, BeginProfile,
              BeginRow, BeginRotate, BeginReset
<1>2. ASSUME AtOnce PROVE UNCHANGED users
  BY <1>2 DEF AtOnce, Login, ForgotPassword, ResetData, Logout, EndRow
<1> QED
  BY <1>1, <1>2, Steps DEF Commits, CommitRow, CommitRotate, Abort, vars

-----------------------------------------------------------------------------
(* Who is crossed.                                                         *)

CrossedBy(j) ==
    CASE CommitUser(j) /\ jobs[j].op = "setup" -> {"setup"}
      [] CommitUpdate(j) /\ jobs[j].op = "demote" -> {"demote", "delete"}
      [] CommitDelete(j) -> {"demote", "delete"}
      [] CommitRotate(j) -> {"rotate"}
      [] OTHER -> {}

LEMMA CommitUserJobs ==
    ASSUME Typed, NEW j \in Slots, CommitUser(j)
    PROVE  /\ JobsStep(j, IF jobs[j].op = "setup" THEN {"setup"} ELSE {})
           /\ jobs'[j] # None => jobs'[j].op = "row" /\ kind = "settings"
<1> DEFINE ops == IF jobs[j].op = "setup" THEN {"setup"} ELSE {}
           u == NextId(Users)
           row == [op |-> "row", uid |-> u, gen |-> accounts + 1, name |-> None, old |-> {}]
           mine == IF kind = "settings" THEN row ELSE None
<1>1. row \in Job /\ row.op = "row"
  <2>1. u \in Ids /\ accounts + 1 \in Nat
    BY DEF CommitUser, Typed
  <2> HIDE DEF u
  <2> QED
    BY <2>1 DEF Job
<1>2. jobs' = [Crossing(j, ops) EXCEPT ![j] = mine]
  BY DEF CommitUser
<1>3. ops \in SUBSET Crossable
  BY DEF Crossable
<1> HIDE DEF ops, row
<1>4. mine \in Job \cup {None}
  BY <1>1
<1> HIDE DEF mine
<1>5. JobsStep(j, ops) /\ jobs'[j] = mine
  BY <1>2, <1>3, <1>4, CrossingJobs DEF JobsStep, Carried
<1> QED
  BY <1>1, <1>5 DEF mine, ops

LEMMA CommitJobs ==
    ASSUME Typed, NEW j \in Slots
    PROVE  /\ CommitUpdate(j) =>
                 JobsStep(j, IF jobs[j].op = "demote" THEN {"demote", "delete"} ELSE {}) /\ jobs'[j] = None
           /\ CommitDelete(j) => JobsStep(j, {"demote", "delete"}) /\ jobs'[j] = None
           /\ CommitRotate(j) => JobsStep(j, {"rotate"}) /\ jobs'[j] = None
           /\ CommitReset(j) \/ CommitRow(j) \/ Abort(j) => JobsStep(j, {}) /\ jobs'[j] = None
<1>1. ASSUME NEW ops \in SUBSET Crossable, jobs' = Crossing(j, ops)
      PROVE  JobsStep(j, ops) /\ jobs'[j] = None
  BY <1>1, CrossingJobs DEF JobsStep, Carried
<1>2. {"demote", "delete"} \in SUBSET Crossable /\ {"rotate"} \in SUBSET Crossable /\ {} \in SUBSET Crossable
  BY DEF Crossable
<1>3. CommitUpdate(j) =>
         JobsStep(j, IF jobs[j].op = "demote" THEN {"demote", "delete"} ELSE {}) /\ jobs'[j] = None
  <2> DEFINE ops == IF jobs[j].op = "demote" THEN {"demote", "delete"} ELSE {}
  <2>1. ops \in SUBSET Crossable
    BY <1>2
  <2>2. CommitUpdate(j) => jobs' = Crossing(j, ops)
    BY DEF CommitUpdate
  <2> HIDE DEF ops
  <2>3. CommitUpdate(j) => JobsStep(j, ops) /\ jobs'[j] = None
    BY <1>1, <2>1, <2>2
  <2> QED
    BY <2>3 DEF ops
<1>4. CommitDelete(j) => JobsStep(j, {"demote", "delete"}) /\ jobs'[j] = None
  BY <1>1, <1>2 DEF CommitDelete
<1>5. CommitRotate(j) => JobsStep(j, {"rotate"}) /\ jobs'[j] = None
  BY <1>1, <1>2 DEF CommitRotate
<1>6. CommitReset(j) \/ CommitRow(j) \/ Abort(j) => JobsStep(j, {}) /\ jobs'[j] = None
  BY EndedJobs DEF CommitReset, CommitRow, Abort
<1> QED
  BY <1>3, <1>4, <1>5, <1>6

\* Of each request that is in flight after a step: it began with it, or it is what
\* it was, or crossed.
LEMMA JobsChange ==
    ASSUME Typed, [AccountsNext]_vars
    PROVE  \/ UNCHANGED jobs
           \/ \E j \in Slots, ops \in SUBSET Crossable : JobsStep(j, ops)
<1>1. \A j \in Slots : Begins(j) => JobsStep(j, {})
  BY BeginsWith, BeginJobs
<1>2. \A j \in Slots : Commits(j) \/ Abort(j) => \E ops \in SUBSET Crossable : JobsStep(j, ops)
  <2>1. {"setup"} \in SUBSET Crossable /\ {"demote", "delete"} \in SUBSET Crossable
        /\ {"rotate"} \in SUBSET Crossable /\ {} \in SUBSET Crossable
    BY DEF Crossable
  <2> TAKE j \in Slots
  <2>2. CASE CommitUser(j)
    <3>1. JobsStep(j, {"setup"}) \/ JobsStep(j, {})
      BY <2>2, CommitUserJobs
    <3> QED
      BY <2>1, <3>1
  <2>3. CASE CommitUpdate(j)
    <3>1. JobsStep(j, {"demote", "delete"}) \/ JobsStep(j, {})
      BY <2>3, CommitJobs
    <3> QED
      BY <2>1, <3>1
  <2>4. CASE CommitDelete(j)
    BY <2>1, <2>4, CommitJobs
  <2>5. CASE CommitRotate(j)
    BY <2>1, <2>5, CommitJobs
  <2>6. CASE CommitReset(j) \/ CommitRow(j) \/ Abort(j)
    BY <2>1, <2>6, CommitJobs
  <2> QED
    BY <2>2, <2>3, <2>4, <2>5, <2>6 DEF Commits
<1>3. AtOnce \/ UNCHANGED vars => UNCHANGED jobs
  BY DEF AtOnce, Login, ForgotPassword, ResetData, Logout, EndRow, vars
<1>4. {} \in SUBSET Crossable
  OBVIOUS
<1> QED
  BY <1>1, <1>2, <1>3, <1>4, Steps

-----------------------------------------------------------------------------
(* The rows.                                                               *)

\* S is what is left of the rows: they keep number, user and origin, and of the
\* tokens none is deleted.
KeptRows(S) ==
    /\ S \in SUBSET TableRow /\ IsFiniteSet(S)
    /\ \A y \in S : \E r \in rows :
          y.no = r.no /\ y.uid = r.uid /\ y.from = r.from /\ (y.live => r.live)
    /\ \A y, z \in S : y.no = z.no => y = z
    /\ kind = "embed" => \A r \in rows : \E y \in S : y.no = r.no

LEMMA RowsImage ==
    ASSUME Typed, UniqueRows, NEW T \in SUBSET rows, NEW f \in [T -> TableRow],
           \A r \in T : f[r].no = r.no /\ f[r].uid = r.uid /\ f[r].from = r.from /\ (f[r].live => r.live),
           kind = "embed" => T = rows
    PROVE  KeptRows({f[r] : r \in T})
<1> DEFINE S == {f[r] : r \in T}
<1>1. S \in SUBSET TableRow
  OBVIOUS
<1>2. IsFiniteSet(S)
  <2>1. f \in Surjection(T, S)
    BY DEF Surjection
  <2>2. IsFiniteSet(T)
    BY FS_Subset DEF Typed
  <2> QED
    BY <2>1, <2>2, FS_Surjection
<1>3. \A y \in S : \E r \in rows : y.no = r.no /\ y.uid = r.uid /\ y.from = r.from /\ (y.live => r.live)
  OBVIOUS
<1>4. \A y, z \in S : y.no = z.no => y = z
  BY DEF UniqueRows
<1>5. kind = "embed" => \A r \in rows : \E y \in S : y.no = r.no
  OBVIOUS
<1> QED
  BY <1>1, <1>2, <1>3, <1>4, <1>5 DEF KeptRows

LEMMA KeptAsTheyAre ==
    ASSUME Typed, UniqueRows, NEW T \in SUBSET rows, kind = "embed" => T = rows
    PROVE  KeptRows(T)
<1> DEFINE f == [r \in T |-> r]
<1>1. f \in [T -> TableRow]
  BY DEF Typed
<1>2. KeptRows({f[r] : r \in T})
  BY <1>1, RowsImage
<1>3. {f[r] : r \in T} = T
  OBVIOUS
<1> QED
  BY <1>2, <1>3

LEMMA DeletedRows ==
    ASSUME Typed, UniqueRows, NEW j \in Slots, CommitDelete(j)
    PROVE  KeptRows(rows')
<1> DEFINE d == jobs[j]
           T == {x \in rows : x.no \notin d.own \/ kind \notin Cleared(d.how)}
           f == [r \in T |-> [r EXCEPT !.live = r.live /\ ~(kind = "key" /\ r.no \in d.own),
                                       !.late = r.late \/ (r.uid = d.uid /\ r.no \notin d.own)]]
<1>1. ASSUME NEW r \in T
      PROVE  f[r] \in TableRow /\ f[r].no = r.no /\ f[r].uid = r.uid /\ f[r].from = r.from /\ (f[r].live => r.live)
  <2>1. r \in TableRow /\ r.live \in BOOLEAN
    BY RowFields
  <2>2. (r.live /\ ~(kind = "key" /\ r.no \in d.own)) \in BOOLEAN
        /\ (r.late \/ (r.uid = d.uid /\ r.no \notin d.own)) \in BOOLEAN
    OBVIOUS
  <2> QED
    BY <2>1, <2>2 DEF TableRow
<1>2. rows' = {f[r] : r \in T}
  BY DEF CommitDelete, Afterwards
<1>3. kind = "embed" => T = rows
  BY DEF Cleared
<1>4. f \in [T -> TableRow]
  BY <1>1
<1> HIDE DEF f, T
<1>5. T \in SUBSET rows
  BY DEF T
<1> QED
  BY <1>1, <1>2, <1>3, <1>4, <1>5, RowsImage

LEMMA NewNumber ==
    ASSUME Typed
    PROVE  NextId(Numbers) \in Nat \ Numbers
<1> DEFINE f == [r \in rows |-> r.no]
<1>1. f \in Surjection(rows, Numbers)
  BY DEF Surjection, Numbers
<1>2. IsFiniteSet(Numbers)
  BY <1>1, FS_Surjection DEF Typed
<1>3. Numbers \in SUBSET Nat
  BY RowFields DEF Numbers
<1> QED
  BY <1>2, <1>3, NextIdIsNew

\* A new row has a number that no row has.
LEMMA AddedRow ==
    ASSUME Typed, NEW job \in Job, job.op \in {"row", "rotate"}, NEW from \in Nat \cup {None}
    PROVE  LET n == NewRow(job, from) IN
           /\ n \in TableRow /\ n.no \notin Numbers
           /\ n.uid = job.uid /\ n.by = job.gen /\ n.from = from /\ n.live
           /\ ~n.late => job.uid \in Users /\ users[job.uid].gen = job.gen
<1>1. job.uid \in Ids /\ job.gen \in Nat /\ job.name \in Emails \cup {None}
  BY JobFields
<1>2. NextId(Numbers) \in Nat \ Numbers
  BY NewNumber
<1>3. Overtaken(job) \in BOOLEAN
  BY DEF Overtaken
<1> QED
  BY <1>1, <1>2, <1>3 DEF NewRow, TableRow, Overtaken, Numbers

\* A request that found a row changes it.
LEMMA ChangedRows ==
    ASSUME Typed, UniqueRows, NEW j \in Slots, CommitRow(j), jobs[j].old # {}
    PROVE  /\ KeptRows(rows')
           /\ \A y \in rows' :
                 y \in rows \/ y.late \/ (y.uid = jobs[j].uid /\ y.by = jobs[j].gen /\ ~Overtaken(jobs[j]))
<1> DEFINE job == jobs[j]
           found == {r \in rows : r.no \in job.old}
           g(r) == [r EXCEPT !.by = job.gen, !.name = job.name, !.late = Overtaken(job) \/ r.uid # job.uid]
           f == [r \in rows |-> IF r \in found THEN g(r) ELSE r]
<1>0. job \in Job /\ job.op = "row" /\ job.gen \in Nat /\ job.name \in Emails \cup {None}
  BY JobFields DEF CommitRow, Doing, Typed
<1>1. ASSUME NEW r \in rows
      PROVE  /\ g(r) \in TableRow /\ g(r).no = r.no /\ g(r).uid = r.uid /\ g(r).from = r.from
             /\ g(r).live = r.live /\ g(r).by = job.gen
             /\ g(r).late = (Overtaken(job) \/ r.uid # job.uid)
  <2>1. (Overtaken(job) \/ r.uid # job.uid) \in BOOLEAN
    OBVIOUS
  <2> QED
    BY <1>0, <2>1, RowFields DEF TableRow
<1>2. rows' = (rows \ found) \cup {g(r) : r \in found}
  BY DEF CommitRow
<1> HIDE DEF g
<1>3. rows' = {f[r] : r \in rows}
  BY <1>2
<1>4. f \in [rows -> TableRow]
  BY <1>1, RowFields
<1>5. \A r \in rows : f[r].no = r.no /\ f[r].uid = r.uid /\ f[r].from = r.from /\ (f[r].live => r.live)
  BY <1>1
<1>6. KeptRows(rows')
  <2> HIDE DEF f, found
  <2> QED
    BY <1>3, <1>4, <1>5, RowsImage
<1>7. ASSUME NEW y \in rows', y \notin rows, ~y.late
      PROVE  y.uid = job.uid /\ y.by = job.gen /\ ~Overtaken(job)
  BY <1>1, <1>2, <1>7
<1> QED
  BY <1>6, <1>7

LEMMA RotatedRows ==
    ASSUME Typed, UniqueRows, NEW j \in Slots, CommitRotate(j)
    PROVE  \E S \in SUBSET TableRow :
              /\ rows' = S \cup {NewRow(jobs[j], jobs[j].row)} /\ KeptRows(S)
              /\ \A y \in S : y.no = jobs[j].row => ~y.live
              /\ \A y \in S : \E r \in rows : y = [r EXCEPT !.live = r.live /\ r.no # jobs[j].row]
<1> DEFINE f == [r \in rows |-> [r EXCEPT !.live = r.live /\ r.no # jobs[j].row]]
           S == {f[r] : r \in rows}
<1>1. ASSUME NEW r \in rows
      PROVE  /\ f[r] \in TableRow /\ f[r].no = r.no /\ f[r].uid = r.uid /\ f[r].from = r.from
             /\ f[r].live => r.live /\ r.no # jobs[j].row
  <2>1. (r.live /\ r.no # jobs[j].row) \in BOOLEAN
    OBVIOUS
  <2> QED
    BY <2>1, RowFields DEF TableRow
<1>2. rows' = S \cup {NewRow(jobs[j], jobs[j].row)}
  BY DEF CommitRotate
<1>3. \A y \in S : \E r \in rows : y = [r EXCEPT !.live = r.live /\ r.no # jobs[j].row]
  OBVIOUS
<1>4. f \in [rows -> TableRow]
  BY <1>1
<1> HIDE DEF f
<1>5. KeptRows(S)
  BY <1>1, <1>4, RowsImage
<1>6. \A y \in S : y.no = jobs[j].row => ~y.live
  BY <1>1
<1>7. S \in SUBSET TableRow
  BY <1>4
<1> QED
  BY <1>2, <1>3, <1>5, <1>6, <1>7

LEMMA EndedRows ==
    ASSUME Typed, UniqueRows, NEW r \in rows, EndRow(r)
    PROVE  KeptRows(rows') /\ \A y \in rows' : y \in rows \/ ~y.live
<1> DEFINE dead == [r EXCEPT !.live = FALSE]
<1>1. CASE kind \in {"key", "embed", "share"}
  <2> DEFINE f == [x \in rows |-> IF x = r THEN dead ELSE x]
  <2>1. dead \in TableRow /\ dead.no = r.no /\ dead.uid = r.uid /\ dead.from = r.from /\ ~dead.live
    BY RowFields DEF TableRow
  <2>2. rows' = (rows \ {r}) \cup {dead}
    BY <1>1 DEF EndRow
  <2> HIDE DEF dead
  <2>3. rows' = {f[x] : x \in rows}
    BY <2>2
  <2>4. f \in [rows -> TableRow]
    BY <2>1, RowFields
  <2>5. \A x \in rows : f[x].no = x.no /\ f[x].uid = x.uid /\ f[x].from = x.from /\ (f[x].live => x.live)
    BY <2>1
  <2>6. KeptRows(rows')
    <3> HIDE DEF f
    <3> QED
      BY <2>3, <2>4, <2>5, RowsImage
  <2> QED
    BY <2>1, <2>2, <2>6
<1>2. CASE kind \notin {"key", "embed", "share"}
  <2>1. rows' = rows \ {r}
    BY <1>2 DEF EndRow
  <2> QED
    BY <1>2, <2>1, KeptAsTheyAre
<1> QED
  BY <1>1, <1>2

LEMMA ResetRows ==
    ASSUME Typed, UniqueRows, NEW u \in Ids, ResetData(u)
    PROVE  KeptRows(rows') /\ rows' \subseteq rows
<1>1. rows' = rows \ RowsOf(u) /\ kind = "reading"
  BY DEF ResetData
<1> QED
  BY <1>1, KeptAsTheyAre

LEMMA RowsChange ==
    ASSUME [AccountsNext]_vars
    PROVE  \/ \E j \in Slots : CommitDelete(j) \/ CommitRow(j) \/ CommitRotate(j)
           \/ \E u \in Ids : ResetData(u)
           \/ \E r \in rows : EndRow(r)
           \/ UNCHANGED rows
<1> USE DEF Begin
<1>1. ASSUME NEW j \in Slots, Begins(j) PROVE UNCHANGED rows
  BY <1>1 DEF Begins, BeginSetup, BeginCreate, BeginUpdate, BeginDelete, BeginDeleteOwn, BeginProfile,
              BeginRow, BeginRotate, BeginReset
<1>2. AtOnce => UNCHANGED rows \/ (\E u \in Ids : ResetData(u)) \/ \E r \in rows : EndRow(r)
  BY DEF AtOnce, Login, ForgotPassword, Logout
<1> QED
  BY <1>1, <1>2, Steps DEF Commits, CommitUser, CommitUpdate, CommitReset, Abort, vars

-----------------------------------------------------------------------------
(* The rest of the step.                                                   *)

LEMMA KindStays == ASSUME [AccountsNext]_vars PROVE kind' = kind
<1> USE DEF Begin
<1>1. ASSUME NEW j \in Slots, Begins(j) PROVE UNCHANGED kind
  BY <1>1 DEF Begins, BeginSetup, BeginCreate, BeginUpdate, BeginDelete, BeginDeleteOwn, BeginProfile,
              BeginRow, BeginRotate, BeginReset
<1>2. ASSUME NEW j \in Slots, Commits(j) PROVE UNCHANGED kind
  BY <1>2 DEF Commits, CommitUser, CommitUpdate, CommitDelete, CommitReset, CommitRow, CommitRotate
<1>3. AtOnce => UNCHANGED kind
  BY DEF AtOnce, Login, ForgotPassword, ResetData, Logout, EndRow
<1> QED
  BY <1>1, <1>2, <1>3, Steps DEF Abort, vars

\* The counters and the history only grow.
LEMMA Growth ==
    ASSUME Typed, [AccountsNext]_vars
    PROVE  /\ begun' \in 0..MaxRequests /\ begun <= begun'
           /\ \A j \in Slots : Begins(j) => begun' = begun + 1
           /\ removed \subseteq removed' /\ slips \subseteq slips'
           /\ \/ \E j \in Slots : CommitUser(j)
              \/ accounts' = accounts /\ setups' = setups
<1> USE DEF Begin, history, Typed
<1>0. begun \in Nat /\ MaxRequests \in Nat
  BY BoundsAssumption
<1>1. ASSUME NEW j \in Slots, Begins(j)
      PROVE  begun' = begun + 1 /\ begun < MaxRequests /\ UNCHANGED history
  BY <1>1 DEF Begins, BeginSetup, BeginCreate, BeginUpdate, BeginDelete, BeginDeleteOwn, BeginProfile,
              BeginRow, BeginRotate, BeginReset
<1>2. ASSUME NEW j \in Slots, CommitUser(j)
      PROVE  UNCHANGED <<begun, removed>> /\ slips \subseteq slips'
  BY <1>2 DEF CommitUser
<1>3. ASSUME NEW j \in Slots, Commits(j), ~CommitUser(j)
      PROVE  UNCHANGED <<begun, accounts, setups>> /\ removed \subseteq removed' /\ slips \subseteq slips'
  BY <1>3 DEF Commits, CommitUpdate, CommitDelete, CommitReset, CommitRow, CommitRotate
<1>4. AtOnce => UNCHANGED history /\ (begun' = begun \/ (begun' = begun + 1 /\ begun < MaxRequests))
  BY DEF AtOnce, Login, ForgotPassword, ResetData, Logout, EndRow
<1>5. (\E j \in Slots : Abort(j)) \/ UNCHANGED vars => UNCHANGED <<begun, history>>
  BY DEF Abort, vars
<1>6. begun' = begun \/ (begun' = begun + 1 /\ begun < MaxRequests)
  BY <1>1, <1>2, <1>3, <1>4, <1>5, Steps DEF Commits
<1>7. begun' \in 0..MaxRequests /\ begun <= begun'
  BY <1>0, <1>6
<1>8. removed \subseteq removed' /\ slips \subseteq slips'
  BY <1>1, <1>2, <1>3, <1>4, <1>5, Steps
<1>9. (\E j \in Slots : CommitUser(j)) \/ (accounts' = accounts /\ setups' = setups)
  BY <1>1, <1>3, <1>4, <1>5, Steps
<1> QED
  BY <1>1, <1>7, <1>8, <1>9

\* A cookie is for the version at the login.
LEMMA SessionsChange ==
    ASSUME Typed, [AccountsNext]_vars, NEW s \in sessions', s \notin sessions
    PROVE  UNCHANGED users /\ \E u \in Users :
              s = [uid |-> u, cv |-> users[u].cv, gen |-> users[u].gen, secret |-> users[u].secret]
<1> USE DEF Begin
<1>1. ASSUME NEW j \in Slots, Begins(j) PROVE UNCHANGED sessions
  BY <1>1 DEF Begins, BeginSetup, BeginCreate, BeginUpdate, BeginDelete, BeginDeleteOwn, BeginProfile,
              BeginRow, BeginRotate, BeginReset
<1>2. ASSUME NEW j \in Slots, Commits(j) PROVE sessions' \subseteq sessions
  BY <1>2 DEF Commits, CommitUser, CommitUpdate, CommitDelete, CommitReset, CommitRow, CommitRotate
<1>3. (\E u \in Ids : ForgotPassword(u) \/ ResetData(u)) \/ (\E x \in sessions : Logout(x)) \/ (\E r \in rows : EndRow(r))
         => sessions' \subseteq sessions
  BY DEF ForgotPassword, ResetData, Logout, EndRow
<1>4. (\E j \in Slots : Abort(j)) \/ UNCHANGED vars => UNCHANGED sessions
  BY DEF Abort, vars
<1>5. \E u \in Ids : Login(u)
  BY <1>1, <1>2, <1>3, <1>4, Steps DEF AtOnce
<1> QED
  BY <1>5 DEF Login

LEMMA LinksChange ==
    ASSUME Typed, [AccountsNext]_vars
    PROVE  links' \in SUBSET Link
<1> USE DEF Begin
<1>1. ASSUME NEW j \in Slots, Begins(j) PROVE UNCHANGED links
  BY <1>1 DEF Begins, BeginSetup, BeginCreate, BeginUpdate, BeginDelete, BeginDeleteOwn, BeginProfile,
              BeginRow, BeginRotate, BeginReset
<1>2. ASSUME NEW j \in Slots, Commits(j) PROVE UNCHANGED links
  BY <1>2 DEF Commits, CommitUser, CommitUpdate, CommitDelete, CommitReset, CommitRow, CommitRotate
<1>3. ASSUME NEW u \in Ids, ForgotPassword(u) PROVE links' \in SUBSET Link
  <2>1. links' = links \cup {[email |-> users[u].email, cv |-> users[u].cv]} /\ u \in Users
    BY <1>3 DEF ForgotPassword
  <2> QED
    BY <2>1, UserFields DEF Link, Typed
<1>4. AtOnce => UNCHANGED links \/ \E u \in Ids : ForgotPassword(u)
  BY DEF AtOnce, Login, ResetData, Logout, EndRow
<1> QED
  BY <1>1, <1>2, <1>3, <1>4, Steps DEF Abort, vars, Typed

LEMMA TypedStep ==
    ASSUME Typed, UniqueRows, [AccountsNext]_vars
    PROVE  Typed'
<1>1. UsersTyped'
  BY UsersChange, AddedUser, UpdatedUser, DeletedUser, ResetUser DEF UsersTyped, Typed
<1>2. rows' \in SUBSET TableRow /\ IsFiniteSet(rows')
  <2>1. ASSUME KeptRows(rows') PROVE rows' \in SUBSET TableRow /\ IsFiniteSet(rows')
    BY <2>1 DEF KeptRows
  <2>2. ASSUME NEW j \in Slots, CommitRow(j), jobs[j].old = {}
        PROVE  rows' \in SUBSET TableRow /\ IsFiniteSet(rows')
    <3>1. rows' = rows \cup {NewRow(jobs[j], None)} /\ jobs[j] \in Job /\ jobs[j].op = "row"
      BY <2>2 DEF CommitRow, Doing, Typed
    <3>2. NewRow(jobs[j], None) \in TableRow
      BY <3>1, AddedRow
    <3> QED
      BY <3>1, <3>2, FS_AddElement DEF Typed
  <2>3. ASSUME NEW j \in Slots, CommitRotate(j)
        PROVE  rows' \in SUBSET TableRow /\ IsFiniteSet(rows')
    <3>1. jobs[j] \in Job /\ jobs[j].op = "rotate" /\ jobs[j].row \in Nat
      BY <2>3, JobFields DEF CommitRotate, Doing, Typed
    <3>2. NewRow(jobs[j], jobs[j].row) \in TableRow
      BY <3>1, AddedRow
    <3>3. PICK S \in SUBSET TableRow : rows' = S \cup {NewRow(jobs[j], jobs[j].row)} /\ KeptRows(S)
      BY <2>3, RotatedRows
    <3> QED
      BY <3>2, <3>3, FS_AddElement DEF KeptRows
  <2> QED
    BY <2>1, <2>2, <2>3, RowsChange, DeletedRows, ChangedRows, EndedRows, ResetRows DEF Typed
<1>3. sessions' \in SUBSET Cookie
  <2>1. ASSUME NEW s \in sessions', s \notin sessions PROVE s \in Cookie
    <3>1. PICK u \in Users :
             s = [uid |-> u, cv |-> users[u].cv, gen |-> users[u].gen, secret |-> users[u].secret]
      BY <2>1, SessionsChange
    <3> QED
      BY <3>1, UserFields DEF Cookie
  <2> QED
    BY <2>1 DEF Typed
<1>4. jobs' \in [Slots -> Job \cup {None}]
  BY JobsChange DEF JobsStep, Typed
<1>5. accounts' \in Nat /\ setups' \in Nat
  <2>1. ASSUME NEW j \in Slots, CommitUser(j) PROVE accounts' \in Nat /\ setups' \in Nat
    BY <2>1 DEF CommitUser, Typed
  <2> QED
    BY <2>1, Growth DEF Typed
<1> QED
  BY <1>1, <1>2, <1>3, <1>4, <1>5, KindStays, LinksChange, Growth DEF Typed, UsersTyped

\* What is in flight was in flight, or begins.
LEMMA InFlight ==
    ASSUME Typed, [AccountsNext]_vars, NEW k \in Slots, jobs'[k] # None
    PROVE  \/ Begins(k)
           \/ jobs'[k].op = "row" /\ kind = "settings"
           \/ jobs[k] # None /\ \E ops \in SUBSET Crossable : Carried(k, ops)
<1>0. {} \in SUBSET Crossable
  OBVIOUS
<1>1. CASE UNCHANGED jobs
  <2>1. Carried(k, {}) /\ jobs[k] # None
    BY <1>1 DEF Carried, Doing
  <2> QED
    BY <1>0, <2>1
<1>2. CASE \E j \in Slots : Begins(j)
  <2>1. PICK j \in Slots : Begins(j)
    BY <1>2
  <2>2. JobsStep(j, {})
    BY <2>1, BeginsWith, BeginJobs
  <2>3. k # j => Carried(k, {})
    BY <2>2 DEF JobsStep
  <2>4. k # j => jobs[k] # None
    BY <2>3, CarriedJob
  <2> QED
    BY <1>0, <2>1, <2>3, <2>4
<1>3. CASE \E j \in Slots : Commits(j) \/ Abort(j)
  <2>1. PICK j \in Slots : Commits(j) \/ Abort(j)
    BY <1>3
  <2>2. jobs'[j] = None \/ (jobs'[j].op = "row" /\ kind = "settings")
    BY <2>1, CommitUserJobs, CommitJobs DEF Commits
  <2>3. \E ops \in SUBSET Crossable : JobsStep(j, ops)
    <3>1. {"setup"} \in SUBSET Crossable /\ {"demote", "delete"} \in SUBSET Crossable
          /\ {"rotate"} \in SUBSET Crossable /\ {} \in SUBSET Crossable
      BY DEF Crossable
    <3>2. JobsStep(j, {"setup"}) \/ JobsStep(j, {"demote", "delete"}) \/ JobsStep(j, {"rotate"}) \/ JobsStep(j, {})
      BY <2>1, CommitUserJobs, CommitJobs DEF Commits
    <3> QED
      BY <3>1, <3>2
  <2>4. CASE k = j
    BY <2>2, <2>4
  <2>5. CASE k # j
    <3>1. PICK ops \in SUBSET Crossable : Carried(k, ops)
      BY <2>3, <2>5 DEF JobsStep
    <3> QED
      BY <3>1, CarriedJob
  <2> QED
    BY <2>4, <2>5
<1>4. AtOnce \/ UNCHANGED vars => UNCHANGED jobs
  BY DEF AtOnce, Login, ForgotPassword, ResetData, Logout, EndRow, vars
<1> QED
  BY <1>1, <1>2, <1>3, <1>4, Steps

-----------------------------------------------------------------------------
(* The invariant, part by part.                                            *)

LEMMA InitAccountsInv == ASSUME Init PROVE AccountsInv
<1> USE DEF Init
<1>1. Typed
  BY BoundsAssumption, FS_EmptySet DEF Typed
<1>2. Users = {} /\ Admins = {} /\ rows = {} /\ sessions = {}
  BY DEF Users, Admins
<1>3. \A ops : \A j \in Slots : ~Doing(j, ops)
  BY DEF Doing
<1>4. Counted /\ UniqueEmails /\ UniqueRows /\ NobodyYet
  BY <1>2, <1>3 DEF Counted, UniqueEmails, UniqueRows, NobodyYet
<1>5. Guarded /\ SetupsCross /\ Administered
  BY <1>2, <1>3 DEF Guarded, SetupsCross, Administered
<1>6. SecretsFit /\ CookiesFit /\ TokensFit /\ RotationsFit /\ NoRows /\ RowsOwned
  BY <1>2, <1>3 DEF SecretsFit, CookiesFit, TokensFit, RotationsFit, RotationFit, NoRows, RowsOwned
<1> QED
  BY <1>1, <1>4, <1>5, <1>6 DEF AccountsInv

LEMMA CountedStep ==
    ASSUME Typed, Counted, [AccountsNext]_vars
    PROVE  Counted'
<1>0. /\ begun \in Nat /\ begun' \in Nat /\ accounts \in Nat /\ accounts' \in Nat
      /\ begun <= begun' /\ accounts <= accounts'
  <2>1. ASSUME NEW j \in Slots, CommitUser(j) PROVE accounts' = accounts + 1
    BY <2>1 DEF CommitUser
  <2> QED
    BY <2>1, Growth, BoundsAssumption DEF Typed
<1>1. ASSUME NEW u \in Users' PROVE users'[u].cv <= begun' /\ users'[u].gen <= accounts'
  <2>1. CASE UNCHANGED users
    <3>1. u \in Users /\ users'[u] = users[u]
      BY <2>1 DEF Users
    <3> QED
      BY <1>0, <3>1, UserFields DEF Counted
  <2>2. ASSUME NEW j \in Slots, CommitUser(j)
        PROVE  users'[u].cv <= begun' /\ users'[u].gen <= accounts'
    <3>1. PICK v \in Ids \ Users :
             /\ \A w \in Ids \ {v} : users'[w] = users[w]
             /\ Users' = Users \cup {v} /\ users'[v].gen = accounts + 1 /\ users'[v].cv = 0
      BY <2>2, AddedUser
    <3>2. accounts' = accounts + 1
      BY <2>2 DEF CommitUser
    <3>3. u = v \/ (u \in Users /\ users'[u] = users[u])
      BY <3>1 DEF Users
    <3> QED
      BY <1>0, <3>1, <3>2, <3>3, UserFields DEF Counted
  <2>3. ASSUME NEW j \in Slots, CommitUpdate(j)
        PROVE  users'[u].cv <= begun' /\ users'[u].gen <= accounts'
    <3>1. u \in Users /\ users'[u].cv = users[u].cv /\ users'[u].gen = users[u].gen
      BY <2>3, UpdatedUser DEF Users
    <3> QED
      BY <1>0, <3>1, UserFields DEF Counted
  <2>4. ASSUME NEW j \in Slots, CommitDelete(j)
        PROVE  users'[u].cv <= begun' /\ users'[u].gen <= accounts'
    <3>1. u \in Users /\ users'[u] = users[u]
      BY <2>4, DeletedUser DEF Users
    <3> QED
      BY <1>0, <3>1, UserFields DEF Counted
  <2>5. ASSUME NEW j \in Slots, CommitReset(j)
        PROVE  users'[u].cv <= begun' /\ users'[u].gen <= accounts'
    <3>1. /\ u \in Users /\ users'[u].gen = users[u].gen
          /\ users'[u].cv = users[u].cv \/ users'[u].cv = jobs[j].cv + 1
      BY <2>5, ResetUser DEF Users
    <3>2. jobs[j].cv < begun /\ jobs[j].cv \in Nat
      BY <2>5, JobFields DEF CommitReset, Counted, Doing, Typed
    <3> QED
      BY <1>0, <3>1, <3>2, UserFields DEF Counted
  <2> QED
    BY <2>1, <2>2, <2>3, <2>4, <2>5, UsersChange
<1>2. ASSUME NEW s \in sessions' PROVE s.cv <= begun' /\ s.gen <= accounts'
  <2>1. CASE s \in sessions
    BY <1>0, <2>1 DEF Counted, Typed, Cookie
  <2>2. CASE s \notin sessions
    <3>1. PICK u \in Users : s.cv = users[u].cv /\ s.gen = users[u].gen
      BY <2>2, SessionsChange
    <3> QED
      BY <1>0, <3>1, UserFields DEF Counted
  <2> QED
    BY <2>1, <2>2
<1>3. ASSUME NEW k \in Slots, Doing(k, {"reset"})' PROVE jobs'[k].cv < begun'
  <2>0. jobs'[k] # None /\ jobs'[k].op = "reset"
    BY <1>3 DEF Doing
  <2>1. CASE Begins(k)
    <3>1. PICK job \in Job : Begin(k, job) /\ (job.op = "reset" => job.uid \in Users /\ job.cv = users[job.uid].cv)
      BY <2>1, BeginsWith
    <3>2. jobs'[k] = job /\ begun' = begun + 1
      BY <2>1, <3>1, BeginJobs, Growth
    <3> QED
      BY <1>0, <2>0, <3>1, <3>2, UserFields DEF Counted
  <2>2. CASE jobs[k] # None /\ \E ops \in SUBSET Crossable : Carried(k, ops)
    <3>1. jobs[k].op = "reset" /\ jobs'[k].cv = jobs[k].cv
      BY <2>0, <2>2, CarriedJob
    <3>2. jobs[k].cv < begun /\ jobs[k].cv \in Nat
      BY <2>2, <3>1, JobFields DEF Counted, Doing, Typed
    <3> QED
      BY <1>0, <3>1, <3>2
  <2> QED
    BY <2>0, <2>1, <2>2, InFlight
<1> QED
  BY <1>1, <1>2, <1>3 DEF Counted

LEMMA UniqueEmailsStep ==
    ASSUME Typed, UniqueEmails, [AccountsNext]_vars
    PROVE  UniqueEmails'
<1>1. CASE UNCHANGED users
  BY <1>1 DEF UniqueEmails, Users
<1>2. ASSUME NEW j \in Slots, CommitUser(j) PROVE UniqueEmails'
  <2>1. PICK u \in Ids \ Users :
           /\ \A v \in Ids \ {u} : users'[v] = users[v]
           /\ Users' = Users \cup {u} /\ users'[u].email = jobs[j].email /\ ~Taken(jobs[j].email)
    BY <1>2, AddedUser
  <2>2. \A v \in Users : v # u /\ users'[v].email = users[v].email /\ users[v].email # jobs[j].email
    BY <2>1 DEF Taken, Users
  <2> QED
    BY <2>1, <2>2 DEF UniqueEmails
<1>3. ASSUME NEW j \in Slots, CommitUpdate(j) PROVE UniqueEmails'
  <2> DEFINE u == jobs[j].uid
  <2>1. /\ u \in Users /\ Users' = Users /\ \A v \in Ids \ {u} : users'[v] = users[v]
        /\ users'[u].email = IF jobs[j].email = None THEN users[u].email ELSE jobs[j].email
        /\ jobs[j].email # None => ~Taken(jobs[j].email)
    BY <1>3, UpdatedUser
  <2>2. \A v \in Users \ {u} : users'[v].email = users[v].email /\ users'[u].email # users[v].email
    BY <2>1 DEF Taken, Users, UniqueEmails
  <2> QED
    BY <2>1, <2>2 DEF UniqueEmails
<1>4. ASSUME NEW j \in Slots, CommitDelete(j) PROVE UniqueEmails'
  <2>1. Users' \subseteq Users /\ \A v \in Users' : users'[v] = users[v]
    BY <1>4, DeletedUser DEF Users
  <2> QED
    BY <2>1 DEF UniqueEmails
<1>5. ASSUME NEW j \in Slots, CommitReset(j) PROVE UniqueEmails'
  <2>1. Users' = Users /\ \A v \in Users : users'[v].email = users[v].email
    BY <1>5, ResetUser DEF Users
  <2> QED
    BY <2>1 DEF UniqueEmails
<1> QED
  BY <1>1, <1>2, <1>3, <1>4, <1>5, UsersChange

LEMMA KeptAreUnique ==
    ASSUME UniqueRows, NEW S, KeptRows(S)
    PROVE  \A r, x \in S : r # x => r.no # x.no /\ (kind \in Single => r.uid # x.uid)
BY DEF KeptRows, UniqueRows

LEMMA KeptNumbers ==
    ASSUME NEW S, KeptRows(S)
    PROVE  \A y \in S : y.no \in Numbers
BY DEF KeptRows, Numbers

LEMMA UniqueRowsStep ==
    ASSUME Typed, UniqueRows, RotationsFit, [AccountsNext]_vars
    PROVE  UniqueRows'
<1>0. kind' = kind
  BY KindStays
<1>1. ASSUME KeptRows(rows') PROVE UniqueRows'
  BY <1>0, <1>1, KeptAreUnique DEF UniqueRows
<1>2. ASSUME NEW j \in Slots, CommitRow(j), jobs[j].old = {} PROVE UniqueRows'
  <2>1. rows' = rows \cup {NewRow(jobs[j], None)} /\ ~Clash(jobs[j]) /\ jobs[j] \in Job /\ jobs[j].op = "row"
    BY <1>2 DEF CommitRow, Doing, Typed
  <2>2. NewRow(jobs[j], None).no \notin Numbers /\ NewRow(jobs[j], None).uid = jobs[j].uid
    BY <2>1, AddedRow
  <2>3. \A r \in rows : r.no \in Numbers /\ (kind \in Single => r.uid # jobs[j].uid)
    BY <1>2, <2>1 DEF Clash, Numbers
  <2> QED
    BY <1>0, <2>1, <2>2, <2>3 DEF UniqueRows
<1>3. ASSUME NEW j \in Slots, CommitRotate(j) PROVE UniqueRows'
  <2>1. jobs[j] \in Job /\ jobs[j].op = "rotate" /\ jobs[j].row \in Nat /\ kind = "embed"
    BY <1>3, JobFields DEF CommitRotate, Doing, Typed, RotationsFit, RotationFit
  <2>2. PICK S \in SUBSET TableRow : rows' = S \cup {NewRow(jobs[j], jobs[j].row)} /\ KeptRows(S)
    BY <1>3, RotatedRows
  <2>3. NewRow(jobs[j], jobs[j].row).no \notin Numbers
    BY <2>1, AddedRow
  <2>4. kind \notin Single
    BY <2>1 DEF Single
  <2>5. \A y \in S : y.no \in Numbers
    BY <2>2, KeptNumbers
  <2> QED
    BY <1>0, <2>2, <2>3, <2>4, <2>5, KeptAreUnique DEF UniqueRows
<1>4. UNCHANGED rows => UniqueRows'
  BY <1>0 DEF UniqueRows
<1> QED
  BY <1>1, <1>2, <1>3, <1>4, RowsChange, DeletedRows, ChangedRows, EndedRows, ResetRows

LEMMA NobodyYetStep ==
    ASSUME Typed, NobodyYet, [AccountsNext]_vars
    PROVE  NobodyYet'
<1> SUFFICES ASSUME setups' = 0 PROVE Users' = {} /\ \A k \in Slots : ~Doing(k, {"create"})'
  BY DEF NobodyYet
<1>1. setups = 0 /\ Users = {} /\ Admins = {} /\ \A j \in Slots : ~CommitUser(j)
  <2>1. ASSUME NEW j \in Slots, CommitUser(j)
        PROVE  setups = 0 /\ jobs[j].op = "create"
    <3>1. setups' = setups + (IF jobs[j].op = "setup" THEN 1 ELSE 0) /\ Doing(j, {"setup", "create"})
      BY <2>1 DEF CommitUser
    <3> QED
      BY <3>1 DEF Typed, Doing
  <2>2. ASSUME NEW j \in Slots, CommitUser(j) PROVE FALSE
    BY <2>1, <2>2 DEF NobodyYet, CommitUser, Doing
  <2> QED
    BY <2>2, Growth DEF NobodyYet, Admins
<1>2. Users' = {}
  BY <1>1, UsersChange, UpdatedUser, DeletedUser, ResetUser DEF Users
<1>3. ASSUME NEW k \in Slots, Doing(k, {"create"})' PROVE FALSE
  <2>0. jobs'[k] # None /\ jobs'[k].op = "create"
    BY <1>3 DEF Doing
  <2>1. CASE Begins(k)
    <3>1. PICK job \in Job : Begin(k, job) /\ (job.op = "create" => Admins # {})
      BY <2>1, BeginsWith
    <3>2. jobs'[k] = job
      BY <3>1, BeginJobs
    <3> QED
      BY <1>1, <2>0, <3>1, <3>2
  <2>2. CASE jobs[k] # None /\ \E ops \in SUBSET Crossable : Carried(k, ops)
    <3>1. jobs[k].op = "create"
      BY <2>0, <2>2, CarriedJob
    <3> QED
      BY <2>2, <3>1, <1>1 DEF NobodyYet, Doing
  <2> QED
    BY <2>0, <2>1, <2>2, InFlight
<1> QED
  BY <1>2, <1>3

\* A removal: the only steps after which there may be fewer administrators.
Removes(j) == CommitDelete(j) \/ (CommitUpdate(j) /\ jobs[j].op = "demote")

LEMMA AdminsChange ==
    ASSUME Typed, [AccountsNext]_vars
    PROVE  \/ Admins \subseteq Admins' /\ \A j \in Slots : ~Removes(j)
           \/ \E j \in Slots : Removes(j) /\ Admins \ {jobs[j].uid} \subseteq Admins'
<1> SUFFICES ASSUME \A j \in Slots : ~(Removes(j) /\ Admins \ {jobs[j].uid} \subseteq Admins')
             PROVE  Admins \subseteq Admins' /\ \A j \in Slots : ~Removes(j)
  OBVIOUS
<1>1. ASSUME NEW j \in Slots, CommitDelete(j) PROVE Admins \ {jobs[j].uid} \subseteq Admins'
  BY <1>1, DeletedUser DEF Admins, Users
<1>2. ASSUME NEW j \in Slots, CommitUpdate(j) PROVE Admins \ {jobs[j].uid} \subseteq Admins'
  BY <1>2, UpdatedUser DEF Admins, Users
<1>3. \A j \in Slots : ~Removes(j)
  BY <1>1, <1>2 DEF Removes
<1>4. ASSUME NEW j \in Slots, CommitUpdate(j) PROVE Admins \subseteq Admins'
  <2>1. jobs[j] \in Job /\ jobs[j].op = "update"
    BY <1>3, <1>4 DEF Removes, CommitUpdate, Doing, Typed
  <2>2. jobs[j].role \in {"admin", None}
    BY <2>1, JobFields
  <2>3. jobs[j].uid \in Users /\ Users' = Users
        /\ users'[jobs[j].uid].role \in {"admin", users[jobs[j].uid].role}
    BY <1>4, <2>2, UpdatedUser
  <2> QED
    BY <1>2, <1>4, <2>3 DEF Admins
<1>5. ASSUME NEW j \in Slots, CommitUser(j) PROVE Admins \subseteq Admins'
  BY <1>5, AddedUser DEF Admins, Users
<1>6. ASSUME NEW j \in Slots, CommitReset(j) PROVE Admins \subseteq Admins'
  BY <1>6, ResetUser DEF Admins, Users
<1>7. UNCHANGED users => Admins \subseteq Admins'
  BY DEF Admins, Users
<1> QED
  BY <1>3, <1>4, <1>5, <1>6, <1>7, UsersChange DEF Removes

\* A removal crosses the others that are in flight, and is known to have crossed.
LEMMA RemovalCrosses ==
    ASSUME Typed, NEW j \in Slots, Removes(j)
    PROVE  /\ \A k \in Slots : Doing(k, {"delete", "demote"})' => jobs'[k].crossed
           /\ Doing(j, {"delete", "demote"})
           /\ jobs[j].crossed => "removal" \in slips'
<1>1. JobsStep(j, {"demote", "delete"}) /\ jobs'[j] = None
  BY CommitJobs DEF Removes
<1>2. ASSUME NEW k \in Slots, Doing(k, {"delete", "demote"})' PROVE jobs'[k].crossed
  <2>1. k # j /\ jobs'[k] # None /\ jobs'[k].op \in {"delete", "demote"}
    BY <1>1, <1>2 DEF Doing
  <2>2. Carried(k, {"demote", "delete"}) /\ {"demote", "delete"} \in SUBSET Crossable
    BY <1>1, <2>1 DEF JobsStep, Crossable
  <2> QED
    BY <2>1, <2>2, CarriedJob DEF Crossable
<1>3. Doing(j, {"delete", "demote"}) /\ (jobs[j].crossed => "removal" \in slips')
  BY DEF Removes, CommitDelete, CommitUpdate, Doing
<1> QED
  BY <1>2, <1>3

LEMMA NotTheLastOne ==
    ASSUME Typed, NEW u \in Users, ~LastAdmin(u), Admins # {}
    PROVE  Admins \ {u} # {}
<1>1. CASE users[u].role # "admin"
  BY <1>1 DEF Admins
<1>2. CASE users[u].role = "admin"
  <2>1. ~(Cardinality(Admins) <= 1)
    BY <1>2 DEF LastAdmin
  <2>2. Cardinality({u}) = 1 /\ IsFiniteSet({u})
    BY FS_Singleton
  <2>3. ASSUME Admins \ {u} = {} PROVE FALSE
    <3>1. Admins \in SUBSET {u}
      BY <2>3
    <3>2. Cardinality(Admins) <= 1
      BY <2>2, <3>1, FS_Subset
    <3> QED
      BY <2>1, <3>2
  <2> QED
    BY <2>3
<1> QED
  BY <1>1, <1>2

LEMMA GuardedStep ==
    ASSUME Typed, NobodyYet, Administered, Guarded, [AccountsNext]_vars
    PROVE  Guarded'
<1> SUFFICES ASSUME "removal" \notin slips',
                    NEW k \in Slots, Doing(k, {"delete", "demote"})', ~jobs'[k].crossed
             PROVE  Others(k)'
  BY DEF Guarded
<1>0. "removal" \notin slips /\ jobs'[k] # None /\ jobs'[k].op \in {"delete", "demote"}
  BY Growth DEF Doing
<1>1. Admins \subseteq Admins' /\ \A j \in Slots : ~Removes(j)
  BY AdminsChange, RemovalCrosses
<1>2. CASE Begins(k)
  <2>1. PICK job \in Job :
           /\ Begin(k, job)
           /\ job.op = "demote" => job.uid \in Users /\ Admins \ {job.uid} # {}
           /\ job.op = "delete" => job.uid \in Users /\ (Admins \ {job.uid} # {} \/ ~LastAdmin(job.uid))
    BY <1>2, BeginsWith
  <2>2. jobs'[k] = job
    BY <2>1, BeginJobs
  <2>3. ASSUME job.uid \in Users PROVE Admins # {}
    <3>1. setups \in Nat /\ setups # 0
      BY <2>3 DEF NobodyYet, Typed
    <3>2. setups > 0
      BY <3>1
    <3> QED
      BY <1>0, <3>2 DEF Administered
  <2>4. Admins \ {job.uid} # {}
    BY <1>0, <2>1, <2>2, <2>3, NotTheLastOne
  <2> QED
    BY <1>1, <2>2, <2>4 DEF Others
<1>3. CASE jobs[k] # None /\ \E ops \in SUBSET Crossable : Carried(k, ops)
  <2>1. jobs[k].op \in {"delete", "demote"} /\ jobs'[k].uid = jobs[k].uid /\ ~jobs[k].crossed
    BY <1>0, <1>3, CarriedJob DEF Crossable
  <2>2. Others(k)
    BY <1>0, <1>3, <2>1 DEF Guarded, Doing
  <2> QED
    BY <1>1, <2>1, <2>2 DEF Others
<1> QED
  BY <1>0, <1>2, <1>3, InFlight

\* A set-up crosses the others that are in flight.
LEMMA SetupStep ==
    ASSUME Typed, [AccountsNext]_vars, setups' # setups
    PROVE  \E j \in Slots :
              /\ CommitUser(j) /\ jobs[j].op = "setup" /\ setups' = setups + 1
              /\ jobs[j].crossed => "setup" \in slips'
              /\ \A k \in Slots : Doing(k, {"setup"})' => jobs'[k].crossed
<1>1. PICK j \in Slots : CommitUser(j)
  BY Growth
<1>2. jobs[j].op = "setup" /\ setups' = setups + 1
  BY <1>1 DEF CommitUser, Typed
<1>3. jobs[j].crossed => "setup" \in slips'
  BY <1>1 DEF CommitUser
<1>4. JobsStep(j, {"setup"}) /\ (jobs'[j] # None => jobs'[j].op = "row")
  BY <1>1, <1>2, CommitUserJobs
<1>5. ASSUME NEW k \in Slots, Doing(k, {"setup"})' PROVE jobs'[k].crossed
  <2>1. k # j /\ jobs'[k] # None /\ jobs'[k].op = "setup"
    BY <1>4, <1>5 DEF Doing
  <2>2. Carried(k, {"setup"}) /\ {"setup"} \in SUBSET Crossable
    BY <1>4, <2>1 DEF JobsStep, Crossable
  <2> QED
    BY <2>1, <2>2, CarriedJob DEF Crossable
<1> QED
  BY <1>1, <1>2, <1>3, <1>5

LEMMA SetupsCrossStep ==
    ASSUME Typed, Administered, SetupsCross, [AccountsNext]_vars
    PROVE  SetupsCross'
<1> SUFFICES ASSUME setups' > 0, slips' \cap {"setup", "removal"} = {},
                    NEW k \in Slots, Doing(k, {"setup"})'
             PROVE  jobs'[k].crossed
  BY DEF SetupsCross
<1>1. CASE setups' # setups
  BY <1>1, SetupStep
<1>2. CASE setups' = setups
  <2>0. setups > 0 /\ slips \cap {"setup", "removal"} = {} /\ jobs'[k] # None /\ jobs'[k].op = "setup"
    BY <1>2, Growth DEF Doing
  <2>1. CASE Begins(k)
    <3>1. PICK job \in Job : Begin(k, job) /\ (job.op = "setup" => Admins = {})
      BY <2>1, BeginsWith
    <3>2. jobs'[k] = job
      BY <3>1, BeginJobs
    <3> QED
      BY <2>0, <3>1, <3>2 DEF Administered
  <2>2. CASE jobs[k] # None /\ \E ops \in SUBSET Crossable : Carried(k, ops)
    <3>1. jobs[k].op = "setup" /\ (jobs[k].crossed => jobs'[k].crossed)
      BY <2>0, <2>2, CarriedJob DEF Crossable
    <3> QED
      BY <2>0, <2>2, <3>1 DEF SetupsCross, Doing
  <2> QED
    BY <2>0, <2>1, <2>2, InFlight
<1> QED
  BY <1>1, <1>2

LEMMA AdministeredStep ==
    ASSUME Typed, Administered, Guarded, SetupsCross, [AccountsNext]_vars
    PROVE  Administered'
<1>1. ASSUME setups' > 0, Admins' = {}, "removal" \notin slips' PROVE FALSE
  <2>0. "removal" \notin slips
    BY <1>1, Growth
  <2>1. CASE \E j \in Slots : Removes(j) /\ Admins \ {jobs[j].uid} \subseteq Admins'
    <3>1. PICK j \in Slots : Removes(j) /\ Admins \ {jobs[j].uid} \subseteq Admins'
      BY <2>1
    <3>2. Doing(j, {"delete", "demote"}) /\ ~jobs[j].crossed
      BY <1>1, <3>1, RemovalCrosses
    <3>3. Admins \ {jobs[j].uid} # {}
      BY <2>0, <3>2 DEF Guarded, Others
    <3> QED
      BY <1>1, <3>1, <3>3
  <2>2. CASE Admins \subseteq Admins'
    <3>1. ~(setups > 0)
      BY <1>1, <2>0, <2>2 DEF Administered
    <3>2. PICK j \in Slots : CommitUser(j) /\ jobs[j].op = "setup"
      BY <1>1, <3>1, SetupStep
    <3>3. jobs[j] \in Job /\ jobs[j].role = "admin"
      BY <3>2, JobFields DEF CommitUser, Doing, Typed
    <3>4. PICK u \in Ids : u \in Users' /\ users'[u].role = "admin"
      BY <3>2, <3>3, AddedUser
    <3> QED
      BY <1>1, <3>4 DEF Admins
  <2> QED
    BY <2>1, <2>2, AdminsChange
<1>2. ASSUME setups' > 1, slips' \cap {"setup", "removal"} = {} PROVE FALSE
  <2>0. slips \cap {"setup", "removal"} = {} /\ setups \in Nat
    BY <1>2, Growth DEF Typed
  <2>1. CASE setups' = setups
    BY <1>2, <2>0, <2>1 DEF Administered
  <2>2. CASE setups' # setups
    <3>1. PICK j \in Slots :
             /\ CommitUser(j) /\ jobs[j].op = "setup" /\ setups' = setups + 1
             /\ jobs[j].crossed => "setup" \in slips'
      BY <2>2, SetupStep
    <3>2. setups > 0
      BY <1>2, <2>0, <3>1
    <3>3. jobs[j].crossed
      BY <2>0, <3>1, <3>2 DEF SetupsCross, CommitUser, Doing
    <3> QED
      BY <1>2, <3>1, <3>3
  <2> QED
    BY <2>1, <2>2
<1> QED
  BY <1>1, <1>2 DEF Administered

LEMMA SecretsFitStep ==
    ASSUME Typed, SecretsFit, [AccountsNext]_vars
    PROVE  SecretsFit'
<1> SUFFICES ASSUME NEW u \in Users' PROVE users'[u].since <= users'[u].secret
  BY DEF SecretsFit
<1>1. u \in Users => users[u].since <= users[u].secret /\ users[u].since \in Nat /\ users[u].secret \in Nat
  BY UserFields DEF SecretsFit
<1>0. u \in Ids
  BY DEF Users
<1>2. CASE UNCHANGED users
  BY <1>1, <1>2 DEF Users
<1>3. ASSUME NEW j \in Slots, CommitUser(j) PROVE users'[u].since <= users'[u].secret
  <2>1. PICK v \in Ids \ Users :
           /\ \A w \in Ids \ {v} : users'[w] = users[w]
           /\ Users' = Users \cup {v} /\ users'[v].secret = 0 /\ users'[v].since = 0
    BY <1>3, AddedUser
  <2> QED
    BY <1>0, <1>1, <2>1
<1>4. ASSUME NEW j \in Slots, CommitUpdate(j) PROVE users'[u].since <= users'[u].secret
  <2>1. UsersTyped' /\ users'[u] # None
    BY <1>4, UpdatedUser DEF Users
  <2>2. users'[u].since \in Nat /\ users'[u].secret \in Nat
    BY <1>0, <2>1 DEF UsersTyped, UserRow
  <2>3. /\ u \in Users /\ users'[u].since = users[u].since
        /\ users'[u].secret >= users[u].secret
    BY <1>0, <1>1, <1>4, UpdatedUser
  <2> QED
    BY <1>1, <2>2, <2>3
<1>5. ASSUME NEW j \in Slots, CommitDelete(j) PROVE users'[u].since <= users'[u].secret
  BY <1>0, <1>1, <1>5, DeletedUser
<1>6. ASSUME NEW j \in Slots, CommitReset(j) PROVE users'[u].since <= users'[u].secret
  <2>1. UsersTyped' /\ users'[u] # None
    BY <1>6, ResetUser DEF Users
  <2>2. users'[u].since \in Nat /\ users'[u].secret \in Nat
    BY <1>0, <2>1 DEF UsersTyped, UserRow
  <2> QED
    BY <1>0, <1>1, <1>6, <2>2, ResetUser
<1> QED
  BY <1>2, <1>3, <1>4, <1>5, <1>6, UsersChange

LEMMA CookiesFitStep ==
    ASSUME Typed, Counted, SecretsFit, CookiesFit, [AccountsNext]_vars
    PROVE  CookiesFit'
<1> SUFFICES ASSUME NEW s \in sessions', s.uid \in Users', users'[s.uid].gen = s.gen, ~users'[s.uid].slipped
             PROVE  /\ s.cv <= users'[s.uid].cv
                    /\ s.cv = users'[s.uid].cv => s.secret >= users'[s.uid].since
  BY DEF CookiesFit, CookieFit
<1>1. CASE s \notin sessions
  <2>1. PICK u \in Users :
           s = [uid |-> u, cv |-> users[u].cv, gen |-> users[u].gen, secret |-> users[u].secret]
    BY <1>1, SessionsChange
  <2>2. UNCHANGED users
    BY <1>1, SessionsChange
  <2> QED
    BY <2>1, <2>2, UserFields DEF SecretsFit
<1>2. CASE s \in sessions
  <2>0. s.cv \in Nat /\ s.gen \in Nat /\ s.gen <= accounts /\ s.uid \in Ids
    BY <1>2 DEF Counted, Typed, Cookie
  <2>1. CASE UNCHANGED users
    BY <1>2, <2>1 DEF CookiesFit, CookieFit, Users
  <2>2. ASSUME NEW j \in Slots, CommitUser(j) PROVE s.uid \in Users /\ users'[s.uid] = users[s.uid]
    <3>1. PICK u \in Ids \ Users :
             /\ \A v \in Ids \ {u} : users'[v] = users[v]
             /\ Users' = Users \cup {u} /\ users'[u].gen = accounts + 1
      BY <2>2, AddedUser
    <3>2. s.uid # u
      BY <2>0, <3>1 DEF Typed
    <3> QED
      BY <3>1, <3>2, <2>0
  <2>3. ASSUME NEW j \in Slots, CommitUpdate(j)
        PROVE  /\ s.uid \in Users /\ users'[s.uid].gen = users[s.uid].gen /\ users'[s.uid].cv = users[s.uid].cv
               /\ users'[s.uid].since = users[s.uid].since /\ users'[s.uid].slipped = users[s.uid].slipped
    BY <2>0, <2>3, UpdatedUser
  <2>4. ASSUME NEW j \in Slots, CommitDelete(j) PROVE s.uid \in Users /\ users'[s.uid] = users[s.uid]
    BY <2>0, <2>4, DeletedUser
  <2>5. ASSUME NEW j \in Slots, CommitReset(j)
        PROVE  s.cv < users'[s.uid].cv \/ (s.uid \in Users /\ users'[s.uid] = users[s.uid])
    <3>1. CASE s.uid = jobs[j].uid
      <4>1. /\ s.uid \in Users /\ users'[s.uid].gen = users[s.uid].gen
            /\ ~users[s.uid].slipped /\ users[s.uid].cv < users'[s.uid].cv
            /\ users'[s.uid].cv = jobs[j].cv + 1
        BY <2>5, <3>1, ResetUser
      <4>2. s.cv <= users[s.uid].cv
        BY <1>2, <4>1 DEF CookiesFit, CookieFit
      <4>3. jobs[j].cv \in Nat /\ users[s.uid].cv \in Nat
        BY <2>5, <4>1, JobFields, UserFields DEF CommitReset, Doing, Typed
      <4> QED
        BY <2>0, <4>1, <4>2, <4>3
    <3>2. CASE s.uid # jobs[j].uid
      BY <2>0, <2>5, <3>2, ResetUser
    <3> QED
      BY <3>1, <3>2
  <2>6. ASSUME s.uid \in Users, users[s.uid].gen = s.gen, ~users[s.uid].slipped
        PROVE  s.cv <= users[s.uid].cv /\ (s.cv = users[s.uid].cv => s.secret >= users[s.uid].since)
    BY <1>2, <2>6 DEF CookiesFit, CookieFit
  <2>7. ASSUME NEW j \in Slots, CommitReset(j), s.cv < users'[s.uid].cv
        PROVE  s.cv <= users'[s.uid].cv /\ s.cv # users'[s.uid].cv
    <3>1. users'[s.uid].cv \in Nat
      <4>1. UsersTyped' /\ users'[s.uid] # None
        BY <2>7, ResetUser DEF Users
      <4> QED
        BY <4>1, <2>0 DEF UsersTyped, UserRow
    <3> QED
      BY <2>0, <2>7, <3>1
  <2> QED
    BY <2>1, <2>2, <2>3, <2>4, <2>5, <2>6, <2>7, UsersChange
<1> QED
  BY <1>1, <1>2

LEMMA KeptTokens ==
    ASSUME Typed, TokensFit, NEW S, KeptRows(S)
    PROVE  /\ \A r \in S : r.from # None => kind = "embed" /\ \E x \in S : x.no = r.from
           /\ \A r, x \in S : r.from # None /\ x.no = r.from => ~x.live
           /\ \A r, x \in S : r.from # None /\ x.from = r.from => x = r \/ "rotation" \in slips
<1>1. \A y \in S : \E r \in rows : y.no = r.no /\ y.from = r.from /\ (y.live => r.live)
  BY DEF KeptRows
<1>2. \A y, z \in S : y.no = z.no => y = z
  BY DEF KeptRows
<1>3. \A y \in S : y.from # None => kind = "embed" /\ \E x \in S : x.no = y.from
  <2> SUFFICES ASSUME NEW y \in S, y.from # None PROVE kind = "embed" /\ \E x \in S : x.no = y.from
    OBVIOUS
  <2>1. kind = "embed" /\ y.from \in Numbers
    BY <1>1 DEF TokensFit
  <2> QED
    BY <2>1 DEF Numbers, KeptRows
<1>4. \A y, z \in S : y.from # None /\ z.no = y.from => ~z.live
  <2> SUFFICES ASSUME NEW y \in S, NEW z \in S, y.from # None, z.no = y.from PROVE ~z.live
    OBVIOUS
  <2>1. PICK r \in rows : y.from = r.from
    BY <1>1
  <2>2. PICK x \in rows : z.no = x.no /\ (z.live => x.live)
    BY <1>1
  <2> QED
    BY <2>1, <2>2 DEF TokensFit
<1>5. \A y, z \in S : y.from # None /\ z.from = y.from => z = y \/ "rotation" \in slips
  <2> SUFFICES ASSUME NEW y \in S, NEW z \in S, y.from # None, z.from = y.from
               PROVE  z = y \/ "rotation" \in slips
    OBVIOUS
  <2>1. PICK r \in rows : y.from = r.from /\ y.no = r.no
    BY <1>1
  <2>2. PICK x \in rows : z.no = x.no /\ z.from = x.from
    BY <1>1
  <2>3. x = r \/ "rotation" \in slips
    BY <2>1, <2>2 DEF TokensFit
  <2> QED
    BY <1>2, <2>1, <2>2, <2>3
<1> QED
  BY <1>3, <1>4, <1>5

LEMMA TokensFitStep ==
    ASSUME Typed, UniqueRows, TokensFit, RotationsFit, [AccountsNext]_vars
    PROVE  TokensFit'
<1>0. kind' = kind /\ slips \subseteq slips'
  BY KindStays, Growth
<1>1. ASSUME KeptRows(rows') PROVE TokensFit'
  <2>1. Numbers' = {r.no : r \in rows'}
    BY DEF Numbers
  <2> QED
    BY <1>0, <1>1, <2>1, KeptTokens DEF TokensFit
<1>2. ASSUME NEW j \in Slots, CommitRow(j), jobs[j].old = {} PROVE TokensFit'
  <2> DEFINE n == NewRow(jobs[j], None)
  <2>1. rows' = rows \cup {n} /\ jobs[j] \in Job /\ jobs[j].op = "row"
    BY <1>2 DEF CommitRow, Doing, Typed
  <2>2. n.no \notin Numbers /\ n.from = None
    BY <2>1, AddedRow
  <2> HIDE DEF n
  <2>3. Numbers' = Numbers \cup {n.no}
    BY <2>1 DEF Numbers
  <2>4. \A r \in rows : r.from # None => r.from # n.no
    BY <2>2 DEF TokensFit
  <2> QED
    BY <1>0, <2>1, <2>2, <2>3, <2>4 DEF TokensFit
<1>3. ASSUME NEW j \in Slots, CommitRotate(j) PROVE TokensFit'
  <2> DEFINE n == NewRow(jobs[j], jobs[j].row)
             from == jobs[j].row
  <2>1. jobs[j] \in Job /\ jobs[j].op = "rotate" /\ from \in Nat /\ Doing(j, {"rotate"})
    BY <1>3, JobFields DEF CommitRotate, Doing, Typed
  <2>2. PICK S \in SUBSET TableRow :
           /\ rows' = S \cup {n} /\ KeptRows(S)
           /\ \A y \in S : y.no = from => ~y.live
    BY <1>3, RotatedRows
  <2>3. n.no \notin Numbers /\ n.from = from
    BY <2>1, AddedRow
  <2>4. kind = "embed" /\ from \in Numbers /\ (jobs[j].crossed \/ \A r \in rows : r.from # from)
    BY <2>1 DEF RotationsFit, RotationFit
  <2> HIDE DEF n
  <2>5. Numbers' = {y.no : y \in S} \cup {n.no}
    BY <2>2 DEF Numbers
  <2>6. from \in {y.no : y \in S}
    BY <2>2, <2>4 DEF KeptRows, Numbers
  <2>7. \A y \in S : y.from # None => y.from \in Numbers /\ y.from # n.no
    BY <2>2, <2>3 DEF KeptRows, TokensFit
  <2>8. n.no # from
    BY <2>3, <2>4
  <2>9. jobs[j].crossed => "rotation" \in slips'
    BY <1>3 DEF CommitRotate
  <2>10. ~jobs[j].crossed => \A y \in S : y.from # from
    BY <2>2, <2>4 DEF KeptRows
  <2>11. \A r \in rows' : r.from # None => kind' = "embed" /\ r.from \in Numbers'
    BY <1>0, <2>2, <2>3, <2>4, <2>5, <2>6, KeptTokens
  <2>12. \A r, x \in rows' : r.from # None /\ x.no = r.from => ~x.live
    BY <2>2, <2>3, <2>7, <2>8, KeptTokens
  <2>13. \A r, x \in rows' : r.from # None /\ x.from = r.from => x = r \/ "rotation" \in slips'
    BY <1>0, <2>2, <2>3, <2>9, <2>10, KeptTokens
  <2> QED
    BY <2>11, <2>12, <2>13 DEF TokensFit
<1>4. UNCHANGED rows => TokensFit'
  BY <1>0 DEF TokensFit, Numbers
<1> QED
  BY <1>1, <1>2, <1>3, <1>4, RowsChange, DeletedRows, ChangedRows, EndedRows, ResetRows

\* Rows of tokens stay, and one that is added is not of the token of a request that
\* it did not cross.
LEMMA TokensStay ==
    ASSUME Typed, UniqueRows, kind = "embed", [AccountsNext]_vars, \A j \in Slots : ~CommitRotate(j)
    PROVE  /\ Numbers \subseteq Numbers'
           /\ \A y \in rows' : y.from = None \/ \E r \in rows : y.from = r.from
<1>1. ASSUME KeptRows(rows')
      PROVE  Numbers \subseteq Numbers' /\ \A y \in rows' : \E r \in rows : y.from = r.from
  BY <1>1 DEF KeptRows, Numbers
<1>2. ASSUME NEW j \in Slots, CommitRow(j), jobs[j].old = {}
      PROVE  Numbers \subseteq Numbers' /\ \A y \in rows' : y.from = None \/ \E r \in rows : y.from = r.from
  <2>1. rows' = rows \cup {NewRow(jobs[j], None)} /\ jobs[j] \in Job /\ jobs[j].op = "row"
    BY <1>2 DEF CommitRow, Doing, Typed
  <2>2. NewRow(jobs[j], None).from = None
    BY <2>1, AddedRow
  <2> QED
    BY <2>1, <2>2 DEF Numbers
<1>3. UNCHANGED rows => Numbers \subseteq Numbers' /\ \A y \in rows' : \E r \in rows : y.from = r.from
  BY DEF Numbers
<1> QED
  BY <1>1, <1>2, <1>3, RowsChange, DeletedRows, ChangedRows, EndedRows, ResetRows

LEMMA RotationsFitStep ==
    ASSUME Typed, UniqueRows, TokensFit, RotationsFit, [AccountsNext]_vars
    PROVE  RotationsFit'
<1> SUFFICES ASSUME NEW k \in Slots, Doing(k, {"rotate"})'
             PROVE  /\ kind' = "embed" /\ jobs'[k].row \in Numbers'
                    /\ jobs'[k].crossed \/ \A r \in rows' : r.from # jobs'[k].row
  BY DEF RotationsFit, RotationFit
<1>0. kind' = kind /\ jobs'[k] # None /\ jobs'[k].op = "rotate"
  BY KindStays DEF Doing
<1>1. CASE Begins(k)
  <2>1. PICK job \in Job :
           Begin(k, job) /\ (job.op = "rotate" => kind = "embed" /\ \E r \in rows : r.live /\ r.no = job.row)
    BY <1>1, BeginsWith
  <2>2. jobs'[k] = job /\ rows' = rows
    BY <2>1, BeginJobs DEF Begin
  <2>3. PICK r \in rows : r.live /\ r.no = job.row
    BY <1>0, <2>1, <2>2
  <2>4. \A x \in rows : x.from # job.row
    <3>1. job.row \in Nat /\ job.row # None
      BY <2>3, RowFields, NoneAssumption
    <3> QED
      BY <2>3, <3>1 DEF TokensFit
  <2> QED
    BY <1>0, <2>1, <2>2, <2>3, <2>4 DEF Numbers
<1>2. CASE jobs[k] # None /\ \E ops \in SUBSET Crossable : Carried(k, ops)
  <2>1. jobs[k].op = "rotate" /\ jobs'[k].row = jobs[k].row /\ (jobs[k].crossed => jobs'[k].crossed)
    BY <1>0, <1>2, CarriedJob DEF Crossable
  <2>2. /\ kind = "embed" /\ jobs[k].row \in Numbers
        /\ jobs[k].crossed \/ \A r \in rows : r.from # jobs[k].row
    BY <1>2, <2>1 DEF RotationsFit, RotationFit, Doing
  <2>3. ASSUME NEW j \in Slots, CommitRotate(j)
        PROVE  jobs'[k].crossed /\ Numbers \subseteq Numbers'
    <3>1. JobsStep(j, {"rotate"}) /\ jobs'[j] = None
      BY <2>3, CommitJobs
    <3>2. Carried(k, {"rotate"}) /\ {"rotate"} \in SUBSET Crossable
      BY <1>0, <3>1 DEF JobsStep, Crossable
    <3>3. jobs'[k].crossed
      BY <1>2, <2>1, <3>2, CarriedJob DEF Crossable
    <3>4. PICK S \in SUBSET TableRow : rows' = S \cup {NewRow(jobs[j], jobs[j].row)} /\ KeptRows(S)
      BY <2>3, RotatedRows
    <3>5. Numbers \subseteq Numbers'
      BY <2>2, <3>4 DEF KeptRows, Numbers
    <3> QED
      BY <3>3, <3>5
  <2>4. jobs[k].row \in Nat /\ jobs[k].row # None
    BY <1>2, <2>1, JobFields, NoneAssumption DEF Typed
  <2>5. CASE \A j \in Slots : ~CommitRotate(j)
    BY <1>0, <2>1, <2>2, <2>4, <2>5, TokensStay
  <2> QED
    BY <1>0, <2>1, <2>2, <2>3, <2>5
<1> QED
  BY <1>0, <1>1, <1>2, InFlight

LEMMA NoRowsStep ==
    ASSUME Typed, UniqueRows, NoRows, [AccountsNext]_vars
    PROVE  NoRows'
<1> SUFFICES ASSUME kind' = "session"
             PROVE  rows' = {} /\ \A k \in Slots : ~Doing(k, {"row", "rotate"})'
  BY DEF NoRows
<1>0. kind = "session" /\ rows = {} /\ \A j \in Slots : ~Doing(j, {"row", "rotate"})
  BY KindStays DEF NoRows
<1>1. KeptRows(rows') => rows' = {}
  BY <1>0 DEF KeptRows
<1>2. rows' = {}
  BY <1>0, <1>1, RowsChange, DeletedRows, EndedRows, ResetRows DEF CommitRow, CommitRotate, Doing
<1>3. ASSUME NEW k \in Slots, Doing(k, {"row", "rotate"})' PROVE FALSE
  <2>0. jobs'[k] # None /\ jobs'[k].op \in {"row", "rotate"}
    BY <1>3 DEF Doing
  <2>1. CASE Begins(k)
    <3>1. PICK job \in Job :
             /\ Begin(k, job)
             /\ job.op = "row" => kind # "session"
             /\ job.op = "rotate" => kind = "embed"
      BY <2>1, BeginsWith
    <3>2. jobs'[k] = job
      BY <3>1, BeginJobs
    <3> QED
      BY <1>0, <2>0, <3>1, <3>2
  <2>2. CASE jobs[k] # None /\ \E ops \in SUBSET Crossable : Carried(k, ops)
    <3>1. jobs[k].op \in {"row", "rotate"}
      BY <2>0, <2>2, CarriedJob
    <3> QED
      BY <1>0, <2>2, <3>1 DEF Doing
  <2> QED
    BY <1>0, <2>0, <2>1, <2>2, InFlight
<1> QED
  BY <1>2, <1>3

LEMMA RowsOwnedStep ==
    ASSUME Typed, UniqueRows, RotationsFit, NoRows, RowsOwned, [AccountsNext]_vars
    PROVE  RowsOwned'
<1>0. kind' = kind /\ removed \subseteq removed'
  BY KindStays, Growth
\* What does not change the rows.
<1>1. ASSUME rows' \subseteq rows, \A r \in rows : r.uid \in Users => r.uid \in Users' /\ users'[r.uid].gen = users[r.uid].gen
      PROVE  RowsOwned'
  BY <1>0, <1>1 DEF RowsOwned, Owned
<1>2. ASSUME NEW j \in Slots, CommitUser(j) PROVE RowsOwned'
  <2>1. Users \subseteq Users' /\ \A u \in Users : users'[u] = users[u]
    BY <1>2, AddedUser DEF Users
  <2>2. rows' = rows
    BY <1>2 DEF CommitUser
  <2> QED
    BY <1>1, <2>1, <2>2
<1>3. ASSUME NEW j \in Slots, CommitUpdate(j) \/ CommitReset(j) PROVE RowsOwned'
  <2>1. Users \subseteq Users' /\ \A u \in Users : users'[u].gen = users[u].gen
    BY <1>3, UpdatedUser, ResetUser DEF Users
  <2>2. rows' = rows
    BY <1>3 DEF CommitUpdate, CommitReset
  <2> QED
    BY <1>1, <2>1, <2>2
<1>4. ASSUME NEW j \in Slots, CommitDelete(j) PROVE RowsOwned'
  <2> DEFINE d == jobs[j]
             g(r) == [r EXCEPT !.live = r.live /\ ~(kind = "key" /\ r.no \in d.own),
                               !.late = r.late \/ (r.uid = d.uid /\ r.no \notin d.own)]
  <2>1. /\ d \in Job /\ d.op = "delete" /\ d.uid \in Ids /\ Users' = Users \ {d.uid}
        /\ \A v \in Ids \ {d.uid} : users'[v] = users[v]
    BY <1>4, DeletedUser
  <2>2. d.how \in {"admin", "self"}
    BY <2>1, JobFields
  <2>3. removed' = removed \cup (IF d.how = "admin" /\ d.uid \in Users THEN {users[d.uid].gen} ELSE {})
    BY <1>4 DEF CommitDelete
  <2>4. SUFFICES ASSUME NEW y \in rows', y.live, ~y.late, kind \notin {"embed", "share", "mapping"},
                        ~(kind \in {"reading", "oidc"} /\ y.by \in removed')
                 PROVE  y.uid \in Users' /\ users'[y.uid].gen = y.by
    BY <1>0 DEF RowsOwned, Owned
  <2>5. PICK r \in rows : y = g(r) /\ (r.no \notin d.own \/ kind \notin Cleared(d.how))
    BY <1>4 DEF CommitDelete, Afterwards
  <2>6. /\ y.uid = r.uid /\ y.by = r.by
        /\ r.live /\ ~(kind = "key" /\ r.no \in d.own)
        /\ ~r.late /\ ~(r.uid = d.uid /\ r.no \notin d.own)
    BY <2>4, <2>5, RowFields DEF TableRow
  <2> HIDE DEF g
  <2>7. r.uid \in Users /\ users[r.uid].gen = r.by
    BY <1>0, <2>4, <2>6 DEF RowsOwned, Owned
  <2>8. ASSUME r.uid = d.uid PROVE FALSE
    <3>1. r.no \in d.own /\ kind # "key" /\ kind \notin Cleared(d.how)
      BY <2>5, <2>6, <2>8
    <3>2. kind \in {"session", "reading", "oidc"}
      BY <2>2, <2>4, <3>1 DEF Typed, Kinds, Cleared
    <3>3. kind = "session" \/ d.how = "admin"
      BY <2>2, <3>1, <3>2 DEF Cleared
    <3>4. kind # "session"
      BY DEF NoRows
    <3> QED
      BY <2>3, <2>4, <2>6, <2>7, <2>8, <3>2, <3>3, <3>4
  <2> QED
    BY <2>1, <2>6, <2>7, <2>8, RowFields
<1>5. ASSUME NEW j \in Slots, CommitRow(j) PROVE RowsOwned'
  <2>1. UNCHANGED users /\ jobs[j] \in Job /\ jobs[j].op = "row" /\ Users' = Users
    BY <1>5 DEF CommitRow, Doing, Typed, Users
  <2>2. \A y \in rows' :
           y \in rows \/ y.late \/ (y.uid \in Users /\ users[y.uid].gen = y.by)
    <3>1. CASE jobs[j].old = {}
      <4>1. rows' = rows \cup {NewRow(jobs[j], None)}
        BY <1>5, <3>1 DEF CommitRow
      <4>2. LET n == NewRow(jobs[j], None) IN
            n.uid = jobs[j].uid /\ n.by = jobs[j].gen
            /\ (~n.late => jobs[j].uid \in Users /\ users[jobs[j].uid].gen = jobs[j].gen)
        BY <2>1, AddedRow
      <4> QED
        BY <4>1, <4>2
    <3>2. CASE jobs[j].old # {}
      BY <1>5, <3>2, ChangedRows DEF Overtaken
    <3> QED
      BY <3>1, <3>2
  <2> QED
    BY <1>0, <2>1, <2>2 DEF RowsOwned, Owned
<1>6. ASSUME NEW j \in Slots, CommitRotate(j) PROVE RowsOwned'
  <2>1. kind = "embed"
    BY <1>6 DEF CommitRotate, RotationsFit, RotationFit, Doing
  <2> QED
    BY <1>0, <2>1 DEF RowsOwned, Owned
<1>7. ASSUME NEW r \in rows, EndRow(r) PROVE RowsOwned'
  <2>1. UNCHANGED users /\ Users' = Users
    BY <1>7 DEF EndRow, Users
  <2>2. \A y \in rows' : y \in rows \/ ~y.live
    BY <1>7, EndedRows
  <2> QED
    BY <1>0, <2>1, <2>2 DEF RowsOwned, Owned
<1>8. ASSUME NEW u \in Ids, ResetData(u) PROVE RowsOwned'
  <2>1. UNCHANGED users /\ Users' = Users
    BY <1>8 DEF ResetData, Users
  <2>2. rows' \subseteq rows
    BY <1>8, ResetRows
  <2> QED
    BY <1>0, <2>1, <2>2 DEF RowsOwned, Owned
<1>9. UNCHANGED <<users, rows>> => RowsOwned'
  <2>1. UNCHANGED <<users, rows>> => rows' \subseteq rows /\ Users' = Users
    BY DEF Users
  <2> QED
    BY <1>1, <2>1
<1> QED
  BY <1>2, <1>3, <1>4, <1>5, <1>6, <1>7, <1>8, <1>9, UsersChange, RowsChange

-----------------------------------------------------------------------------
(* The theorems.                                                           *)

LEMMA AccountsInvStep == ASSUME AccountsInv, [AccountsNext]_vars PROVE AccountsInv'
<1> USE DEF AccountsInv
<1> QED
  BY TypedStep, CountedStep, UniqueEmailsStep, UniqueRowsStep, NobodyYetStep, GuardedStep,
     SetupsCrossStep, AdministeredStep, SecretsFitStep, CookiesFitStep, TokensFitStep, RotationsFitStep,
     NoRowsStep, RowsOwnedStep

LEMMA InvImpliesTypes == ASSUME AccountsInv PROVE AccountsTypes
<1> USE DEF AccountsInv
<1>1. \A u \in Users : users[u].role \in Roles /\ users[u].email \in Emails
  BY UserFields
<1>2. ASSUME NEW s \in sessions PROVE s.cv \in 0..MaxRequests
  <2>1. s.cv \in Nat /\ s.cv <= begun /\ begun \in 0..MaxRequests /\ MaxRequests \in Nat
    BY BoundsAssumption DEF Counted, Typed, Cookie
  <2> QED
    BY <2>1
<1> QED
  BY <1>1, <1>2 DEF AccountsTypes, UniqueEmails, UniqueRows

LEMMA InvImpliesRenewed == ASSUME AccountsInv PROVE Renewed
BY DEF AccountsInv, Renewed, CookiesFit, CookieFit, Live, TokensFit

LEMMA InvImpliesOwnRows == ASSUME AccountsInv PROVE OwnRows
BY DEF AccountsInv, OwnRows, RowsOwned, Owned, InUse

\* Every column has its type, and the unique ones are unique, however requests
\* overlap.
THEOREM AccountsTypeCorrect == AccountsSpec => []AccountsTypes
<1>1. Init => AccountsInv
  BY InitAccountsInv
<1>2. AccountsInv /\ [AccountsNext]_vars => AccountsInv'
  BY AccountsInvStep
<1>3. AccountsInv => AccountsTypes
  BY InvImpliesTypes
<1> QED
  BY <1>1, <1>2, <1>3, PTL DEF AccountsSpec

\* The library keeps an administrator, and has one set-up, unless two removals (by
\* deletion or demotion) or two set-ups overlapped.
THEOREM AdministeredAlways == AccountsSpec => []Administered
<1>1. Init => AccountsInv
  BY InitAccountsInv
<1>2. AccountsInv /\ [AccountsNext]_vars => AccountsInv'
  BY AccountsInvStep
<1>3. AccountsInv => Administered
  BY DEF AccountsInv
<1> QED
  BY <1>1, <1>2, <1>3, PTL DEF AccountsSpec

\* A browser session of before the last reset_password of its own account is over, and
\* a token that rotate replaced is revoked, unless two of them overlapped.  Cookies of
\* a deleted account whose id is used again are not meant.
THEOREM RenewedAlways == AccountsSpec => []Renewed
<1>1. Init => AccountsInv
  BY InitAccountsInv
<1>2. AccountsInv /\ [AccountsNext]_vars => AccountsInv'
  BY AccountsInvStep
<1>3. AccountsInv => Renewed
  BY InvImpliesRenewed
<1> QED
  BY <1>1, <1>2, <1>3, PTL DEF AccountsSpec

\* Nobody comes into the rows of the account that had the id before, but for embed
\* tokens, share links and mappings, which no deletion removes, what was read and the
\* link to the provider when an administrator deleted it, and the rows of requests
\* that overlapped the deletion.
THEOREM OwnRowsAlways == AccountsSpec => []OwnRows
<1>1. Init => AccountsInv
  BY InitAccountsInv
<1>2. AccountsInv /\ [AccountsNext]_vars => AccountsInv'
  BY AccountsInvStep
<1>3. AccountsInv => OwnRows
  BY InvImpliesOwnRows
<1> QED
  BY <1>1, <1>2, <1>3, PTL DEF AccountsSpec
=============================================================================
