------------------------------- MODULE Accounts -------------------------------
(***************************************************************************)
(* The accounts: set-up, the administrators' routes, deletion, browser     *)
(* sessions and password resets, and the rows that belong to a user.       *)
(*                                                                         *)
(* The handlers are plain functions, so each runs in a thread with a       *)
(* session of its own: it reads what it decides upon (Begin...) and others *)
(* may commit before it does (Commit...).  SQLite is not told to enforce   *)
(* the foreign keys and hands out the highest id + 1, so that the id of    *)
(* the newest account is free again when it is deleted.                    *)
(*                                                                         *)
(* The tables that name a user are alike, so a behaviour follows the rows  *)
(* of one kind, chosen at the start.                                       *)
(***************************************************************************)
EXTENDS Naturals, FiniteSets, FiniteSetsExt

CONSTANTS
    Emails,         \* what identifies a person
    Ids,            \* bound on the ids of users, 1..n
    Slots,          \* bound on the requests in flight, 1..n
    MaxRequests,    \* bound on the requests
    MaxRows,        \* bound on the rows
    None

Kinds == {"session", "settings", "key", "embed", "share", "mapping", "oidc", "reading"}
Roles == {"admin", "user"}

\* The row of a user, and what each handler remembers of what it read.
\* Passwords are numbered: secret is the one in force, since the one of the last reset.
UserRow == [gen : Nat, email : Emails, role : Roles, cv : Nat, secret : Nat, since : Nat,
            slipped : BOOLEAN]
Job ==
    [op : {"setup"}, email : Emails, role : {"admin"}, crossed : BOOLEAN]
    \cup [op : {"create"}, email : Emails, role : Roles, crossed : BOOLEAN]
    \cup [op : {"update"}, uid : Ids, role : {"admin", None}, email : Emails \cup {None},
          password : BOOLEAN, crossed : BOOLEAN]
    \cup [op : {"demote"}, uid : Ids, role : {"user", None}, email : Emails \cup {None},
          password : BOOLEAN, crossed : BOOLEAN]
    \cup [op : {"delete"}, uid : Ids, how : {"admin", "self"}, own : SUBSET Nat, crossed : BOOLEAN]
    \cup [op : {"reset"}, uid : Ids, cv : Nat]
    \cup [op : {"row"}, uid : Ids, gen : Nat, name : Emails \cup {None}, old : SUBSET Nat]
    \cup [op : {"rotate"}, uid : Ids, gen : Nat, name : {None}, row : Nat, crossed : BOOLEAN]

ASSUME BoundsAssumption ==
    /\ Ids \subseteq Nat /\ IsFiniteSet(Ids)
    /\ MaxRequests \in Nat
ASSUME NoneAssumption == None \notin Emails \cup Nat \cup UserRow \cup Job

VARIABLES
    kind,       \* the kind of rows that is followed
    users,      \* Ids -> the row of the user, or None
    rows,       \* the rows of that kind
    sessions,   \* the browser sessions: cookies, so they outlive the account
    links,      \* the password reset links that were mailed
    jobs,       \* Slots -> the request in flight, or None
    begun,      \* how many requests there were
    accounts,   \* history: how many accounts were created
    setups,     \* history: how many of them by the set-up
    removed,    \* history: the accounts that an administrator deleted
    slips       \* history: what was done by requests that overlapped

vars == <<kind, users, rows, sessions, links, jobs, begun, accounts, setups, removed, slips>>
history == <<accounts, setups, removed, slips>>

Users == {u \in Ids : users[u] # None}
Admins == {u \in Users : users[u].role = "admin"}
Taken(e) == \E u \in Users : users[u].email = e
RowsOf(u) == {r \in rows : r.uid = u}
NextId(S) == Max(S \cup {0}) + 1

\* Mutant: the last administrator is not the last yet.
LastAdminOfNone(u) == users[u].role = "admin" /\ Cardinality(Admins) < 1

\* The account that nobody may delete.
LastAdmin(u) == users[u].role = "admin" /\ Cardinality(Admins) <= 1

\* What a request that comes with the row finds: a key or a link that is not
\* revoked and whose user exists.
InUse(r) == r.live /\ r.uid \in Users

\* A cookie is good while the account's credentials are the same.
Live(s) == s.uid \in Users /\ users[s.uid].cv = s.cv

Init ==
    /\ kind \in Kinds
    /\ users = [u \in Ids |-> None] /\ rows = {} /\ sessions = {} /\ links = {}
    /\ jobs = [j \in Slots |-> None] /\ begun = 0
    /\ accounts = 0 /\ setups = 0 /\ removed = {} /\ slips = {}

Begin(j, job) ==
    /\ jobs[j] = None /\ (\A k \in Slots : k < j => jobs[k] # None)
    /\ begun < MaxRequests /\ begun' = begun + 1
    /\ jobs' = [jobs EXCEPT ![j] = job]
    /\ UNCHANGED <<kind, users, rows, sessions, links, history>>

Doing(j, ops) == jobs[j] # None /\ jobs[j].op \in ops
Ended(j) == [jobs EXCEPT ![j] = None]

\* Those in flight that decided upon what has just changed.
Crossing(j, ops) ==
    [k \in Slots |-> IF k = j THEN None
                     ELSE IF Doing(k, ops) THEN [jobs[k] EXCEPT !.crossed = TRUE] ELSE jobs[k]]

\* Linking to the provider has written its row before it waits for a picture, and
\* keeps the write lock of the database until it commits.
Unlocked(j) == kind = "oidc" => \A k \in Slots \ {j} : ~Doing(k, {"row"})

\* An exception, or a stop of the service: nothing is committed.
Abort(j) ==
    /\ jobs[j] # None /\ jobs' = Ended(j)
    /\ UNCHANGED <<kind, users, rows, sessions, links, begun, history>>

-----------------------------------------------------------------------------
(* Accounts are created, changed and deleted.                              *)

BeginSetup(j, e) ==
    /\ Admins = {} /\ ~Taken(e)
    /\ Begin(j, [op |-> "setup", email |-> e, role |-> "admin", crossed |-> FALSE])

BeginCreate(j, e, role) ==
    /\ Admins # {} /\ ~Taken(e)
    /\ Begin(j, [op |-> "create", email |-> e, role |-> role, crossed |-> FALSE])

\* The settings are a second transaction.
CommitUser(j) ==
    LET id == NextId(Users) IN
    /\ Doing(j, {"setup", "create"}) /\ Unlocked(j)
    /\ ~Taken(jobs[j].email)
    /\ id \in Ids
    /\ users' = [users EXCEPT ![id] = [gen |-> accounts + 1, email |-> jobs[j].email,
                   role |-> jobs[j].role, cv |-> 0, secret |-> 0, since |-> 0,
                   slipped |-> FALSE]]
    /\ accounts' = accounts + 1
    /\ setups' = setups + (IF jobs[j].op = "setup" THEN 1 ELSE 0)
    /\ slips' = slips \cup (IF jobs[j].crossed THEN {"setup"} ELSE {})
    /\ jobs' = [Crossing(j, IF jobs[j].op = "setup" THEN {"setup"} ELSE {}) EXCEPT
                  ![j] = IF kind = "settings"
                         THEN [op |-> "row", uid |-> id, gen |-> accounts + 1,
                               name |-> None, old |-> {}]
                         ELSE None]
    /\ UNCHANGED <<kind, rows, sessions, links, begun, removed>>

\* A field of the payload that is not set is None.  Administrators do not demote
\* themselves; nothing counts those who are left when they demote each other.
BeginUpdate(j, a, u, role, e, password) ==
    /\ a \in Admins /\ u \in Users
    /\ a = u => role # "user"
    /\ password => kind = "session"
    /\ e \notin {None, users[u].email} => ~Taken(e)
    /\ Begin(j, [op |-> IF role = "user" THEN "demote" ELSE "update", uid |-> u,
                 role |-> IF role = users[u].role THEN None ELSE role,
                 email |-> IF e = users[u].email THEN None ELSE e, password |-> password,
                 crossed |-> FALSE])

\* PATCH of the own profile: of what it changes the model has the password.
BeginProfile(j, u) ==
    /\ u \in Users /\ kind = "session"
    /\ Begin(j, [op |-> "update", uid |-> u, role |-> None, email |-> None, password |-> TRUE,
                 crossed |-> FALSE])

\* Only the columns that changed are written.  A new password leaves the version of
\* the credentials as it is.
CommitUpdate(j) ==
    LET old == users[jobs[j].uid] IN
    /\ Doing(j, {"update", "demote"}) /\ Unlocked(j) /\ jobs[j].uid \in Users
    /\ jobs[j].email # None => ~Taken(jobs[j].email)
    /\ users' = [users EXCEPT ![jobs[j].uid] =
                   [old EXCEPT !.role = IF jobs[j].role = None THEN @ ELSE jobs[j].role,
                               !.email = IF jobs[j].email = None THEN @ ELSE jobs[j].email,
                               !.secret = IF jobs[j].password THEN @ + 1 ELSE @]]
    /\ jobs' = Crossing(j, IF jobs[j].op = "demote" THEN {"demote", "delete"} ELSE {})
    /\ slips' = slips \cup (IF jobs[j].op = "demote" /\ jobs[j].crossed THEN {"removal"} ELSE {})
    /\ UNCHANGED <<kind, rows, sessions, links, begun, accounts, setups, removed>>

Deletion(u, how) ==
    [op |-> "delete", uid |-> u, how |-> how, own |-> {r.no : r \in RowsOf(u)}, crossed |-> FALSE]

BeginDelete(j, a, u) ==
    /\ a \in Admins /\ u \in Users \ {a} /\ ~LastAdmin(u)
    /\ Begin(j, Deletion(u, "admin"))

BeginDeleteOwn(j, u) ==
    /\ u \in Users /\ ~LastAdmin(u)
    /\ Begin(j, Deletion(u, "self"))

\* Mutant: an administrator who deletes a user leaves the settings.
ClearedAlike(how) == IF how = "self" THEN {"settings", "oidc", "reading"} ELSE {}

\* The tables a deletion empties.
Cleared(how) == IF how = "self" THEN {"settings", "oidc", "reading"} ELSE {"settings"}

\* Of the rows that the request has read the keys are revoked and others deleted.
\* One that was added since is late, for the properties.
Afterwards(d) ==
    {[r EXCEPT !.live = @ /\ ~(kind = "key" /\ r.no \in d.own),
               !.late = @ \/ (r.uid = d.uid /\ r.no \notin d.own)] :
        r \in {x \in rows : x.no \notin d.own \/ kind \notin Cleared(d.how)}}

\* Deleting a row that is gone is no error.  Whoever deletes the own account
\* loses the cookie, if the request came with one.
CommitDelete(j) ==
    LET d == jobs[j] IN
    /\ Doing(j, {"delete"}) /\ Unlocked(j)
    /\ users' = [users EXCEPT ![d.uid] = None]
    /\ rows' = Afterwards(d)
    /\ sessions' \in {sessions} \cup (IF d.how = "self"
                                      THEN {sessions \ {s} : s \in {x \in sessions : x.uid = d.uid}}
                                      ELSE {})
    /\ jobs' = Crossing(j, {"demote", "delete"})
    /\ removed' = removed \cup (IF d.how = "admin" /\ d.uid \in Users THEN {users[d.uid].gen} ELSE {})
    /\ slips' = slips \cup (IF d.crossed THEN {"removal"} ELSE {})
    /\ UNCHANGED <<kind, links, begun, accounts, setups>>

-----------------------------------------------------------------------------
(* Browser sessions and password resets.                                   *)

\* With a password, by the provider or through a trusted proxy.  Who reads the
\* account before a reset has a cookie of before the reset.
Login(u) ==
    /\ kind = "session" /\ u \in Users
    /\ begun < MaxRequests /\ begun' = begun + 1
    /\ sessions' = sessions \cup {[uid |-> u, cv |-> users[u].cv, gen |-> users[u].gen,
                                   secret |-> users[u].secret]}
    /\ UNCHANGED <<kind, users, rows, links, jobs, history>>

\* A logout, or the answer to a request with a cookie that is no longer good.
Logout(s) ==
    /\ s \in sessions /\ sessions' = sessions \ {s}
    /\ UNCHANGED <<kind, users, rows, links, jobs, begun, history>>

ForgotPassword(u) ==
    /\ kind = "session" /\ u \in Users
    /\ links' = links \cup {[email |-> users[u].email, cv |-> users[u].cv]}
    /\ UNCHANGED <<kind, users, rows, sessions, jobs, begun, history>>

\* The link names the account by its address and tells the version it was for.
BeginReset(j, l, u) ==
    /\ l \in links /\ u \in Users
    /\ users[u].email = l.email /\ users[u].cv = l.cv
    /\ Begin(j, [op |-> "reset", uid |-> u, cv |-> users[u].cv])

\* Mutant: a reset leaves the version as it is.
CommitResetKeeping(j) ==
    LET u == jobs[j].uid IN
    /\ Doing(j, {"reset"}) /\ u \in Users
    /\ users' = [users EXCEPT ![u] = [@ EXCEPT !.secret = @ + 1, !.since = users[u].secret + 1]]
    /\ jobs' = Ended(j)
    /\ UNCHANGED <<kind, rows, sessions, links, begun, history>>

\* The version is the one that was read, plus one.
CommitReset(j) ==
    LET u == jobs[j].uid
        old == users[u]
    IN
    /\ Doing(j, {"reset"}) /\ u \in Users
    /\ users' = [users EXCEPT ![u] =
                   [old EXCEPT !.cv = jobs[j].cv + 1, !.secret = @ + 1, !.since = old.secret + 1,
                               !.slipped = @ \/ old.cv >= jobs[j].cv + 1]]
    /\ jobs' = Ended(j)
    /\ UNCHANGED <<kind, rows, sessions, links, begun, history>>

-----------------------------------------------------------------------------
(* The rows of a user.                                                     *)

\* One per user (and per name): a request that finds it changes it.
Single == {"settings", "mapping", "oidc"}

\* An account of the provider is linked to one user.
BeginRow(j, u) ==
    LET sub == IF kind = "oidc" THEN users[u].email ELSE None IN
    /\ u \in Users /\ kind # "session"
    /\ kind = "settings" => RowsOf(u) = {}
    /\ Unlocked(j)
    /\ kind = "oidc" => \A r \in rows : r.name = sub => r.uid = u
    /\ Begin(j, [op |-> "row", uid |-> u, gen |-> users[u].gen, name |-> sub,
                 old |-> IF kind \in Single THEN {r.no : r \in RowsOf(u)} ELSE {}])

\* The user was deleted, or another has the id, since the request began.
Overtaken(job) == job.uid \notin Users \/ users[job.uid].gen # job.gen

NewRow(job, from) ==
    [no |-> NextId({r.no : r \in rows}), uid |-> job.uid, by |-> job.gen, name |-> job.name,
     from |-> from, live |-> TRUE, late |-> Overtaken(job)]

\* Mutant: the user is not a unique column of the settings.
ClashOfNames(job) == \E r \in rows : r.no \notin job.old /\ job.name # None /\ r.name = job.name

\* The unique columns are the last resort.
Clash(job) ==
    \E r \in rows \ {x \in rows : x.no \in job.old} :
       (kind \in Single /\ r.uid = job.uid) \/ (job.name # None /\ r.name = job.name)

\* The number of a row that was deleted may be another's by now.
CommitRow(j) ==
    LET job == jobs[j]
        found == {r \in rows : r.no \in job.old}
    IN
    /\ Doing(j, {"row"}) /\ ~Clash(job)
    /\ IF job.old = {}
       THEN Cardinality(rows) < MaxRows /\ rows' = rows \cup {NewRow(job, None)}
       ELSE /\ found # {}
            /\ rows' = (rows \ found) \cup {[r EXCEPT !.by = job.gen, !.name = job.name,
                                                      !.late = Overtaken(job) \/ r.uid # job.uid] : r \in found}
    /\ jobs' = Ended(j)
    /\ UNCHANGED <<kind, users, sessions, links, begun, history>>

\* A new token in place of one that is not revoked.
BeginRotate(j, r) ==
    /\ kind = "embed" /\ r \in rows /\ r.live /\ r.uid \in Users
    /\ Begin(j, [op |-> "rotate", uid |-> r.uid, gen |-> users[r.uid].gen, name |-> None, row |-> r.no,
                 crossed |-> FALSE])

CommitRotate(j) ==
    LET job == jobs[j] IN
    /\ Doing(j, {"rotate"}) /\ Cardinality(rows) < MaxRows
    /\ rows' = {[r EXCEPT !.live = @ /\ r.no # job.row] : r \in rows} \cup {NewRow(job, job.row)}
    /\ slips' = slips \cup (IF job.crossed THEN {"rotation"} ELSE {})
    /\ jobs' = Crossing(j, {"rotate"})
    /\ UNCHANGED <<kind, users, sessions, links, begun, accounts, setups, removed>>

\* Keys, tokens and links are revoked; the others are deleted.
EndRow(r) ==
    /\ r \in rows /\ InUse(r) /\ kind # "settings"
    /\ kind = "oidc" => \A j \in Slots : Unlocked(j)
    /\ rows' = (rows \ {r}) \cup (IF kind \in {"key", "embed", "share"}
                                  THEN {[r EXCEPT !.live = FALSE]} ELSE {})
    /\ UNCHANGED <<kind, users, sessions, links, jobs, begun, history>>

\* Everything that the user has read.
ResetData(u) ==
    /\ kind = "reading" /\ u \in Users /\ RowsOf(u) # {}
    /\ rows' = rows \ RowsOf(u)
    /\ UNCHANGED <<kind, users, sessions, links, jobs, begun, history>>

-----------------------------------------------------------------------------

AdminRequest(j) ==
    \/ \E e \in Emails : BeginSetup(j, e)
    \/ \E e \in Emails, role \in Roles : BeginCreate(j, e, role)
    \/ \E a, u \in Ids, role \in Roles \cup {None}, e \in Emails \cup {None}, password \in BOOLEAN :
          BeginUpdate(j, a, u, role, e, password)
    \/ \E a, u \in Ids : BeginDelete(j, a, u)
    \/ CommitUser(j) \/ CommitUpdate(j) \/ CommitDelete(j)
UserRequest(j) ==
    \/ \E u \in Ids : BeginDeleteOwn(j, u) \/ BeginProfile(j, u)
    \/ \E u \in Ids : BeginRow(j, u)
    \/ \E r \in rows : BeginRotate(j, r)
    \/ \E l \in links, u \in Ids : BeginReset(j, l, u)
    \/ CommitRow(j) \/ CommitRotate(j) \/ CommitReset(j)
AccountsNext ==
    \/ \E j \in Slots : AdminRequest(j) \/ UserRequest(j) \/ Abort(j)
    \/ \E u \in Ids : Login(u) \/ ForgotPassword(u) \/ ResetData(u)
    \/ \E s \in sessions : Logout(s)
    \/ \E r \in rows : EndRow(r)
AccountsSpec == Init /\ [][AccountsNext]_vars

-----------------------------------------------------------------------------

\* The roles and addresses, and what the unique columns promise: no two users with
\* one address, no two rows where a user (or a name) has one.
AccountsTypes ==
    /\ \A u \in Users : users[u].role \in Roles /\ users[u].email \in Emails
    /\ \A u, v \in Users : users[u].email = users[v].email => u = v
    /\ \A r, x \in rows : r # x => r.no # x.no /\ (kind \in Single => r.uid # x.uid)
    /\ \A s \in sessions : s.cv \in 0..MaxRequests

\* Once it was set up, the library has an administrator, and nobody is made one by
\* a second set-up.  Neither is sure when requests overlap: two administrators who
\* remove each other may both succeed, and so may two set-ups.
Administered ==
    /\ setups > 0 /\ Admins = {} => "removal" \in slips
    /\ setups > 1 => slips \cap {"setup", "removal"} # {}

\* What a renewal replaces is dead.  A session of before the last reset of the
\* password is over, unless two resets overlapped and wrote the same version, or it
\* is of a deleted account whose id this one has: only the id and the version are
\* compared.  A password changed by a PATCH ends no session.  A token that was rotated
\* is revoked and has one successor, unless two rotations overlapped.
Renewed ==
    /\ \A s \in sessions :
          Live(s) /\ users[s.uid].gen = s.gen /\ ~users[s.uid].slipped =>
             s.secret >= users[s.uid].since
    /\ \A r, x \in rows :
          r.from # None =>
             /\ x.no = r.from => ~x.live
             /\ x.from = r.from => x = r \/ "rotation" \in slips

\* What a user's id leads to was made under the account that has the id now.  No
\* deletion removes embed tokens, share links and mappings, and an administrator's
\* leaves what was read and the link to the provider; anything else left is of a
\* request that overlapped it.
OwnRows ==
    \A r \in rows :
       InUse(r) /\ users[r.uid].gen # r.by =>
          \/ r.late
          \/ kind \in {"embed", "share", "mapping"}
          \/ kind \in {"reading", "oidc"} /\ r.by \in removed
=============================================================================
