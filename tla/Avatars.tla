------------------------------- MODULE Avatars -------------------------------
(***************************************************************************)
(* The pictures of a user: a row per variant, uploaded or taken over from  *)
(* the provider of the login, the file the row names, and which of them    *)
(* the user shows.  A file is named by the user, the variant and the       *)
(* digest of the picture, so no other user has anything to do with it.     *)
(*                                                                         *)
(* The coroutines read the row, wait for the body or the download, write   *)
(* the file in a thread, and save the row; then they unlink the file that  *)
(* the row named.  The plain handlers and the cleaner run in threads.      *)
(*                                                                         *)
(* The row is saved in a SAVEPOINT.  The driver opens no transaction for   *)
(* one, so that releasing it commits the row by itself, before the user's  *)
(* row; unless a transaction is open, as it is when an account is linked.  *)
(***************************************************************************)
EXTENDS Naturals, FiniteSets

CONSTANTS
    Pictures,       \* the digests of pictures
    Workers,        \* the requests that may be in flight
    MaxTasks,       \* bound on the requests
    Nothing

Variants == {"upload", "oidc"}
Files == Variants \X Pictures

ASSUME NothingAssumption == Nothing \notin Files /\ Nothing \notin Variants \cup {"animal"}

VARIABLES
    source,     \* what the user shows: "animal", a variant; Nothing with the user gone
    image,      \* Variants -> the row: the file or Nothing, and whether it has a URL
    linked,     \* whether the user is linked to an account of the provider
    disk,       \* Files -> "absent", "fresh" or "old" (the 60 minutes of the cleaner)
    task,       \* Workers -> the request
    lock,       \* the request in a write transaction that waits for a download
    doomed,     \* the files the cleaner has still to look at
    tasks,      \* how many requests there were
    crossed     \* history: two requests overlapped where the code minds

avatarVars == <<source, image, linked, disk, task, lock, doomed, tasks, crossed>>

NoRow == [file |-> Nothing, url |-> FALSE, row |-> FALSE]
Gone == source = Nothing
Has(v) == image[v].file # Nothing /\ disk[image[v].file] # "absent"
Another(v) == CHOOSE w \in Variants : w # v

InitAvatars ==
    /\ source = "animal" /\ image = [v \in Variants |-> NoRow] /\ linked = FALSE
    /\ disk = [f \in Files |-> "absent"]
    /\ task = [w \in Workers |-> Nothing] /\ lock = Nothing /\ doomed = {}
    /\ tasks = 0 /\ crossed = FALSE

At(w, pc) == task[w] # Nothing /\ task[w].pc = pc
Active == {w \in Workers : task[w] # Nothing}
Named == {image[v].file : v \in Variants} \ {Nothing}
Stored == {task[w].new : w \in Active} \ {Nothing}

\* The handlers that run in a thread.  The others hold the event loop from the
\* row they save to the last file they unlink.
Plain == {"remove", "unlink", "erase"}
LoopFree(w) == \A x \in Active \ {w} : task[x].pc \in {"saved", "committed"} => task[x].kind \in Plain

\* The write lock is the database's: who finds it taken for more than the timeout
\* fails, and a handler on the event loop keeps the download from ending meanwhile.
Free(w) == lock \in {Nothing, w}

-----------------------------------------------------------------------------

\* kind is the handler, saw and old what it has read of the user and of the row,
\* new the file it stored, drop what is to be unlinked after the commit.
Accept(w, kind, v, pc) ==
    /\ task[w] = Nothing /\ ~Gone /\ tasks < MaxTasks
    /\ kind \notin Plain => LoopFree(w)
    /\ tasks' = tasks + 1
    /\ task' = [task EXCEPT ![w] = [pc |-> pc, kind |-> kind, variant |-> v, saw |-> source,
                                    old |-> image[v].file, new |-> Nothing, drop |-> {}]]
    /\ UNCHANGED <<source, image, linked, disk, doomed, crossed>>

BeginUpload(w) == Accept(w, "upload", "upload", "waiting") /\ UNCHANGED lock

BeginRefresh(w) ==
    /\ image["oidc"].url
    /\ Accept(w, "refresh", "oidc", "waiting") /\ UNCHANGED lock

\* The animal needs no row; a picture needs a file, or a URL to fetch it from.
BeginSelect(w, v) ==
    /\ \/ v = "animal" /\ Accept(w, "animal", "upload", "stored")
       \/ /\ v \in Variants /\ image[v].file # Nothing
          /\ Accept(w, "select", v, "stored")
       \/ /\ v = "oidc" /\ image[v].file = Nothing /\ image[v].url
          /\ Accept(w, "select", v, "waiting")
    /\ UNCHANGED lock

\* A login by the provider downloads the picture when it is shown or missing.  Its
\* answer may name none, or one that is not safe to fetch.
BeginLogin(w) ==
    /\ linked
    /\ \/ Accept(w, "login", "oidc", IF source = "oidc" \/ image["oidc"].file = Nothing
                                     THEN "waiting" ELSE "stored")
       \/ Accept(w, "forget", "oidc", "stored")
    /\ UNCHANGED lock

\* Linking adds its row first, which the query for the picture's row sends to the
\* database: the transaction is open while the picture is fetched.
BeginLink(w) ==
    /\ lock = Nothing /\ lock' = w
    /\ Accept(w, "login", "oidc", "waiting") \/ Accept(w, "forget", "oidc", "stored")

BeginPlain(w) ==
    /\ Accept(w, "remove", "upload", "ready") \/ Accept(w, "unlink", "oidc", "ready")
          \/ Accept(w, "erase", "upload", "ready")
    /\ UNCHANGED lock

-----------------------------------------------------------------------------

\* The body has come, or the download: the file is moved into its place whole.
Write(w, p) ==
    LET f == <<task[w].variant, p>> IN
    /\ At(w, "waiting")
    /\ disk' = [disk EXCEPT ![f] = "fresh"]
    /\ task' = [task EXCEPT ![w] = [@ EXCEPT !.pc = "stored", !.new = f]]
    /\ UNCHANGED <<source, image, linked, lock, doomed, tasks, crossed>>

\* No picture, or none that can be stored: a login goes on without one.
Fail(w) ==
    /\ At(w, "waiting") /\ task[w].kind = "login"
    /\ task' = [task EXCEPT ![w] = [@ EXCEPT !.pc = "stored"]]
    /\ UNCHANGED <<source, image, linked, disk, lock, doomed, tasks, crossed>>

\* The row that a request leaves.  A column is written when it differs from what
\* the request read, not from what the row holds by now.
Row(t) ==
    LET now == image[t.variant] IN
    CASE t.kind \in {"select", "animal"} /\ t.new = Nothing -> now
      [] t.kind = "forget" -> [now EXCEPT !.url = FALSE]
      [] OTHER -> [file |-> IF t.new = Nothing \/ (t.new = t.old /\ now.row) THEN now.file ELSE t.new,
                   url |-> t.variant = "oidc", row |-> TRUE]

\* What the row named at the beginning, unless the picture is the same.  A login
\* or a selection that fetched the picture for a row without one has nothing.
Replaced(t) == IF t.kind = "select" \/ t.new = Nothing THEN {} ELSE {t.old} \ {Nothing, t.new}

Choice(t) ==
    CASE t.kind = "upload" -> "upload"
      [] t.kind = "select" -> t.variant
      [] t.kind = "animal" -> "animal"
      [] OTHER -> t.saw
Shows(t, choice) == IF choice = t.saw THEN source ELSE choice

Committed(w, drop) ==
    task' = [task EXCEPT ![w] = IF drop = {} THEN Nothing ELSE [@ EXCEPT !.pc = "committed", !.drop = drop]]

\* Who saves a row in a SAVEPOINT: all but the selection of a picture that is there,
\* or of the animal, and a login without a picture.
Saves(t) == t.kind \in {"upload", "refresh", "login"} \/ (t.kind = "select" /\ t.new # Nothing)

\* upsert_avatar_image by itself.  The user need not be there, and a login that is no
\* linking has nothing else to write.
SaveRow(w) ==
    LET t == task[w] IN
    /\ At(w, "stored") /\ Saves(t) /\ lock = Nothing /\ LoopFree(w)
    /\ image' = [image EXCEPT ![t.variant] = Row(t)]
    /\ IF t.kind = "login" THEN Committed(w, Replaced(t))
       ELSE task' = [task EXCEPT ![w] = [@ EXCEPT !.pc = "saved"]]
    /\ UNCHANGED <<source, linked, disk, lock, doomed, tasks, crossed>>

\* The row, when it was not saved before; and the user's row.  An upload is shown, and
\* a selection shows what was asked for; both write the user's row, as does the
\* refresh, so that there must be one.
Commit(w) ==
    LET t == task[w]
        row == IF t.pc = "saved" THEN image[t.variant] ELSE Row(t)
    IN
    /\ At(w, "saved") \/ (At(w, "stored") /\ (lock = w \/ ~Saves(t)))
    /\ Free(w) /\ LoopFree(w)
    /\ t.kind \notin {"login", "forget"} => ~Gone
    /\ image' = [image EXCEPT ![t.variant] = row]
    /\ source' = Shows(t, Choice(t))
    /\ linked' = (linked \/ lock = w)
    /\ lock' = Nothing
    /\ Committed(w, Replaced(t))
    /\ crossed' = (crossed \/ (t.kind \in {"upload", "select"} /\ row.file = Nothing))
    /\ UNCHANGED <<disk, doomed, tasks>>

\* Mutant: the other picture is chosen without a look at its file.
FallbackOnRow(v) == IF image[Another(v)].row THEN Another(v) ELSE "animal"

\* Without the picture that is shown: the other one if its file is there.
Fallback(v) == IF Has(Another(v)) THEN Another(v) ELSE "animal"

\* A picture is removed, for good or with the link to the provider.
CommitRemoval(w) ==
    LET t == task[w] IN
    /\ At(w, "ready") /\ t.kind \in {"remove", "unlink"} /\ lock = Nothing /\ ~Gone
    /\ image' = [image EXCEPT ![t.variant] = NoRow]
    /\ source' = Shows(t, IF t.saw = t.variant THEN Fallback(t.variant) ELSE t.saw)
    /\ linked' = (linked /\ t.kind = "remove")
    /\ Committed(w, {image[t.variant].file} \ {Nothing})
    /\ crossed' = (crossed \/ (source = t.variant /\ t.saw # t.variant))
    /\ UNCHANGED <<disk, lock, doomed, tasks>>

\* The account is deleted, by its user or an administrator.
CommitErase(w) ==
    /\ At(w, "ready") /\ task[w].kind = "erase" /\ lock = Nothing
    /\ image' = [v \in Variants |-> NoRow] /\ source' = Nothing /\ linked' = FALSE
    /\ Committed(w, {image[v].file : v \in Variants} \ {Nothing})
    /\ UNCHANGED <<disk, lock, doomed, tasks, crossed>>

\* Rolled back: on a lock that is held for too long, for a user who is gone, for a
\* picture that is refused, when the service stops.
AbortTask(w) ==
    /\ task[w] # Nothing
    /\ task' = [task EXCEPT ![w] = Nothing]
    /\ lock' = IF lock = w THEN Nothing ELSE lock
    /\ UNCHANGED <<source, image, linked, disk, doomed, tasks, crossed>>

\* Whoever has stored a picture of the same digest meanwhile.
Unlink(w, f) ==
    /\ At(w, "committed") /\ f \in task[w].drop
    /\ disk' = [disk EXCEPT ![f] = "absent"]
    /\ task' = [task EXCEPT ![w] = IF @.drop = {f} THEN Nothing ELSE [@ EXCEPT !.drop = task[w].drop \ {f}]]
    /\ crossed' = (crossed \/ f \in Named \cup Stored)
    /\ UNCHANGED <<source, image, linked, lock, doomed, tasks>>

-----------------------------------------------------------------------------
(* The hourly cleaner.                                                     *)

BeginClean ==
    /\ doomed = {} /\ doomed' = Files \ Named
    /\ UNCHANGED <<source, image, linked, disk, task, lock, tasks, crossed>>

CleanFile(f) ==
    /\ f \in doomed /\ doomed' = doomed \ {f}
    /\ disk' = [disk EXCEPT ![f] = IF @ = "old" THEN "absent" ELSE @]
    /\ UNCHANGED <<source, image, linked, task, lock, tasks, crossed>>

\* Neither a request nor a pass of the cleaner takes 60 minutes.
Age(f) ==
    /\ disk[f] = "fresh" /\ f \notin Stored /\ doomed = {}
    /\ disk' = [disk EXCEPT ![f] = "old"]
    /\ UNCHANGED <<source, image, linked, task, lock, doomed, tasks, crossed>>

AvatarsNext ==
    \/ \E w \in Workers :
          \/ BeginUpload(w) \/ BeginRefresh(w) \/ BeginLogin(w) \/ BeginLink(w) \/ BeginPlain(w)
          \/ \E v \in Variants \cup {"animal"} : BeginSelect(w, v)
          \/ \E p \in Pictures : Write(w, p)
          \/ \E f \in Files : Unlink(w, f)
          \/ Fail(w) \/ SaveRow(w) \/ Commit(w) \/ CommitRemoval(w) \/ CommitErase(w) \/ AbortTask(w)
    \/ BeginClean \/ \E f \in Files : CleanFile(f) \/ Age(f)
AvatarsSpec == InitAvatars /\ [][AvatarsNext]_avatarVars

-----------------------------------------------------------------------------

\* What is shown and what the rows name is of the kind it should be.
AvatarsTypes ==
    /\ source \in Variants \cup {"animal", Nothing}
    /\ \A v \in Variants : image[v].file \in Files \cup {Nothing}

\* The picture that is shown has a row and its file is there, whatever was removed,
\* replaced, refused, cleaned up or cut short before.  Not meant is what follows when a
\* row was removed after a request that shows it had read or saved it, when a removal
\* had read another source than it met, and when a file was unlinked that a row or a
\* request has taken up since.
SelectedHasFile == source \in Variants /\ ~crossed => Has(source)
=============================================================================
