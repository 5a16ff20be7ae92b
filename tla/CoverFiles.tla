------------------------------ MODULE CoverFiles ------------------------------
(***************************************************************************)
(* The cover files on disk and the books that show them.  A file has no    *)
(* row of its own: it is named by the digest of its URL or its bytes, is   *)
(* shared by all books that came to the same name, and is unlinked by the  *)
(* request that takes it away from its last book or by the hourly cleaner. *)
(*                                                                         *)
(* update_book, create_book, import_book and batch_update are coroutines   *)
(* of one event loop: they lose it only while a download is under way, and *)
(* hold it from there to their commit.  delete_book and the cleaner run in *)
(* threads and may come between any two steps of theirs.                   *)
(***************************************************************************)
EXTENDS FiniteSets

CONSTANTS Files,        \* the names of cover files
          Books,        \* the ids of books
          Requests,     \* the coroutines that may run at the same time
          None          \* no cover, no book, no request, no thread

VARIABLES file,         \* the age of each file
          cover,        \* the cover_url of each book, NoBook where there is none
          req,          \* the coroutines
          deleting,     \* the delete_book threads, by book
          doomed,       \* the files the cleaner's pass has still to look at
          cleaning,     \* the cleaner is in a pass
          intact,       \* history: books that show the file downloaded for them
          raced         \* history: those that a deletion did not see in time

vars == <<file, cover, req, deleting, doomed, cleaning, intact, raced>>

NoBook == "no book"

\* The 60 minutes of cleanup_orphan_covers, seen from now.
Age == {"absent", "fresh", "old"}

ASSUME ConstantsAssumption ==
    /\ None \notin Files /\ NoBook \notin Files \cup {None}
    /\ IsFiniteSet(Files) /\ IsFiniteSet(Books)

\* The handlers: create_book and import_book, update_book, batch_update.
Kinds == {"create", "patch", "batch"}

\* kind is the handler, old the cover update_book found when it read the book,
\* new the one it is about to save; wrote tells whether the file was written
\* for this request, and whether a deletion has unlinked it since.
Coroutine ==
    [stage : {"waiting", "obtained", "dropped"},
     kind : Kinds, book : Books,
     old : Files \cup {None}, new : Files \cup {None}, wrote : {"no", "written", "lost"}]

\* A delete_book request: the file it has found unshared, or None.
Deletion == [stage : {"checked", "unlinked"}, old : Files \cup {None}]

Exists(b) == cover[b] # NoBook
Shown     == {cover[b] : b \in Books} \cap Files
Active    == {r \in Requests : req[r] # None}
Waiting   == {r \in Active : req[r].stage = "waiting"}
Running   == Active \ Waiting
Condemned == {deleting[b].old : b \in {c \in Books : deleting[c] # None}}

\* No book but b shows f: the query before every unlink.
Unshared(f, b) == \A c \in Books \ {b} : cover[c] # f

\* A request on b itself may unlink the file that was downloaded for b.
Forget(b) == intact' = intact \ {b} /\ raced' = raced \ {b}

ThreadsUnchanged == UNCHANGED <<deleting, doomed, cleaning>>

-----------------------------------------------------------------------------
(* Coroutines. *)

\* create_book and import_book get a new id; update_book has read its book.
Start(r, kind, b, f, stage) ==
    /\ Running = {}
    /\ req[r] = None
    /\ kind = "create" => ~Exists(b)
    /\ kind = "patch" => Exists(b)
    /\ req' = [req EXCEPT ![r] = [stage |-> stage, kind |-> kind, book |-> b,
                                  old |-> IF kind = "patch" THEN cover[b] ELSE None,
                                  new |-> f, wrote |-> "no"]]

\* No waiting: the request has no cover, names a local one, which nothing looks
\* for, or an external one that download_cover finds on disk.  batch_update
\* takes no local names.
TakeFile(r, kind, b, f) ==
    /\ kind = "batch" /\ f # None => file[f] # "absent"
    /\ Start(r, kind, b, f, "obtained")
    /\ ThreadsUnchanged
    /\ UNCHANGED <<file, cover, intact, raced>>

BeginDownload(r, kind, b, f) ==
    /\ file[f] = "absent"
    /\ Start(r, kind, b, f, "waiting")
    /\ ThreadsUnchanged
    /\ UNCHANGED <<file, cover, intact, raced>>

\* Mutant: the handler goes on while another one is between two queries.
EndDownloadBeside(r) ==
    /\ r \in Waiting
    /\ file' = [file EXCEPT ![req[r].new] = "fresh"]
    /\ req' = [req EXCEPT ![r].stage = "obtained", ![r].wrote = "written"]
    /\ ThreadsUnchanged
    /\ UNCHANGED <<cover, intact, raced>>

\* os.replace: the file is new, whatever has happened to its name meanwhile.
EndDownload(r) ==
    /\ Running = {} /\ r \in Waiting
    /\ file' = [file EXCEPT ![req[r].new] = "fresh"]
    /\ req' = [req EXCEPT ![r].stage = "obtained", ![r].wrote = "written"]
    /\ ThreadsUnchanged
    /\ UNCHANGED <<cover, intact, raced>>

\* Without an image create_book and batch_update go on with none.
FailDownload(r) ==
    /\ Running = {} /\ r \in Waiting
    /\ req[r].kind # "patch"
    /\ req' = [req EXCEPT ![r].stage = "obtained", ![r].new = None]
    /\ ThreadsUnchanged
    /\ UNCHANGED <<file, cover, intact, raced>>

\* update_book goes on with cover_url as it is; and any request may be stopped.
Abandon(r) ==
    /\ Running = {} /\ r \in Waiting
    /\ req' = [req EXCEPT ![r] = None]
    /\ ThreadsUnchanged
    /\ UNCHANGED <<file, cover, intact, raced>>

\* Mutant: the old cover is unlinked although another book shows it.
DropOldShared(r) ==
    LET q == req[r] IN
    /\ r \in Running /\ q.kind = "patch" /\ q.stage = "obtained"
    /\ req' = [req EXCEPT ![r].stage = "dropped"]
    /\ IF q.old \in Files \ {q.new}
       THEN /\ file' = [file EXCEPT ![q.old] = "absent"]
            /\ Forget(q.book)
       ELSE UNCHANGED <<file, intact, raced>>
    /\ ThreadsUnchanged
    /\ UNCHANGED cover

\* update_book unlinks the cover it is about to replace, as it was loaded.
DropOld(r) ==
    LET q == req[r] IN
    /\ r \in Running /\ q.kind = "patch" /\ q.stage = "obtained"
    /\ req' = [req EXCEPT ![r].stage = "dropped"]
    /\ IF q.old \in Files \ {q.new} /\ Unshared(q.old, q.book)
       THEN /\ file' = [file EXCEPT ![q.old] = "absent"]
            /\ Forget(q.book)
       ELSE UNCHANGED <<file, intact, raced>>
    /\ ThreadsUnchanged
    /\ UNCHANGED cover

Ready(r) == r \in Running /\ (req[r].kind = "patch" => req[r].stage = "dropped")

\* A deletion asked who shows the file of q before q has saved its book.
Overtaken(q) == q.wrote = "lost" \/ q.new \in Condemned

\* What every commit of a cover does to the books.
Save(q) ==
    /\ cover' = [cover EXCEPT ![q.book] = q.new]
    /\ intact' = IF q.wrote = "no" THEN intact \ {q.book} ELSE intact \cup {q.book}
    /\ raced' = IF q.wrote # "no" /\ Overtaken(q)
                THEN raced \cup {q.book} ELSE raced \ {q.book}

Return(r) ==
    /\ req' = [req EXCEPT ![r] = None]
    /\ ThreadsUnchanged
    /\ UNCHANGED file

CommitCreate(r) ==
    /\ Ready(r) /\ req[r].kind = "create"
    /\ ~Exists(req[r].book)
    /\ Save(req[r])
    /\ Return(r)

\* The UPDATE names the column only if its value is not the one loaded.
CommitPatch(r) ==
    LET q == req[r] IN
    /\ Ready(r) /\ q.kind = "patch"
    /\ Exists(q.book)
    /\ IF q.new = q.old THEN UNCHANGED <<cover, intact, raced>> ELSE Save(q)
    /\ Return(r)

\* batch_update reads the books after the download and skips those that show
\* the file.
CommitBatch(r) ==
    LET q == req[r] IN
    /\ Ready(r) /\ q.kind = "batch"
    /\ Exists(q.book)
    /\ IF q.new = cover[q.book] THEN UNCHANGED <<cover, intact, raced>> ELSE Save(q)
    /\ Return(r)

\* Refused dates, an ISBN that is taken, no such row, or a stop.
Refuse(r) ==
    /\ Ready(r)
    /\ req' = [req EXCEPT ![r] = None]
    /\ ThreadsUnchanged
    /\ UNCHANGED <<file, cover, intact, raced>>

\* save_uploaded_cover: a file that is there already is not touched.
Upload(f) ==
    /\ Running = {}
    /\ file' = [file EXCEPT ![f] = IF @ = "absent" THEN "fresh" ELSE @]
    /\ ThreadsUnchanged
    /\ UNCHANGED <<cover, req, intact, raced>>

-----------------------------------------------------------------------------
(* Threads. *)

\* delete_book reads the book and asks whether another one shows its cover,
\* then unlinks the file, and only then removes the rows.
BeginDelete(b) ==
    /\ Exists(b) /\ deleting[b] = None
    /\ deleting' = [deleting EXCEPT ![b] =
          [stage |-> "checked",
           old |-> IF Unshared(cover[b], b) THEN cover[b] ELSE None]]
    /\ Forget(b)
    /\ UNCHANGED <<file, cover, req, doomed, cleaning>>

Unlink(b) ==
    /\ deleting[b] # None /\ deleting[b].stage = "checked"
    /\ deleting' = [deleting EXCEPT ![b] = [stage |-> "unlinked", old |-> None]]
    /\ file' = [f \in Files |-> IF f = deleting[b].old THEN "absent" ELSE file[f]]
    /\ req' = [r \in Requests |->
          IF req[r] # None /\ req[r].wrote = "written" /\ req[r].new = deleting[b].old
          THEN [req[r] EXCEPT !.wrote = "lost"] ELSE req[r]]
    /\ UNCHANGED <<cover, doomed, cleaning, intact, raced>>

EndDelete(b) ==
    /\ deleting[b] # None /\ deleting[b].stage = "unlinked"
    /\ deleting' = [deleting EXCEPT ![b] = None]
    /\ cover' = [cover EXCEPT ![b] = NoBook]
    /\ Forget(b)
    /\ UNCHANGED <<file, req, doomed, cleaning>>

\* The commit fails, or the process stops.
StopDelete(b) ==
    /\ deleting[b] # None
    /\ deleting' = [deleting EXCEPT ![b] = None]
    /\ UNCHANGED <<file, cover, req, doomed, cleaning, intact, raced>>

\* cleanup_orphan_covers asks the database once which files are shown and
\* takes the cutoff once: those it may unlink are the others that are older.
BeginClean ==
    /\ ~cleaning
    /\ cleaning' = TRUE
    /\ doomed' = {f \in Files \ Shown : file[f] = "old"}
    /\ UNCHANGED <<file, cover, req, deleting, intact, raced>>

\* Mutant: the comparison with the cutoff is the wrong way round.
CleanFileInverted(f) ==
    /\ f \in doomed
    /\ doomed' = doomed \ {f}
    /\ file' = [file EXCEPT ![f] = IF @ = "fresh" THEN "absent" ELSE @]
    /\ UNCHANGED <<cover, req, deleting, cleaning, intact, raced>>

\* stat, then unlink: a file that was replaced meanwhile is young again.
CleanFile(f) ==
    /\ f \in doomed
    /\ doomed' = doomed \ {f}
    /\ file' = [file EXCEPT ![f] = IF @ = "old" THEN "absent" ELSE @]
    /\ UNCHANGED <<cover, req, deleting, cleaning, intact, raced>>

\* The pass ends, early if an error or a restart cuts it short.
EndClean ==
    /\ cleaning
    /\ cleaning' = FALSE
    /\ doomed' = {}
    /\ UNCHANGED <<file, cover, req, deleting, intact, raced>>

\* The grace period of a file runs out, but not between the download and the
\* commit of one handler, and not again within one pass of the cleaner.
GraceOver(f) ==
    /\ f \notin doomed
    /\ \A r \in Running : req[r].wrote # "no" => req[r].new # f
    /\ file[f] = "fresh"
    /\ file' = [file EXCEPT ![f] = "old"]
    /\ UNCHANGED <<cover, req, deleting, doomed, cleaning, intact, raced>>

-----------------------------------------------------------------------------

Init ==
    /\ file = [f \in Files |-> "absent"]
    /\ cover = [b \in Books |-> NoBook]
    /\ req = [r \in Requests |-> None]
    /\ deleting = [b \in Books |-> None]
    /\ doomed = {} /\ cleaning = FALSE /\ intact = {} /\ raced = {}

Coroutines ==
    \/ \E r \in Requests, kind \in Kinds, b \in Books :
          \/ \E f \in Files \cup {None} : TakeFile(r, kind, b, f)
          \/ \E f \in Files : BeginDownload(r, kind, b, f)
    \/ \E r \in Requests :
          \/ EndDownload(r) \/ FailDownload(r) \/ Abandon(r)
          \/ DropOld(r) \/ Refuse(r)
          \/ CommitCreate(r) \/ CommitPatch(r) \/ CommitBatch(r)
    \/ \E f \in Files : Upload(f)

Threads ==
    \/ \E b \in Books : BeginDelete(b) \/ Unlink(b) \/ EndDelete(b) \/ StopDelete(b)
    \/ BeginClean
    \/ \E f \in Files : CleanFile(f)
    \/ EndClean

Next == Coroutines \/ Threads \/ \E f \in Files : GraceOver(f)

\* Requests end: a download has a timeout, and a handler that runs is not
\* stopped by others.  The maintenance loop comes back after every pass, time
\* goes on, and an error or a restart does not cut every pass short before the
\* same file.
Fairness ==
    /\ \A r \in Requests : WF_vars(Abandon(r)) /\ WF_vars(DropOld(r)) /\ WF_vars(Refuse(r))
    /\ WF_vars(BeginClean) /\ WF_vars(EndClean)
    /\ \A f \in Files : SF_vars(CleanFile(f)) /\ SF_vars(GraceOver(f))

Spec == Init /\ [][Next]_vars /\ Fairness

-----------------------------------------------------------------------------
(* Properties. *)

\* One handler at a time is between two of its downloads or past the last.
TypeOK ==
    /\ file \in [Files -> Age]
    /\ cover \in [Books -> Files \cup {None, NoBook}]
    /\ req \in [Requests -> Coroutine \cup {None}]
    /\ deleting \in [Books -> Deletion \cup {None}]
    /\ doomed \subseteq Files /\ cleaning \in BOOLEAN
    /\ intact \subseteq Books /\ raced \subseteq Books
    /\ \A r, s \in Running : r = s

Kept(b) == cover[b] \in Files /\ file[cover[b]] # "absent"

\* A cover that was downloaded for a book stays on disk as long as the book
\* shows it and no request on this very book unlinks it: neither a PATCH of
\* another book, nor a PATCH that loaded its book before, nor the cleaner takes
\* the file away, and delete_book of another book does so in one case only,
\* which is exempt (raced): it asked who shows the file before the book with
\* the download was saved.
DownloadedCoverStays == \A b \in intact \ raced : Kept(b)

\* A file that no book shows is removed in the end, unless a book comes to
\* show it: what crashes, refused requests and batch updates leave behind does
\* not fill the disk.
OrphansGo ==
    \A f \in Files :
        file[f] # "absent" /\ f \notin Shown ~> file[f] = "absent" \/ f \in Shown
=============================================================================
