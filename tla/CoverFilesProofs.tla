--------------------------- MODULE CoverFilesProofs ---------------------------
(***************************************************************************)
(* What the coroutines, threads and the cleaner of CoverFiles keep true,   *)
(* for any number of files, books and requests.                            *)
(***************************************************************************)
EXTENDS CoverFiles, TLAPS

-----------------------------------------------------------------------------
(* The inductive invariant. *)

\* A download is for a file that it has not written yet.
DownloadsFile == \A r \in Waiting : req[r].new \in Files /\ req[r].wrote = "no"

\* Between the write of its file and its commit the file of a handler is too
\* young for the cleaner, unless a deletion has unlinked it.
WrittenIsSafe ==
    \A r \in Running : req[r].wrote = "written" =>
        req[r].new \in Files /\ file[req[r].new] = "fresh"

\* A file downloaded for a book that shows it is on disk, no deletion is about
\* to unlink it, and if the cleaner has it on its list it is too young; save
\* where a deletion asked before the book was saved.
IntactIsSafe ==
    \A b \in intact \ raced :
        /\ cover[b] \in Files
        /\ file[cover[b]] # "absent"
        /\ cover[b] \notin Condemned
        /\ file[cover[b]] = "old" => cover[b] \notin doomed

Safe == TypeOK /\ DownloadsFile /\ WrittenIsSafe /\ IntactIsSafe

-----------------------------------------------------------------------------

\* Starting a handler changes no file and no book.
LEMMA TakeFileStep ==
    ASSUME Safe, NEW r \in Requests, NEW kind \in Kinds, NEW b \in Books,
           NEW f \in Files \cup {None}, TakeFile(r, kind, b, f)
    PROVE  Safe'
<1>1. TypeOK'
  BY DEF Safe, TypeOK, TakeFile, Start, ThreadsUnchanged, Coroutine, Kinds, Running, Waiting, Active, Exists
<1>2. DownloadsFile'
  BY DEF Safe, TypeOK, TakeFile, Start, ThreadsUnchanged, DownloadsFile, Waiting, Active
<1>3. WrittenIsSafe'
  BY DEF Safe, TypeOK, TakeFile, Start, ThreadsUnchanged, WrittenIsSafe, Running, Waiting, Active
<1>4. IntactIsSafe'
  BY DEF Safe, TypeOK, TakeFile, Start, ThreadsUnchanged, IntactIsSafe, Condemned
<1> QED
  BY <1>1, <1>2, <1>3, <1>4 DEF Safe

\* So does a download that begins, the handler waiting for it.
LEMMA BeginDownloadStep ==
    ASSUME Safe, NEW r \in Requests, NEW kind \in Kinds, NEW b \in Books,
           NEW f \in Files, BeginDownload(r, kind, b, f)
    PROVE  Safe'
<1>1. TypeOK'
  BY DEF Safe, TypeOK, BeginDownload, Start, ThreadsUnchanged, Coroutine, Kinds, Running, Waiting, Active, Exists
<1>2. DownloadsFile'
  BY DEF Safe, TypeOK, BeginDownload, Start, ThreadsUnchanged, DownloadsFile, Waiting, Active
<1>3. WrittenIsSafe'
  BY DEF Safe, TypeOK, BeginDownload, Start, ThreadsUnchanged, WrittenIsSafe, Running, Waiting, Active
<1>4. IntactIsSafe'
  BY DEF Safe, TypeOK, BeginDownload, Start, ThreadsUnchanged, IntactIsSafe, Condemned
<1> QED
  BY <1>1, <1>2, <1>3, <1>4 DEF Safe

\* The request of r goes on to stage s; w tells whether it wrote its file.
Restaged(r, s, w) ==
    req' = [req EXCEPT ![r].stage = s, ![r].wrote = w]

\* What that does to the coroutines.
LEMMA Restaging ==
    ASSUME TypeOK, NEW r \in Active, NEW s \in {"waiting", "obtained", "dropped"},
           NEW w \in {"no", "written", "lost"}, Restaged(r, s, w)
    PROVE  /\ req' \in [Requests -> Coroutine \cup {None}]
           /\ req'[r].stage = s /\ req'[r].wrote = w
           /\ req'[r].kind = req[r].kind /\ req'[r].book = req[r].book
           /\ req'[r].old = req[r].old /\ req'[r].new = req[r].new
           /\ \A q \in Requests \ {r} : req'[q] = req[q]
<1>1. PICK c \in Coroutine : c = req[r]
  BY DEF TypeOK, Active
<1> DEFINE n == [c EXCEPT !.stage = s, !.wrote = w]
<1>2. /\ n \in Coroutine
      /\ n.stage = s /\ n.wrote = w
      /\ n.kind = c.kind /\ n.book = c.book /\ n.old = c.old /\ n.new = c.new
  BY DEF Coroutine
<1>3. req' = [req EXCEPT ![r] = n]
  BY <1>1 DEF Restaged
<1> HIDE DEF n
<1> QED
  BY <1>1, <1>2, <1>3 DEF TypeOK, Active

\* The end of a download writes its file, which is fresh from then on.
LEMMA EndDownloadStep ==
    ASSUME Safe, NEW r \in Requests, EndDownload(r)
    PROVE  Safe'
<1>1. /\ Running = {} /\ r \in Waiting /\ r \in Active
      /\ file' = [file EXCEPT ![req[r].new] = "fresh"]
      /\ Restaged(r, "obtained", "written")
      /\ ThreadsUnchanged
      /\ UNCHANGED <<cover, intact, raced>>
  BY DEF EndDownload, Restaged, Waiting
<1>2. /\ req' \in [Requests -> Coroutine \cup {None}]
      /\ req'[r].stage = "obtained" /\ req'[r].wrote = "written"
      /\ req'[r].new = req[r].new
      /\ \A q \in Requests \ {r} : req'[q] = req[q]
  BY <1>1, Restaging DEF Safe
<1>3. TypeOK'
  BY <1>1, <1>2 DEF Safe, TypeOK, ThreadsUnchanged, Running, Waiting, Active, DownloadsFile, Age
<1>4. DownloadsFile'
  BY <1>1, <1>2 DEF Safe, TypeOK, DownloadsFile, Waiting, Active
<1>5. WrittenIsSafe'
  <2>1. Running' \subseteq {r}
    BY <1>1, <1>2 DEF Running, Waiting, Active
  <2>2. req'[r].new \in Files /\ file'[req'[r].new] = "fresh"
    BY <1>1, <1>2 DEF Safe, TypeOK, DownloadsFile
  <2> QED
    BY <2>1, <2>2 DEF WrittenIsSafe
<1>6. IntactIsSafe'
  BY <1>1 DEF Safe, TypeOK, ThreadsUnchanged, IntactIsSafe, Condemned
<1> QED
  BY <1>3, <1>4, <1>5, <1>6 DEF Safe
\* A failed download leaves its handler without a file.
LEMMA FailDownloadStep ==
    ASSUME Safe, NEW r \in Requests, FailDownload(r)
    PROVE  Safe'
<1>1. PICK c \in Coroutine : c = req[r]
  BY DEF Safe, TypeOK, FailDownload, Waiting, Active
<1> DEFINE n == [c EXCEPT !.stage = "obtained", !.new = None]
<1>2. n \in Coroutine /\ n.stage = "obtained" /\ n.wrote = c.wrote
  BY DEF Coroutine
<1>3. /\ Running = {} /\ r \in Waiting
      /\ req' = [req EXCEPT ![r] = n]
      /\ ThreadsUnchanged
      /\ UNCHANGED <<file, cover, intact, raced>>
  BY <1>1 DEF FailDownload
<1> HIDE DEF n
<1>4. TypeOK'
  BY <1>2, <1>3 DEF Safe, TypeOK, ThreadsUnchanged, Running, Waiting, Active
<1>5. DownloadsFile'
  BY <1>2, <1>3 DEF Safe, TypeOK, DownloadsFile, Waiting, Active
<1>6. WrittenIsSafe'
  <2>1. Running' \subseteq {r}
    BY <1>2, <1>3 DEF Safe, TypeOK, Running, Waiting, Active
  <2>2. req'[r].wrote = "no"
    BY <1>1, <1>2, <1>3 DEF Safe, TypeOK, DownloadsFile
  <2> QED
    BY <2>1, <2>2 DEF WrittenIsSafe
<1>7. IntactIsSafe'
  BY <1>3 DEF Safe, ThreadsUnchanged, IntactIsSafe, Condemned
<1> QED
  BY <1>4, <1>5, <1>6, <1>7 DEF Safe

\* A handler that ends without a commit.
LEMMA LeaveStep ==
    ASSUME Safe, NEW r \in Requests, Abandon(r) \/ Refuse(r)
    PROVE  Safe'
<1>1. /\ req' = [req EXCEPT ![r] = None]
      /\ ThreadsUnchanged
      /\ UNCHANGED <<file, cover, intact, raced>>
  BY DEF Abandon, Refuse
<1>2. TypeOK'
  BY <1>1 DEF Safe, TypeOK, ThreadsUnchanged, Running, Waiting, Active
<1>3. DownloadsFile'
  BY <1>1 DEF Safe, TypeOK, DownloadsFile, Waiting, Active
<1>4. WrittenIsSafe'
  <2>1. Running' \subseteq Running /\ \A q \in Running' : req'[q] = req[q]
    BY <1>1 DEF Safe, TypeOK, Running, Waiting, Active
  <2> QED
    BY <1>1, <2>1 DEF Safe, WrittenIsSafe
<1>5. IntactIsSafe'
  BY <1>1 DEF Safe, ThreadsUnchanged, IntactIsSafe, Condemned
<1> QED
  BY <1>2, <1>3, <1>4, <1>5 DEF Safe

\* The old cover that a PATCH unlinks is shown by no other book.
LEMMA DropOldStep ==
    ASSUME Safe, NEW r \in Requests, DropOld(r)
    PROVE  Safe'
<1>1. PICK c \in Coroutine : c = req[r]
  BY DEF Safe, TypeOK, DropOld, Running, Active
<1> DEFINE n == [c EXCEPT !.stage = "dropped"]
           unlinks == c.old \in Files \ {c.new} /\ Unshared(c.old, c.book)
<1>2. n \in Coroutine /\ n.stage = "dropped" /\ n.wrote = c.wrote /\ n.new = c.new
  BY DEF Coroutine
<1>3. /\ r \in Running
      /\ req' = [req EXCEPT ![r] = n]
      /\ file' = IF unlinks THEN [file EXCEPT ![c.old] = "absent"] ELSE file
      /\ intact' = IF unlinks THEN intact \ {c.book} ELSE intact
      /\ raced' = IF unlinks THEN raced \ {c.book} ELSE raced
      /\ ThreadsUnchanged
      /\ UNCHANGED cover
  BY <1>1 DEF DropOld, Forget
<1> HIDE DEF n
<1>4. TypeOK'
  BY <1>2, <1>3 DEF Safe, TypeOK, ThreadsUnchanged, Running, Waiting, Active, Age
<1>5. DownloadsFile'
  BY <1>2, <1>3 DEF Safe, TypeOK, DownloadsFile, Waiting, Active
<1>6. WrittenIsSafe'
  <2>1. Running' \subseteq {r}
    BY <1>2, <1>3 DEF Safe, TypeOK, Running, Waiting, Active
  <2>2. req'[r].wrote = "written" =>
            req'[r].new \in Files /\ file'[req'[r].new] = "fresh"
    BY <1>1, <1>2, <1>3 DEF Safe, TypeOK, WrittenIsSafe
  <2> QED
    BY <2>1, <2>2 DEF WrittenIsSafe
<1>7. IntactIsSafe'
  <2>1. \A b \in intact' \ raced' : unlinks => cover[b] # c.old
    BY <1>3 DEF Safe, TypeOK, Unshared
  <2>2. Condemned' = Condemned /\ doomed' = doomed
    BY <1>3 DEF Condemned, ThreadsUnchanged
  <2> HIDE DEF unlinks
  <2>3. \A b \in intact' \ raced' : b \in intact \ raced /\ (cover[b] \in Files => file'[cover[b]] = file[cover[b]])
    BY <1>3, <2>1 DEF Safe, TypeOK
  <2> QED
    BY <1>3, <2>2, <2>3 DEF Safe, IntactIsSafe
<1> QED
  BY <1>4, <1>5, <1>6, <1>7 DEF Safe
\* A commit: the file a handler has written for its book is there, and no
\* deletion and no pass of the cleaner has it in view.
LEMMA CommitStep ==
    ASSUME Safe, NEW r \in Requests,
           CommitCreate(r) \/ CommitPatch(r) \/ CommitBatch(r)
    PROVE  Safe'
<1> DEFINE c == req[r]
<1>1. /\ r \in Running /\ c \in Coroutine
      /\ req' = [req EXCEPT ![r] = None]
      /\ Save(c) \/ UNCHANGED <<cover, intact, raced>>
      /\ ThreadsUnchanged
      /\ file' = file
  BY DEF Safe, TypeOK, CommitCreate, CommitPatch, CommitBatch, Ready, Return, Running, Active
<1>2. c.book \in Books /\ c.new \in Files \cup {None}
  BY <1>1 DEF Coroutine
<1>3. c.wrote # "no" /\ ~Overtaken(c) =>
          c.new \in Files /\ file[c.new] = "fresh" /\ c.new \notin Condemned
  BY <1>1 DEF Safe, WrittenIsSafe, Overtaken, Coroutine
<1> HIDE DEF c
<1>4. TypeOK'
  BY <1>1, <1>2 DEF Safe, TypeOK, ThreadsUnchanged, Running, Waiting, Active, Save
<1>5. DownloadsFile'
  BY <1>1 DEF Safe, TypeOK, DownloadsFile, Waiting, Active
<1>6. WrittenIsSafe'
  <2>1. Running' = {}
    BY <1>1 DEF Safe, TypeOK, Running, Waiting, Active
  <2> QED
    BY <2>1 DEF WrittenIsSafe
<1>7. IntactIsSafe'
  <2>1. Condemned' = Condemned
    BY <1>1 DEF Condemned, ThreadsUnchanged
  <2>2. CASE UNCHANGED <<cover, intact, raced>>
    BY <1>1, <2>1, <2>2 DEF Safe, ThreadsUnchanged, IntactIsSafe
  <2>3. CASE Save(c)
    <3>1. \A b \in (intact' \ raced') \ {c.book} : b \in intact \ raced /\ cover'[b] = cover[b]
      BY <2>3 DEF Save, Safe, TypeOK
    <3>2. c.book \in intact' \ raced' =>
              c.wrote # "no" /\ ~Overtaken(c) /\ cover'[c.book] = c.new
      BY <1>2, <2>3 DEF Save, Safe, TypeOK
    <3> QED
      BY <1>1, <1>3, <2>1, <3>1, <3>2 DEF Safe, ThreadsUnchanged, IntactIsSafe
  <2> QED
    BY <1>1, <2>2, <2>3
<1> QED
  BY <1>4, <1>5, <1>6, <1>7 DEF Safe

\* An upload writes a file only where there is none.
LEMMA UploadStep ==
    ASSUME Safe, NEW f \in Files, Upload(f)
    PROVE  Safe'
<1>1. /\ file' = [file EXCEPT ![f] = IF file[f] = "absent" THEN "fresh" ELSE file[f]]
      /\ Running = {}
      /\ ThreadsUnchanged
      /\ UNCHANGED <<cover, req, intact, raced>>
  BY DEF Upload
<1>2. TypeOK'
  BY <1>1 DEF Safe, TypeOK, ThreadsUnchanged, Running, Waiting, Active, Age
<1>3. DownloadsFile' /\ WrittenIsSafe'
  BY <1>1 DEF Safe, DownloadsFile, WrittenIsSafe, Running, Waiting, Active
<1>4. IntactIsSafe'
  BY <1>1 DEF Safe, TypeOK, ThreadsUnchanged, IntactIsSafe, Condemned
<1> QED
  BY <1>2, <1>3, <1>4 DEF Safe

\* What the coroutines see of a step that leaves them alone.
LEMMA Elsewhere ==
    ASSUME DownloadsFile, req' = req
    PROVE  DownloadsFile' /\ Running' = Running
BY DEF DownloadsFile, Running, Waiting, Active

\* A deletion condemns the cover of its own book, if no other book shows it.
LEMMA BeginDeleteStep ==
    ASSUME Safe, NEW b \in Books, BeginDelete(b)
    PROVE  Safe'
<1> DEFINE old == IF Unshared(cover[b], b) THEN cover[b] ELSE None
           d == [stage |-> "checked", old |-> old]
<1>1. /\ Exists(b)
      /\ deleting' = [deleting EXCEPT ![b] = d]
      /\ intact' = intact \ {b} /\ raced' = raced \ {b}
      /\ UNCHANGED <<file, cover, req, doomed, cleaning>>
  BY DEF BeginDelete, Forget
<1>2. d \in Deletion /\ old \in {None, cover[b]}
  BY <1>1 DEF Safe, TypeOK, Deletion, Exists
<1>3. Condemned' \subseteq Condemned \cup {old}
  BY <1>1 DEF Safe, TypeOK, Condemned
<1>4. \A c \in intact' \ raced' : cover[c] # old \/ old = None
  BY <1>1 DEF Safe, TypeOK, Unshared
<1> HIDE DEF d, old
<1>5. TypeOK'
  BY <1>1, <1>2 DEF Safe, TypeOK, Running, Waiting, Active
<1>6. DownloadsFile' /\ Running' = Running
  BY <1>1, Elsewhere DEF Safe
<1>7. WrittenIsSafe'
  BY <1>1, <1>6 DEF Safe, WrittenIsSafe
<1>8. IntactIsSafe'
  BY <1>1, <1>3, <1>4, ConstantsAssumption DEF Safe, IntactIsSafe
<1> QED
  BY <1>5, <1>6, <1>7, <1>8 DEF Safe
\* The file a deletion unlinks is one it has condemned.
LEMMA UnlinkStep ==
    ASSUME Safe, NEW b \in Books, Unlink(b)
    PROVE  Safe'
<1> DEFINE d == [stage |-> "unlinked", old |-> None]
           hit(r) == req[r] # None /\ req[r].wrote = "written" /\ req[r].new = deleting[b].old
           n(r) == [req[r] EXCEPT !.wrote = "lost"]
<1>1. /\ deleting[b] # None /\ deleting[b].old \in Condemned
      /\ deleting' = [deleting EXCEPT ![b] = d]
      /\ file' = [f \in Files |-> IF f = deleting[b].old THEN "absent" ELSE file[f]]
      /\ req' = [r \in Requests |-> IF hit(r) THEN n(r) ELSE req[r]]
      /\ UNCHANGED <<cover, doomed, cleaning, intact, raced>>
  BY DEF Unlink, Condemned
<1>2. Condemned' \subseteq Condemned \cup {None}
  BY <1>1 DEF Safe, TypeOK, Condemned
<1>3. d \in Deletion
  BY DEF Deletion
<1>4. \A r \in Requests : req[r] # None =>
          /\ n(r) \in Coroutine
          /\ n(r).stage = req[r].stage /\ n(r).wrote = "lost"
  BY DEF Safe, TypeOK, Coroutine
<1> HIDE DEF d, n
<1>5. \A f \in Files : f \notin Condemned => file'[f] = file[f]
  BY <1>1
<1>6. Running' \subseteq Running /\ Waiting' \subseteq Waiting
  BY <1>1, <1>4 DEF Running, Waiting, Active
<1>7. TypeOK'
  BY <1>1, <1>3, <1>4, <1>6 DEF Safe, TypeOK, Age
<1>8. DownloadsFile'
  BY <1>1, <1>6 DEF Safe, DownloadsFile, Waiting, Active
<1>9. WrittenIsSafe'
  <2>1. ASSUME NEW r \in Running, req'[r].wrote = "written"
        PROVE  req'[r] = req[r] /\ req[r].new # deleting[b].old
    BY <1>1, <1>4, <2>1 DEF Running, Active
  <2> QED
    BY <1>1, <1>6, <2>1 DEF Safe, WrittenIsSafe
<1>10. IntactIsSafe'
  BY <1>1, <1>2, <1>5, ConstantsAssumption DEF Safe, IntactIsSafe
<1> QED
  BY <1>7, <1>8, <1>9, <1>10 DEF Safe

\* The end of a deletion takes its book away and condemns no file.
LEMMA EndDeleteStep ==
    ASSUME Safe, NEW b \in Books, EndDelete(b) \/ StopDelete(b)
    PROVE  Safe'
<1>1. /\ deleting' = [deleting EXCEPT ![b] = None]
      /\ \/ /\ cover' = [cover EXCEPT ![b] = NoBook]
            /\ intact' = intact \ {b} /\ raced' = raced \ {b}
         \/ UNCHANGED <<cover, intact, raced>>
      /\ UNCHANGED <<file, req, doomed, cleaning>>
  BY DEF EndDelete, StopDelete, Forget
<1>2. Condemned' \subseteq Condemned
  BY <1>1 DEF Safe, TypeOK, Condemned
<1>4. TypeOK'
  BY <1>1 DEF Safe, TypeOK, Running, Waiting, Active
<1>5. DownloadsFile' /\ Running' = Running
  BY <1>1, Elsewhere DEF Safe
<1>6. WrittenIsSafe'
  BY <1>1, <1>5 DEF Safe, WrittenIsSafe
<1>7. IntactIsSafe'
  BY <1>1, <1>2 DEF Safe, TypeOK, IntactIsSafe
<1> QED
  BY <1>4, <1>5, <1>6, <1>7 DEF Safe

\* The cleaner looks at files no book showed when it began.
LEMMA CleanerStep ==
    ASSUME Safe, BeginClean \/ EndClean
    PROVE  Safe'
<1>1. /\ doomed' \subseteq Files \ Shown
      /\ cleaning' \in BOOLEAN
      /\ UNCHANGED <<file, cover, req, deleting, intact, raced>>
  BY DEF BeginClean, EndClean
<1>2. TypeOK'
  BY <1>1 DEF Safe, TypeOK, Running, Waiting, Active
<1>3. DownloadsFile' /\ Running' = Running /\ Shown' = Shown /\ Condemned' = Condemned
  BY <1>1, Elsewhere DEF Safe, Shown, Condemned
<1>4. WrittenIsSafe'
  BY <1>1, <1>3 DEF Safe, WrittenIsSafe
<1>5. IntactIsSafe'
  BY <1>1, <1>3 DEF Safe, TypeOK, IntactIsSafe, Shown
<1> QED
  BY <1>2, <1>3, <1>4, <1>5 DEF Safe

\* It unlinks only a file that is old, and time does not age one it has listed
\* or one a handler is about to commit.
LEMMA AgeingStep ==
    ASSUME Safe, NEW f \in Files, CleanFile(f) \/ GraceOver(f)
    PROVE  Safe'
<1>1. /\ \/ /\ f \in doomed /\ doomed' = doomed \ {f}
            /\ file' = [file EXCEPT ![f] = IF file[f] = "old" THEN "absent" ELSE file[f]]
         \/ /\ f \notin doomed /\ doomed' = doomed
            /\ \A r \in Running : req[r].wrote # "no" => req[r].new # f
            /\ file[f] = "fresh" /\ file' = [file EXCEPT ![f] = "old"]
      /\ UNCHANGED <<cover, req, deleting, cleaning, intact, raced>>
  BY DEF CleanFile, GraceOver
<1>2. TypeOK'
  BY <1>1 DEF Safe, TypeOK, Running, Waiting, Active, Age
<1>3. DownloadsFile' /\ Running' = Running /\ Shown' = Shown /\ Condemned' = Condemned
  BY <1>1, Elsewhere DEF Safe, Shown, Condemned
<1>4. WrittenIsSafe'
  BY <1>1, <1>3 DEF Safe, TypeOK, WrittenIsSafe
<1>5. IntactIsSafe'
  BY <1>1, <1>3 DEF Safe, TypeOK, IntactIsSafe
<1> QED
  BY <1>2, <1>3, <1>4, <1>5 DEF Safe

\* Every step keeps the invariant.
LEMMA StepIsSafe ==
    ASSUME Safe, [Next]_vars
    PROVE  Safe'
<1>1. ASSUME Coroutines PROVE Safe'
  BY <1>1, TakeFileStep, BeginDownloadStep, EndDownloadStep, FailDownloadStep, LeaveStep,
     DropOldStep, CommitStep, UploadStep DEF Coroutines
<1>2. ASSUME Threads PROVE Safe'
  BY <1>2, BeginDeleteStep, UnlinkStep, EndDeleteStep, CleanerStep, AgeingStep DEF Threads
<1>3. ASSUME NEW f \in Files, GraceOver(f) PROVE Safe'
  BY <1>3, AgeingStep
<1>4. ASSUME UNCHANGED vars PROVE Safe'
  BY <1>4 DEF vars, Safe, TypeOK, DownloadsFile, WrittenIsSafe, IntactIsSafe,
     Shown, Condemned, Running, Waiting, Active
<1> QED
  BY <1>1, <1>2, <1>3, <1>4 DEF Next

LEMMA InitSafe == Init => Safe
BY DEF Init, Safe, TypeOK, DownloadsFile, WrittenIsSafe, IntactIsSafe, Running,
   Waiting, Active, Age

-----------------------------------------------------------------------------
(* The theorems. *)

\* The invariant holds in every reachable state.
THEOREM SafeInvariant == Spec => []Safe
<1>1. Init => Safe
  BY InitSafe
<1>2. Safe /\ [Next]_vars => Safe'
  BY StepIsSafe
<1> QED
  BY <1>1, <1>2, PTL DEF Spec

\* Never more than one handler of the event loop is past its download, and
\* the state keeps its type.
THEOREM CoversTypeCorrect == Spec => []TypeOK
<1>1. Safe => TypeOK
  BY DEF Safe
<1> QED
  BY <1>1, SafeInvariant, PTL

\* No PATCH of another book and no pass of the cleaner takes away a cover that
\* was downloaded for a book that still shows it, and no delete_book does that
\* asked who shows it after the book was saved.
THEOREM DownloadsStay == Spec => []DownloadedCoverStays
<1>1. Safe => DownloadedCoverStays
  BY DEF Safe, IntactIsSafe, DownloadedCoverStays, Kept
<1> QED
  BY <1>1, SafeInvariant, PTL
=============================================================================
