------------------------------ MODULE DataImport ------------------------------
(***************************************************************************)
(* The import of an uploaded file (services/data_import.py, the endpoints  *)
(* of routers/data.py), beside the other requests on the same catalog.     *)
(* An execution is a stream of server-sent events: a generator on the      *)
(* event loop with a session of its own that downloads the cover of a row, *)
(* writes the row, and hands an event to the client before the next row.   *)
(* In the mode continue_on_error every row is a transaction; in            *)
(* rollback_all the first row begins one that lasts to the end, across the *)
(* downloads and the client's pace, and with it SQLite's write lock.       *)
(***************************************************************************)
EXTENDS CatalogRequests, ImportRows, Sequences

CONSTANTS
    Imports,        \* executions, each of a file of its own
    Files,          \* Imports -> what may be uploaded: non-empty sequences of rows
    MaxRows,        \* bound: rows of a file
    Libraries,      \* the catalogs to begin with
    MaxBegun,       \* bound: executions and requests that are ever begun
    MayStop         \* whether the process may stop, once

VARIABLES
    work,           \* the catalog inside the transaction of the lock's holder
    file,           \* Imports -> Files: what the user uploads
    temp,           \* Imports -> the parsed upload on disk
    imp,            \* Imports -> the execution
    stopped         \* history: the process has stopped

ASSUME ActorsAssumption ==
    Imports \cap Requests = {} /\ None \notin Imports \cup Requests

\* Rows of a file after the mapping, books with their origin, and files.
FileRow == [transforms : BOOLEAN, title : BOOLEAN, columns : BOOLEAN, dates : BOOLEAN,
            isbn : Texts, status : STRING, added : Nat, started : Nat, finished : Nat,
            cover : BOOLEAN, labels : SUBSET Names]
Book == [id : Nat, isbn : Isbns \cup Texts, src : (Imports \cup Requests \cup {None}) \X Nat]
ASSUME FilesAssumption ==
    /\ MaxRows \in Nat
    /\ \A i \in Imports : \A f \in Files[i] : f \in Seq(FileRow) /\ Len(f) \in 1..MaxRows

\* The libraries to begin with are sound, and nothing of them came from the imports.
ASSUME LibrariesAssumption ==
    \A d \in Libraries :
        /\ Tables(d, Book) /\ IsbnsDiffer(d) /\ Blemishes(d) = {}
        /\ \A b \in d.books : b.src = <<None, 0>>

ASSUME RequestsAssumption == NoIsbn \in Isbns /\ Labelings \subseteq SUBSET Names

importVars == <<work, file, temp, imp, stopped>>
vars == <<db, lock, loop, req, late, importVars>>

Modes == {"rollback_all", "continue_on_error"}

\* done rows are dealt with, the next is at hand; valid, warned and known are
\* what validate_import said, if it was asked, and the ISBNs it compared with.
NewImport == [pc |-> "idle", mode |-> "none", done |-> 0, valid |-> FALSE,
              known |-> {}, warned |-> {}, failed |-> {}]

Ended == {"complete", "error", "gone"}

Begun == Cardinality({i \in Imports : imp[i].pc \notin {"idle", "checked"}})
         + Cardinality({r \in Requests : req[r].pc # "idle"})

Row(i) == file[i][imp[i].done + 1]
View(i) == IF lock = i THEN work ELSE db
IsbnsIn(d) == {b.isbn : b \in d.books}

Init ==
    /\ db \in Libraries
    /\ lock = None /\ loop = None
    /\ req = [r \in Requests |-> Idle]
    /\ late = {} /\ work = Empty
    /\ file \in {f \in [Imports -> UNION {Files[i] : i \in Imports}] :
                 \A i \in Imports : f[i] \in Files[i]}
    /\ temp = [i \in Imports |-> "none"]
    /\ imp = [i \in Imports |-> NewImport]
    /\ stopped = FALSE

-----------------------------------------------------------------------------

\* parse_upload stores the parsed rows in a file of the user's.
Parse(i) ==
    /\ loop = None
    /\ imp[i].pc = "idle" /\ temp[i] = "none"
    /\ temp' = [temp EXCEPT ![i] = "there"]
    /\ UNCHANGED <<db, lock, loop, req, late, work, file, imp, stopped>>

\* validate_import, in a thread: verdict and warnings over all rows.
Validate(i) ==
    /\ temp[i] = "there" /\ imp[i].pc = "idle"
    /\ LET n == DOMAIN file[i] IN
       imp' = [imp EXCEPT ![i].pc = "checked",
                 ![i].valid = \A k \in n : ~RowInvalid(file[i][k]),
                 ![i].known = IsbnsIn(db),
                 ![i].warned = {k \in n : RowWarned(file[i][k], IsbnsIn(db))}]
    /\ UNCHANGED <<db, lock, loop, req, late, work, file, temp, stopped>>

\* The hourly cleaner removes parsed uploads of more than two days, also those
\* whose import is still to come.
CleanTemp(i) ==
    /\ temp[i] = "there" /\ imp[i].pc \in {"idle", "checked"}
    /\ temp' = [temp EXCEPT ![i] = "removed"]
    /\ UNCHANGED <<db, lock, loop, req, late, work, file, imp, stopped>>

-----------------------------------------------------------------------------

\* A step of the stream of i, which needs the loop.
OnLoop(i, pc) == loop \in {None, i} /\ imp[i].pc = pc
To(i, pc) == imp' = [imp EXCEPT ![i].pc = pc]

\* The parsed upload is read when the stream begins.
Execute(i) ==
    /\ loop = None
    /\ imp[i].pc \in {"idle", "checked"} /\ temp[i] # "none"
    /\ Begun < MaxBegun
    /\ \E m \in Modes :
          imp' = IF temp[i] = "removed" THEN [imp EXCEPT ![i].pc = "error"]
                 ELSE [imp EXCEPT ![i].mode = m, ![i].pc = "row"]
    /\ UNCHANGED <<db, lock, loop, req, late, work, file, temp, stopped>>

\* session.rollback(): what is not committed is gone.
Rollback(i) ==
    IF lock = i THEN lock' = None /\ work' = Empty ELSE UNCHANGED <<lock, work>>

\* A row fails: rollback_all ends with it, the other mode loses the row alone.
FailRow(i, why) ==
    /\ LET old == imp[i]
           failed == old.failed \cup {[row |-> old.done + 1, why |-> why]} IN
       imp' = [imp EXCEPT ![i] =
                 IF old.mode = "rollback_all"
                 THEN [old EXCEPT !.pc = "error", !.failed = failed]
                 ELSE [old EXCEPT !.pc = "sent", !.failed = failed, !.done = old.done + 1]]
    /\ Rollback(i)

\* The row is mapped and parsed; then its cover is awaited, if it has one.  The
\* code parses pages and year after it: a row they fail waits for nothing here.
TakeRow(i) ==
    /\ OnLoop(i, "row") /\ loop = None
    /\ IF RowRefused(Row(i)) THEN FailRow(i, "refused")
       ELSE To(i, IF Row(i).cover THEN "download" ELSE "store") /\ UNCHANGED <<lock, work>>
    /\ UNCHANGED <<db, loop, req, late, file, temp, stopped>>

\* The download ends, well or not, at the latest with its timeout.
EndDownload(i) ==
    /\ OnLoop(i, "download") /\ loop = None
    /\ To(i, "store")
    /\ UNCHANGED <<db, lock, loop, req, late, work, file, temp, stopped>>

\* The book, its first session, authors and tags; continue_on_error commits.
Stored(i) ==
    AddLabelled(View(i), Row(i).isbn, <<i, imp[i].done + 1>>, Row(i).labels)
Store(i) ==
    /\ OnLoop(i, "store") /\ lock \in {None, i}
    /\ loop' = None
    /\ IF IsbnTaken(View(i), Row(i).isbn)
       THEN FailRow(i, "duplicate") /\ UNCHANGED <<db, req, late>>
       ELSE \E new \in {Stored(i)} :
              /\ imp' = [imp EXCEPT ![i].pc = "sent", ![i].done = @ + 1]
              /\ IF imp[i].mode = "rollback_all"
                 THEN lock' = i /\ work' = new /\ UNCHANGED <<db, req, late>>
                 ELSE /\ db' = new /\ req' = Overtaken(new) /\ Remember(new, None)
                      /\ UNCHANGED <<lock, work>>
    /\ UNCHANGED <<file, temp, stopped>>

\* The lock is another import's: the loop stops in the flush, until the busy
\* timeout raises an error that ends the import.
StopLoopFor(i) ==
    /\ OnLoop(i, "store") /\ loop = None /\ lock \notin {None, i}
    /\ loop' = i
    /\ UNCHANGED <<db, lock, req, late, importVars>>
GiveUpImport(i) ==
    /\ loop = i /\ lock \notin {None, i}
    /\ loop' = None
    /\ To(i, "error")
    /\ UNCHANGED <<db, lock, req, late, work, file, temp, stopped>>

\* The client has taken the event: the next row, or the end and its commit.
NextRow(i) ==
    /\ OnLoop(i, "sent") /\ loop = None
    /\ imp[i].done < Len(file[i])
    /\ To(i, "row")
    /\ UNCHANGED <<db, lock, loop, req, late, work, file, temp, stopped>>

\* Mutant: the last commit of rollback_all is missing.
CompleteUncommitted(i) ==
    /\ OnLoop(i, "sent") /\ loop = None
    /\ imp[i].done = Len(file[i])
    /\ To(i, "complete")
    /\ Rollback(i)
    /\ UNCHANGED <<db, loop, req, late, file, temp, stopped>>

Complete(i) ==
    /\ OnLoop(i, "sent") /\ loop = None
    /\ imp[i].done = Len(file[i])
    /\ To(i, "complete")
    /\ IF lock = i
       THEN db' = work /\ req' = Overtaken(work) /\ Remember(work, None)
       ELSE UNCHANGED <<db, req, late>>
    /\ Rollback(i)      \* the transaction is over
    /\ UNCHANGED <<loop, file, temp, stopped>>

\* The client goes away: the generator is cancelled where it waits.
Disconnect(i) ==
    /\ loop = None
    /\ imp[i].pc \in {"download", "sent"}
    /\ To(i, "gone")
    /\ Rollback(i)
    /\ UNCHANGED <<db, loop, req, late, file, temp, stopped>>

\* The process stops, and with it the run: transactions and requests are lost,
\* the catalog and the files stay.
Stop ==
    /\ MayStop /\ ~stopped
    /\ stopped' = TRUE
    /\ imp' = [i \in Imports |-> IF imp[i].pc \in Ended THEN imp[i]
                                 ELSE [imp[i] EXCEPT !.pc = "gone"]]
    /\ req' = [r \in Requests |-> IF req[r].pc \in Answered THEN req[r]
                                  ELSE [Idle EXCEPT !.pc = "locked"]]
    /\ lock' = None /\ loop' = None /\ work' = Empty
    /\ UNCHANGED <<db, late, file, temp>>

-----------------------------------------------------------------------------

Stream(i) ==
    \/ TakeRow(i)
    \/ EndDownload(i)
    \/ Store(i)
    \/ StopLoopFor(i)
    \/ GiveUpImport(i)
    \/ NextRow(i)
    \/ Complete(i)
    \/ Disconnect(i)

Serve(r) == (Write(r) \/ StopLoop(r) \/ GiveUp(r)) /\ UNCHANGED importVars

Next ==
    \/ \E i \in Imports :
          \/ Parse(i)
          \/ Validate(i)
          \/ CleanTemp(i)
          \/ Execute(i)
          \/ Stream(i)
    \/ \E r \in Requests : (Begun < MaxBegun /\ Ask(r) /\ UNCHANGED importVars) \/ Serve(r)
    \/ Stop

Spec == Init /\ [][Next]_vars

\* Downloads have timeouts, a client takes its events or goes away, and threads
\* and coroutines that can run do; users need not ask for anything.  Streams and
\* requests are finite, so that it is enough that one of them goes on.
Serving == (\E i \in Imports : Stream(i)) \/ (\E r \in Requests : Serve(r))
FairSpec == Spec /\ WF_vars(Serving)

-----------------------------------------------------------------------------

\* Every variable keeps its type, the catalog its unique columns, and who waits
\* on the loop waits for another.
ImportRecord ==
    [pc : {"idle", "checked", "row", "download", "store", "sent"} \cup Ended,
     mode : Modes \cup {"none"}, done : Nat, valid : BOOLEAN,
     known : SUBSET (Isbns \cup Texts), warned : SUBSET Nat,
     failed : SUBSET [row : Nat, why : {"refused", "duplicate"}]]
RequestRecord ==
    [op : Coroutines \cup Threads \cup {"none"}, pc : {"idle", "write"} \cup Answered,
     books : SUBSET Nat, isbn : Isbns, add : SUBSET Names, remove : SUBSET Names,
     own : BOOLEAN, stale : BOOLEAN,
     seen : [books : SUBSET Book, labels : SUBSET Label, links : SUBSET LinkRow]]
TypeOK ==
    /\ Tables(db, Book) /\ Tables(work, Book)
    /\ late \subseteq db.links \cup db.labels
    /\ imp \in [Imports -> ImportRecord]
    /\ req \in [Requests -> RequestRecord] /\ \A r \in Requests : Tables(req[r].seen, Book)
    /\ temp \in [Imports -> {"none", "there", "removed"}]
    /\ stopped \in BOOLEAN
    /\ lock \in Imports \cup {None}
    /\ loop \in Imports \cup Requests \cup {None}
    /\ loop # None => lock \notin {None, loop}
    /\ lock = None <=> work = Empty

\* The import keeps its promise: mode by mode, whatever else runs, the rows
\* whose books other requests can see are those the contract lets them see.
Phase(i) ==
    CASE imp[i].pc \in {"idle", "checked"} -> "idle"
      [] imp[i].pc = "complete" -> "done"
      [] imp[i].pc \in {"error", "gone"} -> "broken"
      [] OTHER -> "running"
Saved(i) == {k \in DOMAIN file[i] : \E b \in db.books : b.src = <<i, k>>}
Promise == INSTANCE ImportContract WITH
    phase <- [i \in Imports |-> Phase(i)],
    mode <- [i \in Imports |-> imp[i].mode],
    rows <- [i \in Imports |-> Len(file[i])],
    taken <- [i \in Imports |-> imp[i].done],
    saved <- [i \in Imports |-> Saved(i)]
KeepsPromise == Promise!Contract

\* What validate_import lets pass and execute_import refuses was warned of: a
\* book finished before it was added, or read without an end.  A duplicate ISBN
\* was warned of, too, or not in the library then.
RefusalsForetold ==
    \A i \in Imports : imp[i].valid =>
        \A f \in imp[i].failed :
            \/ f.row \in imp[i].warned
            \/ f.why = "duplicate" /\ file[i][f.row].isbn \notin imp[i].known

\* No label is left without a book, and no link names a row that is gone,
\* unless another request committed between what a PATCH of tags, a batch of
\* tags or a deletion read and what it wrote.
CatalogSound == Blemishes(db) \subseteq late

\* Three handlers, one of which asks first and waits, add books: the library
\* never holds the same ISBN twice, nor does the transaction of an import.
IsbnOnce == IsbnsDiffer(db) /\ IsbnsDiffer(work)

\* Everyone is answered in the end, though an import that keeps the write lock
\* may stop the loop on which it would go on: a request that was made, too.
EveryoneAnswered ==
    <>[](/\ \A i \in Imports : imp[i].pc \in {"idle", "checked"} \cup Ended
         /\ \A r \in Requests : req[r].pc # "write")
=============================================================================
