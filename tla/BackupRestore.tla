---------------------------- MODULE BackupRestore ----------------------------
(***************************************************************************)
(* Full backups and their restoration (services/backup_restore.py) while   *)
(* the service goes on answering requests: nothing shuts them out.         *)
(*                                                                         *)
(* The data are books, each with a row and a cover file: a book is a row   *)
(* with the cover it shows, so a PATCH that gives it another cover puts    *)
(* another book in its place.  The database is in WAL mode: a commit goes  *)
(* to the log beside the main file and a checkpoint moves it over; a new   *)
(* connection reads both.  A connection                                    *)
(* that was opened before the files were replaced goes on with the files   *)
(* it has open, which no path leads to any more: what it commits is        *)
(* answered and gone.                                                      *)
(***************************************************************************)
EXTENDS OperationLock, FiniteSets

CONSTANTS
    Books,          \* books a request may add, each by one request
    Foreign,        \* a backup made elsewhere: a record of rows and files
    MayCrash        \* whether the process may be killed, once

ASSUME ForeignAssumption ==
    /\ Foreign = [rows |-> Foreign.rows, files |-> Foreign.rows, gone |-> {}, swapped |-> {}]
    /\ Foreign.rows \cap Books = {}

VARIABLES
    main, wal,      \* the rows in the database file and in its log
    files,          \* the cover files
    add,            \* Books -> the request that adds the book, or puts it in another's place
    op,             \* Operations -> the operation
    archive,        \* the last backup made here, or None
    crashed,        \* whether the process was killed
    acked,          \* history: books whose addition was answered, not removed or replaced since
    risk            \* history: books that a restore may have cost

dbVars == <<main, wal>>
vars == <<main, wal, files, add, op, archive, crashed, acked, risk, lockVars>>

Rows == main \cup wal

\* The books there may be, the archives, and the safety copies.
Known == Books \cup Foreign.rows
Archives == [rows : SUBSET Known, files : SUBSET Known, gone : SUBSET Known, swapped : SUBSET Known]
Copies == [db : SUBSET Known, main : SUBSET Known, wal : SUBSET Known, files : SUBSET Known]

ASSUME NoneAssumption == None \notin Nat /\ None \notin Archives /\ None \notin Copies

\* safety is the directory with the copy made before a restore: first the
\* database file alone, then everything in the data directory.  torn tells, for
\* the properties, that the log was checkpointed between the two copies of the
\* database, base which books there were that the copy must hold, gone and swapped
\* what a backup could not find: had no cover, or was removed, and was replaced.
NoOp == [kind |-> "none", pc |-> "new", from |-> None, names |-> {}, rows |-> {},
         gone |-> {}, swapped |-> {}, base |-> {}, torn |-> FALSE, safety |-> None]

Over == {"done", "failed", "refused", "killed"}
Running(o) == op[o].pc \notin {"new"} \cup Over
Restoring == \E o \in Operations : Running(o) /\ op[o].kind = "restore"

Init ==
    /\ main = {} /\ wal = {} /\ files = {}
    /\ add = [b \in Books |-> [pc |-> "new", stale |-> FALSE, old |-> None]]
    /\ op = [o \in Operations |-> NoOp]
    /\ archive = None /\ crashed = FALSE
    /\ acked = {} /\ risk = {}
    /\ LockInit

-----------------------------------------------------------------------------
(* The requests of the users.                                              *)

\* Requests under way.
Pending(b) == add[b].pc \in {"stored", "unlinked"}

\* The request has its connection, and stores the cover before the row.  A PATCH
\* is for the book it has loaded, and two for one book are left out.
StoreCover(b, old) ==
    /\ add[b].pc = "new"
    /\ old # None => old \in Rows \ {b} /\ \A c \in Books : Pending(c) => add[c].old # old
    /\ files' = files \cup {b}
    /\ add' = [add EXCEPT ![b] = [pc |-> "stored", stale |-> FALSE, old |-> old]]
    /\ UNCHANGED <<dbVars, op, archive, crashed, acked, risk, lockVars>>

\* What the properties remember of a book that is removed or replaced.
Less(o, b) == [op[o] EXCEPT !.base = @ \ {b}]

\* update_book unlinks the cover that it replaces before it writes the row.
UnlinkOld(b) ==
    LET old == add[b].old IN
    /\ add[b].pc = "stored" /\ old # None
    /\ files' = files \ {old}
    /\ add' = [add EXCEPT ![b].pc = "unlinked"]
    /\ acked' = acked \ {old}
    /\ op' = [o \in Operations |->
                IF op[o].kind = "backup" /\ Running(o)
                THEN [Less(o, old) EXCEPT !.swapped = @ \cup {old}] ELSE Less(o, old)]
    /\ UNCHANGED <<dbVars, archive, crashed, risk, lockVars>>

CommitRow(b) ==
    LET old == add[b].old IN
    /\ add[b].pc = (IF old = None THEN "stored" ELSE "unlinked")
    /\ IF add[b].stale
       THEN UNCHANGED <<dbVars, op>>
       ELSE /\ old \in Rows \cup {None}
            /\ main' = main \ {old} /\ wal' = (wal \ {old}) \cup {b}
            /\ op' = [o \in Operations |-> Less(o, old)]
    /\ add' = [add EXCEPT ![b] = [pc |-> "answered", stale |-> FALSE, old |-> None]]
    /\ acked' = (acked \ {old}) \cup {b}
    /\ UNCHANGED <<files, archive, crashed, risk, lockVars>>

\* An UPDATE that misses its row is an error.
MissRow(b) ==
    /\ add[b].pc = "unlinked" /\ ~add[b].stale /\ add[b].old \notin Rows
    /\ add' = [add EXCEPT ![b] = [pc |-> "refused", stale |-> FALSE, old |-> None]]
    /\ UNCHANGED <<dbVars, files, op, archive, crashed, acked, risk, lockVars>>

\* A request that removes a book: unlinks the cover and deletes the row.
RemoveBook(b) ==
    /\ b \in Rows
    /\ main' = main \ {b} /\ wal' = wal \ {b} /\ files' = files \ {b}
    /\ acked' = acked \ {b}
    /\ op' = [o \in Operations |->
                IF op[o].kind = "backup" /\ Running(o)
                THEN [Less(o, b) EXCEPT !.gone = @ \cup {b}] ELSE Less(o, b)]
    /\ UNCHANGED <<add, archive, crashed, risk, lockVars>>

\* SQLite copies the log into the database file and begins it anew.
Checkpoint ==
    /\ wal # {}
    /\ main' = Rows /\ wal' = {}
    /\ op' = [o \in Operations |-> IF op[o].pc = "copy_rest" THEN [op[o] EXCEPT !.torn = TRUE]
                                   ELSE op[o]]
    /\ UNCHANGED <<files, add, archive, crashed, acked, risk, lockVars>>

-----------------------------------------------------------------------------
(* The operations.                                                         *)

\* Where an operation is in its work, which begins when it has the lock.
At(o, kind, pc) == turn[o] = "held" /\ op[o].kind = kind /\ op[o].pc = pc
Go(o, pc) == op' = [op EXCEPT ![o].pc = pc]

\* What an operation left behind is of no further interest when the next one has
\* the lock: nothing reads it.
Acquire(o, kind, first, from) ==
    /\ op[o].pc = "new" /\ \A p \in 1..(o - 1) : op[p].pc # "new"
    /\ \/ /\ Lock(o)
          /\ op' = [p \in Operations |->
                      IF p = o THEN [NoOp EXCEPT !.kind = kind, !.pc = first, !.from = from]
                      ELSE IF op[p].pc \in Over THEN [NoOp EXCEPT !.pc = op[p].pc] ELSE op[p]]
       \/ Refused(o) /\ op' = [op EXCEPT ![o].pc = "refused"]
    /\ UNCHANGED <<dbVars, files, add, archive, crashed, acked, risk>>

BeginBackup(o) == Acquire(o, "backup", "snapshot", None)
BeginRestore(o) ==
    \E z \in {archive, Foreign} \ {None} : Acquire(o, "restore", "copy_db", z)

End(o, pc) == op' = [op EXCEPT ![o] = [NoOp EXCEPT !.kind = op[o].kind, !.pc = pc]]

\* VACUUM INTO sees one state of the database, the log included.
Snapshot(o) ==
    /\ At(o, "backup", "snapshot")
    /\ op' = [op EXCEPT ![o] = [@ EXCEPT !.rows = Rows, !.gone = Rows \ files, !.pc = "list"]]
    /\ UNCHANGED <<dbVars, files, add, archive, crashed, acked, risk, lockVars>>

ListFiles(o) ==
    /\ At(o, "backup", "list")
    /\ op' = [op EXCEPT ![o] = [@ EXCEPT !.names = files, !.pc = "pack"]]
    /\ UNCHANGED <<dbVars, files, add, archive, crashed, acked, risk, lockVars>>

\* Mutant: the archive takes the database in use, not the snapshot of it.
PackLive(o) ==
    /\ At(o, "backup", "pack")
    /\ archive' = [rows |-> Rows, files |-> op[o].names \cap files,
                   gone |-> op[o].gone, swapped |-> op[o].swapped]
    /\ End(o, "done") /\ LetGo(o)
    /\ UNCHANGED <<dbVars, files, add, crashed, acked, risk>>

\* A listed file that is gone by now is skipped.
Pack(o) ==
    /\ At(o, "backup", "pack")
    /\ archive' = [rows |-> op[o].rows, files |-> op[o].names \cap files,
                   gone |-> op[o].gone, swapped |-> op[o].swapped]
    /\ End(o, "done") /\ LetGo(o)
    /\ UNCHANGED <<dbVars, files, add, crashed, acked, risk>>

\* A full disk, or a file that goes between the question and its turn.
FailBackup(o) ==
    /\ turn[o] = "held" /\ op[o].kind = "backup"
    /\ End(o, "failed") /\ LetGo(o)
    /\ UNCHANGED <<dbVars, files, add, archive, crashed, acked, risk>>

-----------------------------------------------------------------------------

Step(o, pc, next) == At(o, "restore", pc) /\ Go(o, next)

\* _save_safety_backup: the database file as it is, without its log.
CopyDatabase(o) ==
    /\ At(o, "restore", "copy_db")
    /\ op' = [op EXCEPT ![o] = [@ EXCEPT !.pc = "copy_main", !.base = Rows \cap files,
                 !.safety = [db |-> main, main |-> {}, wal |-> {}, files |-> {}]]]
    /\ UNCHANGED <<dbVars, files, add, archive, crashed, acked, risk, lockVars>>

\* Mutant: the copy ends with the database.
CopyMainOnly(o) ==
    /\ At(o, "restore", "copy_main")
    /\ op' = [op EXCEPT ![o] = [@ EXCEPT !.pc = "wipe", !.safety.main = main]]
    /\ UNCHANGED <<dbVars, files, add, archive, crashed, acked, risk, lockVars>>

\* Then the data directory, in which the same file lies, its log and the covers.
CopyMain(o) ==
    /\ At(o, "restore", "copy_main")
    /\ op' = [op EXCEPT ![o] = [@ EXCEPT !.pc = "copy_rest", !.safety.main = main]]
    /\ UNCHANGED <<dbVars, files, add, archive, crashed, acked, risk, lockVars>>
CopyRest(o) ==
    /\ At(o, "restore", "copy_rest")
    /\ op' = [op EXCEPT ![o] = [@ EXCEPT !.pc = "wipe",
                                           !.safety = [op[o].safety EXCEPT !.wal = wal, !.files = files]]]
    /\ UNCHANGED <<dbVars, files, add, archive, crashed, acked, risk, lockVars>>

Wipe(o) ==
    /\ Step(o, "wipe", "extract")
    /\ files' = {}
    /\ UNCHANGED <<dbVars, add, archive, crashed, acked, risk, lockVars>>
Extract(o) ==
    /\ Step(o, "extract", "dispose")
    /\ files' = files \cup op[o].from.files
    /\ UNCHANGED <<dbVars, add, archive, crashed, acked, risk, lockVars>>

\* engine.dispose() closes the connections that are not in use; closing the last
\* one checkpoints.  After an earlier restore it is not the engine in use.
Dispose(o) ==
    /\ Step(o, "dispose", "move")
    /\ \/ UNCHANGED <<main, wal>>
       \/ main' = Rows /\ wal' = {}
    /\ UNCHANGED <<files, add, archive, crashed, acked, risk, lockVars>>

\* The connections of the requests under way keep the files they have open.
Replaced == add' = [b \in Books |-> IF Pending(b) THEN [add[b] EXCEPT !.stale = TRUE] ELSE add[b]]

\* The new file takes the path of the old one, beside the log of the old one.
Move(o) ==
    /\ Step(o, "move", "drop_log")
    /\ main' = op[o].from.rows
    /\ Replaced
    /\ UNCHANGED <<wal, files, archive, crashed, acked, risk, lockVars>>
DropLog(o) ==
    /\ Step(o, "drop_log", "engine")
    /\ wal' = {}
    /\ Replaced
    /\ UNCHANGED <<main, files, archive, crashed, acked, risk, lockVars>>

\* The new database opened and migrated, the new engine in use and the safety copy
\* removed.  All that was asked for before is at risk.
Asked == {b \in Books : add[b].pc # "new"}
NewEngine(o) ==
    /\ At(o, "restore", "engine")
    /\ End(o, "done") /\ LetGo(o)
    /\ risk' = risk \cup Asked
    /\ UNCHANGED <<dbVars, files, add, archive, crashed, acked>>

\* Any step after the safety copy may fail: a bad entry, a full disk, a database
\* that does not open or does not migrate.
Undoable == {"wipe", "extract", "dispose", "move", "drop_log", "engine"}
FailRestore(o) ==
    /\ turn[o] = "held" /\ op[o].kind = "restore" /\ op[o].pc \in Undoable
    /\ Go(o, "undo_db")
    /\ UNCHANGED <<dbVars, files, add, archive, crashed, acked, risk, lockVars>>

\* Mutant: the copy is made before the try whose finally gives the lock back.
FailCopyOutside(o) ==
    /\ turn[o] = "held" /\ op[o].kind = "restore" /\ op[o].pc \in {"copy_db", "copy_main", "copy_rest"}
    /\ End(o, "failed")
    /\ UNCHANGED <<dbVars, files, add, archive, crashed, acked, risk, lockVars>>

\* A failure of the copy itself leaves the data alone, and a part of a copy behind,
\* which nothing reads.
Copying == {"copy_db", "copy_main", "copy_rest"}
FailCopy(o) ==
    /\ turn[o] = "held" /\ op[o].kind = "restore" /\ op[o].pc \in Copying
    /\ End(o, "failed") /\ LetGo(o)
    /\ UNCHANGED <<dbVars, files, add, archive, crashed, acked, risk>>

\* _rollback_safety_backup: the database file without a log, then everything.
UndoDatabase(o) ==
    /\ Step(o, "undo_db", "undo_rest")
    /\ main' = op[o].safety.db /\ wal' = {}
    /\ Replaced
    /\ UNCHANGED <<files, archive, crashed, acked, risk, lockVars>>

\* Mutant: the log of the database is not taken back.
UndoRestWithoutLog(o) ==
    /\ Step(o, "undo_rest", "undo_clean")
    /\ main' = op[o].safety.main /\ wal' = {} /\ files' = op[o].safety.files
    /\ Replaced
    /\ UNCHANGED <<archive, crashed, acked, risk, lockVars>>

UndoRest(o) ==
    /\ Step(o, "undo_rest", "undo_clean")
    /\ main' = op[o].safety.main /\ wal' = op[o].safety.wal /\ files' = op[o].safety.files
    /\ Replaced
    /\ UNCHANGED <<archive, crashed, acked, risk, lockVars>>
UndoClean(o) ==
    /\ At(o, "restore", "undo_clean")
    /\ End(o, "failed") /\ LetGo(o)
    /\ risk' = risk \cup IF op[o].torn THEN Asked ELSE Asked \ op[o].base
    /\ UNCHANGED <<dbVars, files, add, archive, crashed, acked>>

\* Mutant: the error of the rollback passes by the finally clause.
FailUndoLocked(o) ==
    /\ turn[o] = "held" /\ op[o].kind = "restore" /\ op[o].pc \in {"undo_db", "undo_rest", "undo_clean"}
    /\ Go(o, "failed")
    /\ risk' = risk \cup Asked
    /\ UNCHANGED <<dbVars, files, add, archive, crashed, acked, lockVars>>

\* The rollback may fail as well: the error goes out, the safety copy stays.
FailUndo(o) ==
    /\ turn[o] = "held" /\ op[o].kind = "restore" /\ op[o].pc \in {"undo_db", "undo_rest", "undo_clean"}
    /\ Go(o, "failed") /\ LetGo(o)
    /\ risk' = risk \cup Asked
    /\ UNCHANGED <<dbVars, files, add, archive, crashed, acked>>

\* The process is killed: the lock goes with it, what is on disk stays, and
\* nothing at the next start looks for a safety copy.
Crash ==
    /\ MayCrash /\ ~crashed
    /\ crashed' = TRUE
    /\ op' = [o \in Operations |->
                IF ~Running(o) THEN op[o]
                ELSE IF op[o].safety # None /\ op[o].pc \notin Copying
                THEN [op[o] EXCEPT !.pc = "killed"]
                ELSE [NoOp EXCEPT !.pc = "killed"]]
    /\ add' = [b \in Books |-> IF Pending(b)
                               THEN [pc |-> "killed", stale |-> FALSE, old |-> None] ELSE add[b]]
    /\ LoseLock
    /\ risk' = risk \cup IF Restoring THEN Asked ELSE {}
    /\ UNCHANGED <<dbVars, files, archive, acked>>

-----------------------------------------------------------------------------

Proceed(o) ==
    \/ Snapshot(o)
    \/ ListFiles(o)
    \/ Pack(o)
    \/ FailBackup(o)
    \/ CopyDatabase(o)
    \/ CopyMain(o)
    \/ CopyRest(o)
    \/ Wipe(o)
    \/ Extract(o)
    \/ Dispose(o)
    \/ Move(o)
    \/ DropLog(o)
    \/ NewEngine(o)
    \/ FailRestore(o)
    \/ FailCopy(o)
    \/ UndoDatabase(o)
    \/ UndoRest(o)
    \/ UndoClean(o)
    \/ FailUndo(o)

\* The steps of the lock that are no step of the work.
Handle(o) ==
    /\ Remember(o) \/ Unlock(o) \/ Close(o) \/ Forget(o)
    /\ UNCHANGED <<dbVars, files, add, op, archive, crashed, acked, risk>>

Next ==
    \/ \E b \in Books, old \in Rows \cup {None} : StoreCover(b, old)
    \/ \E b \in Books : UnlinkOld(b) \/ CommitRow(b) \/ MissRow(b)
    \/ \E b \in Rows : RemoveBook(b)
    \/ Checkpoint
    \/ \E o \in Operations : BeginBackup(o) \/ BeginRestore(o) \/ Proceed(o) \/ Handle(o)
    \/ Crash

\* The thread of an operation that runs goes on.
Spec == Init /\ [][Next]_vars /\ \A o \in Operations : WF_vars(Proceed(o) \/ Handle(o))

-----------------------------------------------------------------------------

\* Every variable keeps its type, and the lock is with the operation that runs, or
\* has ended and is about to unlock, as long as no two were at the lock together.
TypeOK ==
    /\ main \subseteq Known /\ wal \subseteq Known /\ files \subseteq Known
    /\ acked \subseteq Books /\ risk \subseteq Books
    /\ \A b \in Books : add[b].stale => Pending(b)
    /\ ~crossed => \A o \in Operations : holder = o <=> Running(o) \/ turn[o] = "unlock"
    /\ archive # None => archive.rows \subseteq Known /\ archive.files \subseteq Known

\* create_backup takes the rows before the files, and a cover is stored before
\* its row: a backup made beside running requests has the cover of every book
\* it has, save those that were without one, and those removed or given another
\* cover while it was made.
ArchiveWhole ==
    ~crossed /\ archive # None =>
       archive.rows \ archive.files \subseteq archive.gone \cup archive.swapped

\* When no restore is under way, a book whose addition was answered is there,
\* row and cover, unless a restore that ended well replaced it, one that was
\* rolled back met a request or a checkpoint, or one was cut short.
AckedSurvives == ~crossed /\ ~Restoring => acked \ (Rows \cap files) \subseteq risk

\* From the first copy on, and after a restore was killed or its rollback
\* failed, the books there were before it are whole either in place or in the
\* safety copy, unless a checkpoint came between the two parts of the copy.
SomeCopyComplete ==
    ~crossed => \A o \in Operations :
        \/ op[o].base \subseteq Rows \cap files
        \/ op[o].torn
        \/ /\ op[o].safety # None
           /\ op[o].base \subseteq (op[o].safety.main \cup op[o].safety.wal) \cap op[o].safety.files

\* Two operations never run at once, whoever was refused, failed or killed in
\* between, unless one took the lock while another was still giving it back.
OneAtATime == \A o, p \in Operations : Running(o) /\ Running(p) => o = p
OneOperation == crossed \/ OneAtATime

\* However an operation ends, and wherever it fails, the lock is free again, and no
\* later backup is refused for good; with the same exception.
LockFreed == <>[](crossed \/ holder = None)
=============================================================================
