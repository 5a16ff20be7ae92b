-------------------------- MODULE BackupRestoreProofs --------------------------
(***************************************************************************)
(* The safety properties of BackupRestore for any books, any number of     *)
(* backups and restores, any failures and a kill at any step.              *)
(***************************************************************************)
EXTENDS BackupRestore, TLAPS

BackupSteps == {"snapshot", "list", "pack"}
Undoing == {"undo_db", "undo_rest", "undo_clean"}
RestoreSteps == Copying \cup Undoable \cup Undoing
Steps == BackupSteps \cup RestoreSteps \cup {"new"} \cup Over

OpRows == [kind : {"none", "backup", "restore"}, pc : Steps, from : Archives \cup {None},
           names : SUBSET Known, rows : SUBSET Known, gone : SUBSET Known,
           swapped : SUBSET Known, base : SUBSET Known, torn : BOOLEAN, safety : Copies \cup {None}]
AddRows == [pc : {"new", "stored", "unlinked", "answered", "refused", "killed"}, stale : BOOLEAN,
            old : Known \cup {None}]

Types ==
    /\ main \subseteq Known /\ wal \subseteq Known /\ files \subseteq Known
    /\ acked \subseteq Books /\ risk \subseteq Books
    /\ add \in [Books -> AddRows]
    /\ op \in [Operations -> OpRows]
    /\ archive \in Archives \cup {None}

LockTypes ==
    /\ holder \in Operations \cup {None} /\ lockFd \in Operations \cup {None}
    /\ open \subseteq Operations
    /\ turn \in [Operations -> Turns]
    /\ crossed \in BOOLEAN

StaleIsStored == \A b \in Books : add[b].stale => Pending(b)

\* Each kind of operation has its own steps, and a restore what they need.
KindFit(o) ==
    /\ op[o].pc \in Steps
    /\ op[o].pc \in BackupSteps => op[o].kind = "backup"
    /\ op[o].pc \in RestoreSteps => op[o].kind = "restore" /\ op[o].from # None
    /\ op[o].pc \in RestoreSteps \ {"copy_db"} => op[o].safety # None
KindFits == \A o \in Operations : KindFit(o)

\* Work begins and ends with the lock.
TurnFit(o) == Running(o) <=> turn[o] \in {"locked", "held"}
TurnFits == \A o \in Operations : TurnFit(o)

\* Whose descriptors have the flock, are in the global and are open.
FdFit(o) ==
    /\ holder = o <=> turn[o] \in {"locked", "held", "unlock"}
    /\ lockFd = o <=> turn[o] \in {"held", "unlock", "close", "forget"}
    /\ turn[o] \in {"locked", "held", "unlock", "close"} => o \in open
FdFits == \A o \in Operations : FdFit(o)

\* Both together: whoever runs has the flock.
LockFit(o) == Running(o) => holder = o
LockHeld == \A o \in Operations : LockFit(o)

\* What a backup has missed so far, it knows.
Missed(o) == op[o].gone \cup op[o].swapped
Lists(o) ==
    /\ op[o].pc = "list" => op[o].rows \ files \subseteq Missed(o)
    /\ op[o].pc = "pack" => op[o].rows \ (op[o].names \cap files) \subseteq Missed(o)
Listed == ArchiveWhole /\ \A o \in Operations : Lists(o)

\* The rows there are anywhere are of requests that were answered, or foreign.
Written == {b \in Books : add[b].pc = "answered"} \cup Foreign.rows
WrittenFor(o) ==
    /\ op[o].rows \cup op[o].base \subseteq Written
    /\ op[o].from # None => op[o].from.rows \subseteq Written
    /\ op[o].safety # None =>
          op[o].safety.db \cup op[o].safety.main \cup op[o].safety.wal \subseteq Written
RowsAreWritten ==
    /\ main \cup wal \cup acked \subseteq Written
    /\ archive # None => archive.rows \subseteq Written
    /\ \A b \in Books : add[b].old \in Written \cup {None}
    /\ \A o \in Operations : WrittenFor(o)

\* Where the books are that there were before a restore, step by step.
InCopy(o) == op[o].base \subseteq (op[o].safety.main \cup op[o].safety.wal) \cap op[o].safety.files
InPlace(o) == op[o].base \subseteq Rows \cap files
CopyFit(o) ==
    /\ op[o].pc \in BackupSteps \cup {"new", "refused", "done", "copy_db"} => op[o].base = {}
    /\ op[o].pc = "undo_clean" => op[o].torn \/ InPlace(o)
    /\ op[o].pc \in {"copy_main", "copy_rest"} => InPlace(o)
    /\ op[o].pc = "copy_rest" => op[o].torn \/ op[o].base \subseteq op[o].safety.main \cup wal
    /\ op[o].pc \in Undoable \cup Undoing => op[o].torn \/ InCopy(o)
    /\ op[o].pc \in {"failed", "killed"} =>
          op[o].base = {} \/ op[o].torn \/ (op[o].safety # None /\ InCopy(o))
CopyFits == \A o \in Operations : CopyFit(o)

\* No restore has begun to replace the data.
Untouched == \A o \in Operations : op[o].pc \notin Undoable \cup Undoing

\* Until one has, only what is at risk is missing, and only what is at risk will be.
RiskFits ==
    Untouched =>
        /\ acked \ (Rows \cap files) \subseteq risk
        /\ \A b \in Books : Pending(b) => b \in risk \/ (b \in files /\ ~add[b].stale)

\* What needs that no two are at the lock together.
Alone ==
    /\ FdFits
    /\ Listed
    /\ CopyFits
    /\ RiskFits

IInv ==
    /\ Types
    /\ LockTypes
    /\ StaleIsStored
    /\ KindFits
    /\ TurnFits
    /\ RowsAreWritten
    /\ ~crossed => Alone

-----------------------------------------------------------------------------
(* The types of the operations, step by step.                              *)

\* None is no operation: the lock tells the two apart.
LEMMA NoneIsNoOperation == None \notin Operations
BY NoneAssumption, MaxOperationsAssumption DEF Operations

LEMMA NoOpTyped == NoOp \in OpRows
BY DEF NoOp, OpRows, Steps

LEMMA SetOp ==
    ASSUME op \in [Operations -> OpRows], NEW o \in Operations, NEW r \in OpRows,
           op' = [op EXCEPT ![o] = r]
    PROVE  op' \in [Operations -> OpRows]
OBVIOUS

LEMMA SetPc ==
    ASSUME op \in [Operations -> OpRows], NEW o \in Operations, NEW pc \in Steps, Go(o, pc)
    PROVE  op' \in [Operations -> OpRows]
<1> DEFINE r == [op[o] EXCEPT !.pc = pc]
<1>1. r \in OpRows
  BY DEF OpRows
<1>2. op' = [op EXCEPT ![o] = r]
  BY DEF Go
<1> QED
  BY <1>1, <1>2, SetOp

LEMMA SetEnd ==
    ASSUME op \in [Operations -> OpRows], NEW o \in Operations, NEW pc \in Steps, End(o, pc)
    PROVE  op' \in [Operations -> OpRows]
<1> DEFINE r == [NoOp EXCEPT !.kind = op[o].kind, !.pc = pc]
<1>1. op[o].kind \in {"none", "backup", "restore"}
  BY DEF OpRows
<1>2. r \in OpRows
  BY <1>1, NoOpTyped DEF OpRows
<1> QED
  BY <1>2, SetOp DEF End


LEMMA SnapshotTypes ==
    ASSUME Types, NEW o \in Operations, Snapshot(o)
    PROVE  op' \in [Operations -> OpRows]
<1> DEFINE r == [op[o] EXCEPT !.rows = Rows, !.gone = Rows \ files, !.pc = "list"]
<1>0. op \in [Operations -> OpRows]
  BY DEF Types
<1>1. Rows \in SUBSET Known /\ Rows \ files \in SUBSET Known
  BY DEF Types, Rows
<1>8. r \in OpRows
  BY <1>0, <1>1 DEF OpRows, Steps, BackupSteps
<1>9. op' = [op EXCEPT ![o] = r]
  BY DEF Snapshot
<1> QED
  BY <1>0, <1>8, <1>9, SetOp

LEMMA ListFilesTypes ==
    ASSUME Types, NEW o \in Operations, ListFiles(o)
    PROVE  op' \in [Operations -> OpRows]
<1> DEFINE r == [op[o] EXCEPT !.names = files, !.pc = "pack"]
<1>0. op \in [Operations -> OpRows]
  BY DEF Types
<1>1. files \in SUBSET Known
  BY DEF Types
<1>8. r \in OpRows
  BY <1>0, <1>1 DEF OpRows, Steps, BackupSteps
<1>9. op' = [op EXCEPT ![o] = r]
  BY DEF ListFiles
<1> QED
  BY <1>0, <1>8, <1>9, SetOp

LEMMA CopyDatabaseTypes ==
    ASSUME Types, NEW o \in Operations, CopyDatabase(o)
    PROVE  op' \in [Operations -> OpRows]
<1> DEFINE r == [op[o] EXCEPT !.pc = "copy_main", !.base = Rows \cap files,
                 !.safety = [db |-> main, main |-> {}, wal |-> {}, files |-> {}]]
<1>0. op \in [Operations -> OpRows]
  BY DEF Types
<1>1. Rows \cap files \in SUBSET Known
  BY DEF Types, Rows
<1>2. [db |-> main, main |-> {}, wal |-> {}, files |-> {}] \in Copies
  BY DEF Types, Copies
<1>8. r \in OpRows
  BY <1>0, <1>1, <1>2 DEF OpRows, Steps, RestoreSteps, Copying, Undoable
<1>9. op' = [op EXCEPT ![o] = r]
  BY DEF CopyDatabase
<1> QED
  BY <1>0, <1>8, <1>9, SetOp

LEMMA CopyMainTypes ==
    ASSUME Types, KindFits, NEW o \in Operations, CopyMain(o)
    PROVE  op' \in [Operations -> OpRows]
<1> DEFINE r == [op[o] EXCEPT !.pc = "copy_rest", !.safety.main = main]
<1>0. op \in [Operations -> OpRows]
  BY DEF Types
<1>1. op[o].safety \in Copies
  BY <1>0 DEF KindFits, KindFit, OpRows, RestoreSteps, Copying, CopyMain, At
<1>2. [op[o].safety EXCEPT !.main = main] \in Copies
  BY <1>1 DEF Copies, Types
<1>8. r \in OpRows
  BY <1>0, <1>1, <1>2 DEF OpRows, Steps, RestoreSteps, Copying, Undoable
<1>9. op' = [op EXCEPT ![o] = r]
  BY DEF CopyMain
<1> QED
  BY <1>0, <1>8, <1>9, SetOp

LEMMA CopyRestTypes ==
    ASSUME Types, KindFits, NEW o \in Operations, CopyRest(o)
    PROVE  op' \in [Operations -> OpRows]
<1> DEFINE c == [op[o].safety EXCEPT !.wal = wal, !.files = files]
<1> DEFINE r == [op[o] EXCEPT !.pc = "wipe", !.safety = c]
<1>0. op \in [Operations -> OpRows] /\ wal \in SUBSET Known /\ files \in SUBSET Known
  BY DEF Types
<1>1. op[o].safety \in Copies
  BY <1>0 DEF KindFits, KindFit, OpRows, RestoreSteps, Copying, CopyRest, At
<1>2. c \in Copies
  BY <1>0, <1>1 DEF Copies
<1>3. op' = [op EXCEPT ![o] = r]
  BY DEF CopyRest
<1> HIDE DEF c
<1>4. r \in OpRows
  BY <1>0, <1>2 DEF OpRows, Steps, RestoreSteps, Undoable
<1> QED
  BY <1>0, <1>3, <1>4, SetOp

LEMMA AcquireTypes ==
    ASSUME Types, NEW o \in Operations, NEW kind \in {"backup", "restore"},
           NEW first \in Steps, NEW from \in Archives \cup {None}, Acquire(o, kind, first, from)
    PROVE  Types'
<1>1. op \in [Operations -> OpRows]
  BY DEF Types
<1>2. \A p \in Operations : [NoOp EXCEPT !.pc = op[p].pc] \in OpRows /\ op[p] \in OpRows
  BY <1>1, NoOpTyped DEF OpRows
<1>3. [[[NoOp EXCEPT !.kind = kind] EXCEPT !.pc = first] EXCEPT !.from = from] \in OpRows
  BY NoOpTyped DEF OpRows
<1>4. CASE Lock(o) /\ op' = [p \in Operations |->
                      IF p = o THEN [NoOp EXCEPT !.kind = kind, !.pc = first, !.from = from]
                      ELSE IF op[p].pc \in Over THEN [NoOp EXCEPT !.pc = op[p].pc] ELSE op[p]]
  <2>1. op' \in [Operations -> OpRows]
    BY <1>2, <1>3, <1>4
  <2> QED
    BY <2>1 DEF Types, Acquire, dbVars
<1>5. CASE op' = [op EXCEPT ![o].pc = "refused"]
  <2>1. Go(o, "refused") /\ "refused" \in Steps
    BY <1>5 DEF Go, Steps, Over
  <2>2. op' \in [Operations -> OpRows]
    BY <1>1, <2>1, SetPc
  <2> QED
    BY <2>2 DEF Types, Acquire, dbVars
<1> QED
  BY <1>4, <1>5 DEF Acquire

LEMMA LessTyped ==
    ASSUME Types, NEW o \in Operations, NEW b
    PROVE  /\ Less(o, b) \in OpRows
           /\ b \in Known => /\ [Less(o, b) EXCEPT !.gone = @ \cup {b}] \in OpRows
                            /\ [Less(o, b) EXCEPT !.swapped = @ \cup {b}] \in OpRows
<1>1. op[o] \in OpRows
  BY DEF Types
<1>2. op[o].base \ {b} \in SUBSET Known
  BY <1>1 DEF OpRows
<1> DEFINE r == Less(o, b)
<1>3. r \in OpRows
  BY <1>1, <1>2 DEF Less, OpRows
<1> HIDE DEF r
<1>4. b \in Known => r.gone \cup {b} \in SUBSET Known /\ r.swapped \cup {b} \in SUBSET Known
  BY <1>3 DEF OpRows
<1>5. b \in Known => /\ [r EXCEPT !.gone = r.gone \cup {b}] \in OpRows
                    /\ [r EXCEPT !.swapped = r.swapped \cup {b}] \in OpRows
  BY <1>3, <1>4 DEF OpRows
<1> QED
  BY <1>3, <1>5 DEF r

LEMMA RemoveBookTypes ==
    ASSUME Types, NEW b \in Rows, RemoveBook(b)
    PROVE  op' \in [Operations -> OpRows]
<1>1. b \in Known
  BY DEF Types, Rows
<1> QED
  BY <1>1, LessTyped DEF RemoveBook

LEMMA UnlinkOldTypes ==
    ASSUME Types, NEW b \in Books, UnlinkOld(b)
    PROVE  op' \in [Operations -> OpRows]
<1>1. add[b].old \in Known
  BY DEF Types, AddRows, UnlinkOld
<1> QED
  BY <1>1, LessTyped DEF UnlinkOld

LEMMA CommitRowTypes ==
    ASSUME Types, NEW b \in Books, CommitRow(b)
    PROVE  op' \in [Operations -> OpRows]
<1>1. op \in [Operations -> OpRows]
  BY DEF Types
<1>2. \A o \in Operations : Less(o, add[b].old) \in OpRows
  BY LessTyped
<1>3. op' = op \/ op' = [o \in Operations |-> Less(o, add[b].old)]
  BY DEF CommitRow
<1> QED
  BY <1>1, <1>2, <1>3

LEMMA CheckpointTypes ==
    ASSUME Types, Checkpoint
    PROVE  op' \in [Operations -> OpRows]
<1>1. op \in [Operations -> OpRows]
  BY DEF Types
<1>2. \A o \in Operations : [op[o] EXCEPT !.torn = TRUE] \in OpRows
  BY <1>1 DEF OpRows
<1> QED
  BY <1>1, <1>2 DEF Checkpoint

LEMMA CrashTypes ==
    ASSUME Types, Crash
    PROVE  op' \in [Operations -> OpRows]
<1>1. op \in [Operations -> OpRows]
  BY DEF Types
<1>2. \A o \in Operations : [op[o] EXCEPT !.pc = "killed"] \in OpRows
  BY <1>1 DEF OpRows, Steps, Over
<1>3. [NoOp EXCEPT !.pc = "killed"] \in OpRows
  BY NoOpTyped DEF OpRows, Steps, Over
<1> QED
  BY <1>1, <1>2, <1>3 DEF Crash

-----------------------------------------------------------------------------
(* Each part of the inductive invariant is kept by every step.             *)

\* The types are kept; a restore that goes on has what it needs by KindFits.
LEMMA TypesStep == IInv /\ [Next]_vars => Types'
<1> SUFFICES ASSUME IInv, [Next]_vars PROVE Types'
  OBVIOUS
<1>0. Types /\ KindFits
  BY DEF IInv
<1>b. op \in [Operations -> OpRows]
  BY <1>0 DEF Types
<1>1. ASSUME NEW b \in Books, NEW old \in Rows \cup {None}, StoreCover(b, old)
     PROVE  Types'
  BY <1>1, <1>0 DEF StoreCover, Types, dbVars, AddRows, Known, Rows
<1>2. ASSUME NEW b \in Books, CommitRow(b) PROVE Types'
  <2>1. op' \in [Operations -> OpRows]
    BY <1>0, <1>2, CommitRowTypes
  <2> QED
    BY <1>2, <1>0, <2>1 DEF CommitRow, Types, dbVars, AddRows, Known
<1>3. ASSUME NEW b \in Rows, RemoveBook(b) PROVE Types'
  <2>1. op' \in [Operations -> OpRows]
    BY <1>0, <1>3, RemoveBookTypes
  <2> QED
    BY <1>3, <1>0, <2>1 DEF RemoveBook, Types, dbVars
<1>4. CASE Checkpoint
  <2>1. op' \in [Operations -> OpRows]
    BY <1>0, <1>4, CheckpointTypes
  <2> QED
    BY <1>4, <1>0, <2>1 DEF Checkpoint, Types, dbVars, Rows
<1>5. ASSUME NEW o \in Operations, BeginBackup(o) PROVE Types'
  <2>1. "backup" \in {"backup", "restore"} /\ "snapshot" \in Steps
    BY DEF Steps, BackupSteps
  <2> QED
    BY <1>5, <1>0, <2>1, AcquireTypes DEF BeginBackup
<1>6. ASSUME NEW o \in Operations, BeginRestore(o) PROVE Types'
  <2>1. PICK z \in {archive, Foreign} \ {None} : Acquire(o, "restore", "copy_db", z)
    BY <1>6 DEF BeginRestore
  <2>2. z \in Archives
    BY <1>0, ForeignAssumption DEF Types, Archives, Known
  <2>3. "copy_db" \in Steps
    BY DEF Steps, RestoreSteps, Copying
  <2> QED
    BY <1>0, <2>1, <2>2, <2>3, AcquireTypes
<1>7. ASSUME NEW o \in Operations, Snapshot(o) PROVE Types'
  <2>1. op' \in [Operations -> OpRows]
    BY <1>0, <1>7, SnapshotTypes
  <2> QED
    BY <1>7, <1>0, <2>1 DEF Snapshot, Types, dbVars
<1>8. ASSUME NEW o \in Operations, ListFiles(o) PROVE Types'
  <2>1. op' \in [Operations -> OpRows]
    BY <1>0, <1>8, ListFilesTypes
  <2> QED
    BY <1>8, <1>0, <2>1 DEF ListFiles, Types, dbVars
<1>9. ASSUME NEW o \in Operations, Pack(o) PROVE Types'
  <2>1. (End(o, "done") \/ End(o, "failed")) /\ "done" \in Steps /\ "failed" \in Steps
    BY <1>9 DEF Pack, Steps, Over
  <2>2. op' \in [Operations -> OpRows]
    BY <1>b, <2>1, SetEnd
  <2>3. [rows |-> op[o].rows, files |-> op[o].names \cap files, gone |-> op[o].gone,
         swapped |-> op[o].swapped] \in Archives
    BY <1>b DEF OpRows, Archives
  <2> QED
    BY <1>9, <1>0, <2>2, <2>3 DEF Pack, Types, dbVars
<1>10. ASSUME NEW o \in Operations, CopyDatabase(o) PROVE Types'
  <2>1. op' \in [Operations -> OpRows]
    BY <1>0, <1>10, CopyDatabaseTypes
  <2> QED
    BY <1>10, <1>0, <2>1 DEF CopyDatabase, Types, dbVars
<1>11. ASSUME NEW o \in Operations, CopyMain(o) PROVE Types'
  <2>1. op' \in [Operations -> OpRows]
    BY <1>0, <1>11, CopyMainTypes
  <2> QED
    BY <1>11, <1>0, <2>1 DEF CopyMain, Types, dbVars
<1>12. ASSUME NEW o \in Operations, CopyRest(o) PROVE Types'
  <2>1. op' \in [Operations -> OpRows]
    BY <1>0, <1>12, CopyRestTypes
  <2> QED
    BY <1>12, <1>0, <2>1 DEF CopyRest, Types, dbVars
<1>13. ASSUME NEW o \in Operations, Wipe(o) PROVE Types'
  <2>1. Go(o, "extract") /\ "extract" \in Steps
    BY <1>13 DEF Wipe, Step, Steps, RestoreSteps, Undoable, Undoing, Over
  <2>2. op' \in [Operations -> OpRows]
    BY <1>b, <2>1, SetPc
  <2> QED
    BY <1>13, <1>0, <2>2 DEF Wipe, Types, dbVars
<1>14. ASSUME NEW o \in Operations, Extract(o) PROVE Types'
  <2>1. Go(o, "dispose") /\ "dispose" \in Steps
    BY <1>14 DEF Extract, Step, Steps, RestoreSteps, Undoable, Undoing, Over
  <2>2. op' \in [Operations -> OpRows]
    BY <1>b, <2>1, SetPc
  <2>3. op[o].from \in Archives
    BY <1>b, <1>0, <1>14 DEF Extract, Step, At, KindFits, KindFit, OpRows, RestoreSteps, Undoable
  <2> QED
    BY <1>14, <1>0, <2>2, <2>3 DEF Extract, Types, dbVars, Archives
<1>15. ASSUME NEW o \in Operations, Dispose(o) PROVE Types'
  <2>1. Go(o, "move") /\ "move" \in Steps
    BY <1>15 DEF Dispose, Step, Steps, RestoreSteps, Undoable, Undoing, Over
  <2>2. op' \in [Operations -> OpRows]
    BY <1>b, <2>1, SetPc
  <2> QED
    BY <1>15, <1>0, <2>2 DEF Dispose, Types, dbVars, Rows
<1>16. ASSUME NEW o \in Operations, Move(o) PROVE Types'
  <2>1. Go(o, "drop_log") /\ "drop_log" \in Steps
    BY <1>16 DEF Move, Step, Steps, RestoreSteps, Undoable, Undoing, Over
  <2>2. op' \in [Operations -> OpRows]
    BY <1>b, <2>1, SetPc
  <2>3. op[o].from \in Archives
    BY <1>b, <1>0, <1>16 DEF Move, Step, At, KindFits, KindFit, OpRows, RestoreSteps, Undoable
  <2> QED
    BY <1>16, <1>0, <2>2, <2>3 DEF Move, Types, dbVars, Archives, Replaced, AddRows
<1>17. ASSUME NEW o \in Operations, DropLog(o) PROVE Types'
  <2>1. Go(o, "engine") /\ "engine" \in Steps
    BY <1>17 DEF DropLog, Step, Steps, RestoreSteps, Undoable, Undoing, Over
  <2>2. op' \in [Operations -> OpRows]
    BY <1>b, <2>1, SetPc
  <2> QED
    BY <1>17, <1>0, <2>2 DEF DropLog, Types, dbVars, Replaced, AddRows
<1>18. ASSUME NEW o \in Operations, NewEngine(o) PROVE Types'
  <2>1. End(o, "done") /\ "done" \in Steps
    BY <1>18 DEF NewEngine, Steps, Over
  <2>2. op' \in [Operations -> OpRows]
    BY <1>b, <2>1, SetEnd
  <2> QED
    BY <1>18, <1>0, <2>2 DEF NewEngine, Types, dbVars, Asked
<1>19. ASSUME NEW o \in Operations, FailRestore(o) PROVE Types'
  <2>1. Go(o, "undo_db") /\ "undo_db" \in Steps
    BY <1>19 DEF FailRestore, Steps, RestoreSteps, Undoable, Undoing, Over
  <2>2. op' \in [Operations -> OpRows]
    BY <1>b, <2>1, SetPc
  <2> QED
    BY <1>19, <1>0, <2>2 DEF FailRestore, Types, dbVars
<1>20. ASSUME NEW o \in Operations, FailCopy(o) PROVE Types'
  <2>1. End(o, "failed") /\ "failed" \in Steps
    BY <1>20 DEF FailCopy, Steps, Over
  <2>2. op' \in [Operations -> OpRows]
    BY <1>b, <2>1, SetEnd
  <2> QED
    BY <1>20, <1>0, <2>2 DEF FailCopy, Types, dbVars
<1>21. ASSUME NEW o \in Operations, UndoDatabase(o) PROVE Types'
  <2>1. Go(o, "undo_rest") /\ "undo_rest" \in Steps
    BY <1>21 DEF UndoDatabase, Step, Steps, RestoreSteps, Undoable, Undoing, Over
  <2>2. op' \in [Operations -> OpRows]
    BY <1>b, <2>1, SetPc
  <2>3. op[o].safety \in Copies
    BY <1>b, <1>0, <1>21 DEF UndoDatabase, Step, At, KindFits, KindFit, OpRows, RestoreSteps,
       Undoing, Copying
  <2> QED
    BY <1>21, <1>0, <2>2, <2>3 DEF UndoDatabase, Types, dbVars, Copies, Replaced, AddRows
<1>22. ASSUME NEW o \in Operations, UndoRest(o) PROVE Types'
  <2>1. Go(o, "undo_clean") /\ "undo_clean" \in Steps
    BY <1>22 DEF UndoRest, Step, Steps, RestoreSteps, Undoable, Undoing, Over
  <2>2. op' \in [Operations -> OpRows]
    BY <1>b, <2>1, SetPc
  <2>3. op[o].safety \in Copies
    BY <1>b, <1>0, <1>22 DEF UndoRest, Step, At, KindFits, KindFit, OpRows, RestoreSteps, Undoing,
       Copying
  <2> QED
    BY <1>22, <1>0, <2>2, <2>3 DEF UndoRest, Types, dbVars, Copies, Replaced, AddRows
<1>23. ASSUME NEW o \in Operations, UndoClean(o) PROVE Types'
  <2>1. End(o, "failed") /\ "failed" \in Steps
    BY <1>23 DEF UndoClean, Steps, Over
  <2>2. op' \in [Operations -> OpRows]
    BY <1>b, <2>1, SetEnd
  <2> QED
    BY <1>23, <1>0, <2>2 DEF UndoClean, Types, dbVars, Asked
<1>24. ASSUME NEW o \in Operations, FailUndo(o) PROVE Types'
  <2>1. Go(o, "failed") /\ "failed" \in Steps
    BY <1>24 DEF FailUndo, Steps, RestoreSteps, Undoable, Undoing, Over
  <2>2. op' \in [Operations -> OpRows]
    BY <1>b, <2>1, SetPc
  <2> QED
    BY <1>24, <1>0, <2>2 DEF FailUndo, Types, dbVars, Asked
<1>25. CASE Crash
  <2>1. op' \in [Operations -> OpRows]
    BY <1>0, <1>25, CrashTypes
  <2> QED
    BY <1>25, <1>0, <2>1 DEF Crash, Types, dbVars, AddRows, Restoring, Asked
<1>26. CASE UNCHANGED vars
  BY <1>26, <1>0 DEF vars, dbVars, Types
<1>27. ASSUME NEW b \in Books, UnlinkOld(b) PROVE Types'
  <2>1. op' \in [Operations -> OpRows]
    BY <1>0, <1>27, UnlinkOldTypes
  <2> QED
    BY <1>27, <1>0, <2>1 DEF UnlinkOld, Types, dbVars, AddRows
<1>28. ASSUME NEW b \in Books, MissRow(b) PROVE Types'
  BY <1>28, <1>0 DEF MissRow, Types, dbVars, AddRows
<1>29. ASSUME NEW o \in Operations, FailBackup(o) PROVE Types'
  <2>1. End(o, "failed") /\ "failed" \in Steps
    BY <1>29 DEF FailBackup, Steps, Over
  <2>2. op' \in [Operations -> OpRows]
    BY <1>b, <2>1, SetEnd
  <2> QED
    BY <1>29, <1>0, <2>2 DEF FailBackup, Types, dbVars
<1>30. ASSUME NEW o \in Operations, Handle(o) PROVE Types'
  BY <1>30, <1>0 DEF Handle, dbVars, Types
<1> QED
  BY <1>1, <1>2, <1>3, <1>4, <1>5, <1>6, <1>7, <1>8, <1>9, <1>10, <1>11, <1>12, <1>13, <1>14,
     <1>15, <1>16, <1>17, <1>18, <1>19, <1>20, <1>21, <1>22, <1>23, <1>24, <1>25, <1>26, <1>27,
     <1>28, <1>29, <1>30 DEF Next, Proceed

(***************************************************************************)
(* What a step does to the operations, field by field.                     *)
(***************************************************************************)
Others(o) == \A p \in Operations : p # o => op'[p] = op[p]
SameBackup(p) == /\ op'[p].names = op[p].names /\ op'[p].rows = op[p].rows
                 /\ op'[p].gone = op[p].gone
                 /\ op'[p].swapped = op[p].swapped
SameRestore(p) == /\ op'[p].from = op[p].from /\ op'[p].base = op[p].base
                  /\ op'[p].torn = op[p].torn /\ op'[p].safety = op[p].safety
Moves(o, pc) == Others(o) /\ op'[o].pc = pc /\ op'[o].kind = op[o].kind
Cleared(p) == /\ op'[p].names = {} /\ op'[p].rows = {} /\ op'[p].gone = {} /\ op'[p].swapped = {}
              /\ op'[p].base = {} /\ op'[p].torn = FALSE /\ op'[p].safety = None
Emptied(p) == Cleared(p) /\ op'[p].pc = op[p].pc /\ op'[p].kind = "none" /\ op'[p].from = None
Left(p) == op'[p] = op[p] \/ (op[p].pc \in Over /\ Emptied(p))
MissedBy(p, b) ==
    /\ op[p].gone \subseteq op'[p].gone /\ op[p].swapped \subseteq op'[p].swapped
    /\ op[p].kind = "backup" /\ Running(p) => b \in op'[p].gone \cup op'[p].swapped
Without(p, b) ==
    /\ op'[p].pc = op[p].pc /\ op'[p].kind = op[p].kind /\ op'[p].from = op[p].from
    /\ op'[p].names = op[p].names /\ op'[p].rows = op[p].rows
    /\ op'[p].torn = op[p].torn /\ op'[p].safety = op[p].safety
    /\ op'[p].base = op[p].base \ {b}
Checked(p) ==
    /\ op'[p].pc = op[p].pc /\ op'[p].kind = op[p].kind /\ op'[p].from = op[p].from
    /\ SameBackup(p) /\ op'[p].safety = op[p].safety /\ op'[p].base = op[p].base
    /\ op'[p].torn = IF op[p].pc = "copy_rest" THEN TRUE ELSE op[p].torn
Cut(p) ==
    \/ ~Running(p) /\ op'[p] = op[p]
    \/ /\ Running(p) /\ op'[p].pc = "killed" /\ op'[p].kind = op[p].kind
       /\ op[p].safety # None /\ op[p].pc \notin Copying
       /\ SameBackup(p) /\ SameRestore(p)
    \/ Running(p) /\ op'[p].pc = "killed" /\ op'[p].from = None /\ Cleared(p)

LEMMA GoEffect ==
    ASSUME Types, NEW o \in Operations, NEW pc, Go(o, pc)
    PROVE  Moves(o, pc) /\ SameBackup(o) /\ SameRestore(o)
BY DEF Types, OpRows, Go, Moves, Others, SameBackup, SameRestore

LEMMA EndEffect ==
    ASSUME Types, NEW o \in Operations, NEW pc, End(o, pc)
    PROVE  Moves(o, pc) /\ Cleared(o) /\ op'[o].from = None
<1>1. op'[o] = [NoOp EXCEPT !.kind = op[o].kind, !.pc = pc]
  BY DEF Types, End
<1>2. op'[o].pc = pc /\ op'[o].kind = op[o].kind /\ Cleared(o) /\ op'[o].from = None
  BY <1>1 DEF NoOp, Cleared
<1> QED
  BY <1>2 DEF Types, End, Moves, Others

\* Either the lock is taken and all that earlier operations left is dropped, or
\* the operation is refused.
LEMMA AcquireEffect ==
    ASSUME Types, NEW o \in Operations, NEW kind, NEW first, NEW from, Acquire(o, kind, first, from)
    PROVE  /\ op[o].pc = "new"
           /\ UNCHANGED <<main, wal, files, add, archive, crashed, acked, risk>>
           /\ \/ /\ Lock(o)
                 /\ op'[o].kind = kind /\ op'[o].pc = first /\ op'[o].from = from
                 /\ Cleared(o) /\ \A p \in Operations \ {o} : Left(p)
              \/ /\ Refused(o)
                 /\ Moves(o, "refused") /\ SameBackup(o) /\ SameRestore(o)
<1>1. CASE Lock(o) /\ op' = [p \in Operations |->
                      IF p = o THEN [NoOp EXCEPT !.kind = kind, !.pc = first, !.from = from]
                      ELSE IF op[p].pc \in Over THEN [NoOp EXCEPT !.pc = op[p].pc] ELSE op[p]]
  <2>1. op'[o] = [[[NoOp EXCEPT !.kind = kind] EXCEPT !.pc = first] EXCEPT !.from = from]
    BY <1>1
  <2>2. op'[o].kind = kind /\ op'[o].pc = first /\ op'[o].from = from /\ Cleared(o)
    BY <2>1 DEF NoOp, Cleared
  <2>3. ASSUME NEW p \in Operations \ {o} PROVE Left(p)
    <3>1. CASE op[p].pc \in Over
      <4>1. op'[p] = [NoOp EXCEPT !.pc = op[p].pc]
        BY <1>1, <2>3, <3>1
      <4> QED
        BY <3>1, <4>1 DEF NoOp, Cleared, Emptied, Left
    <3>2. CASE op[p].pc \notin Over
      BY <1>1, <2>3, <3>2 DEF Left
    <3> QED
      BY <3>1, <3>2
  <2> QED
    BY <1>1, <2>2, <2>3 DEF Acquire, dbVars
<1>2. CASE Refused(o) /\ op' = [op EXCEPT ![o].pc = "refused"]
  <2>1. Go(o, "refused")
    BY <1>2 DEF Go
  <2> QED
    BY <1>2, <2>1, GoEffect DEF Acquire, dbVars
<1> QED
  BY <1>1, <1>2 DEF Acquire

LEMMA SnapshotEffect ==
    ASSUME Types, NEW o \in Operations, Snapshot(o)
    PROVE  /\ At(o, "backup", "snapshot")
           /\ UNCHANGED <<main, wal, files, add, archive, crashed, acked, risk>>
           /\ Moves(o, "list") /\ SameRestore(o)
           /\ op'[o].rows = Rows /\ op'[o].gone = Rows \ files
BY DEF Types, OpRows, Snapshot, At, Moves, Others, SameRestore, dbVars

LEMMA ListFilesEffect ==
    ASSUME Types, NEW o \in Operations, ListFiles(o)
    PROVE  /\ At(o, "backup", "list")
           /\ UNCHANGED <<main, wal, files, add, archive, crashed, acked, risk>>
           /\ Moves(o, "pack") /\ SameRestore(o)
           /\ op'[o].names = files /\ op'[o].rows = op[o].rows /\ op'[o].gone = op[o].gone
           /\ op'[o].swapped = op[o].swapped
BY DEF Types, OpRows, ListFiles, At, Moves, Others, SameRestore, dbVars

LEMMA CopyDatabaseEffect ==
    ASSUME Types, NEW o \in Operations, CopyDatabase(o)
    PROVE  /\ At(o, "restore", "copy_db")
           /\ UNCHANGED <<main, wal, files, add, archive, crashed, acked, risk>>
           /\ Moves(o, "copy_main") /\ SameBackup(o)
           /\ op'[o].from = op[o].from /\ op'[o].torn = op[o].torn /\ op'[o].base = Rows \cap files
           /\ op'[o].safety = [db |-> main, main |-> {}, wal |-> {}, files |-> {}]
           /\ op'[o].safety \in Copies
BY DEF Types, OpRows, Copies, CopyDatabase, At, Moves, Others, SameBackup, dbVars

LEMMA CopyMainEffect ==
    ASSUME Types, KindFits, NEW o \in Operations, CopyMain(o)
    PROVE  /\ At(o, "restore", "copy_main")
           /\ UNCHANGED <<main, wal, files, add, archive, crashed, acked, risk>>
           /\ Moves(o, "copy_rest") /\ SameBackup(o)
           /\ op'[o].from = op[o].from /\ op'[o].torn = op[o].torn /\ op'[o].base = op[o].base
           /\ op[o].safety \in Copies /\ op'[o].safety \in Copies /\ op'[o].safety.main = main
           /\ op'[o].safety.db = op[o].safety.db /\ op'[o].safety.wal = op[o].safety.wal
<1>1. op[o].safety \in Copies
  BY DEF Types, KindFits, KindFit, OpRows, RestoreSteps, Copying, CopyMain, At
<1>2. op'[o].safety = [op[o].safety EXCEPT !.main = main]
  BY DEF Types, OpRows, CopyMain
<1>3. /\ op'[o].safety \in Copies /\ op'[o].safety.main = main /\ op'[o].safety.db = op[o].safety.db
      /\ op'[o].safety.wal = op[o].safety.wal
  BY <1>1, <1>2 DEF Types, Copies
<1>4. /\ Moves(o, "copy_rest") /\ SameBackup(o)
      /\ op'[o].from = op[o].from /\ op'[o].torn = op[o].torn /\ op'[o].base = op[o].base
  BY DEF Types, OpRows, CopyMain, Moves, Others, SameBackup
<1> QED
  BY <1>1, <1>3, <1>4 DEF CopyMain, dbVars

LEMMA CopyRestEffect ==
    ASSUME Types, KindFits, NEW o \in Operations, CopyRest(o)
    PROVE  /\ At(o, "restore", "copy_rest")
           /\ UNCHANGED <<main, wal, files, add, archive, crashed, acked, risk>>
           /\ Moves(o, "wipe") /\ SameBackup(o)
           /\ op'[o].from = op[o].from /\ op'[o].torn = op[o].torn /\ op'[o].base = op[o].base
           /\ op[o].safety \in Copies /\ op'[o].safety \in Copies
           /\ op'[o].safety.wal = wal /\ op'[o].safety.files = files
           /\ op'[o].safety.main = op[o].safety.main /\ op'[o].safety.db = op[o].safety.db
<1>1. op[o].safety \in Copies
  BY DEF Types, KindFits, KindFit, OpRows, RestoreSteps, Copying, CopyRest, At
<1>2. op'[o].safety = [[op[o].safety EXCEPT !.wal = wal] EXCEPT !.files = files]
  BY DEF Types, OpRows, CopyRest
<1>3. /\ op'[o].safety \in Copies /\ op'[o].safety.wal = wal /\ op'[o].safety.files = files
      /\ op'[o].safety.main = op[o].safety.main /\ op'[o].safety.db = op[o].safety.db
  BY <1>1, <1>2 DEF Types, Copies
<1>4. /\ Moves(o, "wipe") /\ SameBackup(o)
      /\ op'[o].from = op[o].from /\ op'[o].torn = op[o].torn /\ op'[o].base = op[o].base
  BY DEF Types, OpRows, CopyRest, Moves, Others, SameBackup
<1> QED
  BY <1>1, <1>3, <1>4 DEF CopyRest, dbVars

LEMMA RemoveBookEffect ==
    ASSUME Types, NEW b \in Rows, RemoveBook(b)
    PROVE  /\ main' = main \ {b} /\ wal' = wal \ {b} /\ files' = files \ {b} /\ acked' = acked \ {b}
           /\ UNCHANGED <<add, archive, crashed, risk>>
           /\ \A p \in Operations : Without(p, b) /\ MissedBy(p, b)
<1>1. ASSUME NEW p \in Operations PROVE Without(p, b) /\ MissedBy(p, b)
  BY DEF Types, OpRows, RemoveBook, Without, MissedBy, Less
<1> QED
  BY <1>1 DEF RemoveBook

LEMMA UnlinkOldEffect ==
    ASSUME Types, NEW b \in Books, UnlinkOld(b)
    PROVE  /\ add[b].pc = "stored" /\ add[b].old # None
           /\ files' = files \ {add[b].old} /\ acked' = acked \ {add[b].old}
           /\ add' = [add EXCEPT ![b].pc = "unlinked"]
           /\ UNCHANGED <<main, wal, archive, crashed, risk>>
           /\ \A p \in Operations : Without(p, add[b].old) /\ MissedBy(p, add[b].old)
<1>1. ASSUME NEW p \in Operations PROVE Without(p, add[b].old) /\ MissedBy(p, add[b].old)
  BY DEF Types, OpRows, UnlinkOld, Without, MissedBy, Less
<1> QED
  BY <1>1 DEF UnlinkOld, dbVars

Kept(p) == op'[p].gone = op[p].gone /\ op'[p].swapped = op[p].swapped
LEMMA CommitRowEffect ==
    ASSUME Types, NEW b \in Books, CommitRow(b)
    PROVE  /\ Pending(b)
           /\ \/ /\ add[b].stale /\ UNCHANGED <<main, wal, op>>
              \/ /\ ~add[b].stale
                 /\ main' = main \ {add[b].old} /\ wal' = (wal \ {add[b].old}) \cup {b}
                 /\ \A p \in Operations : Without(p, add[b].old) /\ Kept(p)
           /\ add' = [add EXCEPT ![b] = [pc |-> "answered", stale |-> FALSE, old |-> None]]
           /\ acked' = (acked \ {add[b].old}) \cup {b}
           /\ UNCHANGED <<files, archive, crashed, risk>>
<1>1. ASSUME ~add[b].stale, NEW p \in Operations PROVE Without(p, add[b].old) /\ Kept(p)
  BY <1>1 DEF Types, OpRows, CommitRow, Without, Kept, Less
<1> QED
  BY <1>1 DEF CommitRow, Pending, dbVars

LEMMA CheckpointEffect ==
    ASSUME Types, Checkpoint
    PROVE  /\ main' = Rows /\ wal' = {}
           /\ UNCHANGED <<files, add, archive, crashed, acked, risk>>
           /\ \A p \in Operations : Checked(p)
BY DEF Types, OpRows, Checkpoint, SameBackup, Checked

LEMMA CrashEffect ==
    ASSUME Types, Crash
    PROVE  /\ add' = [b \in Books |-> IF Pending(b)
                                      THEN [pc |-> "killed", stale |-> FALSE, old |-> None]
                                      ELSE add[b]]
           /\ risk' = risk \cup IF Restoring THEN Asked ELSE {}
           /\ UNCHANGED <<main, wal, files, archive, acked>>
           /\ \A p \in Operations : Cut(p)
<1>1. ASSUME NEW p \in Operations PROVE Cut(p)
  <2>1. CASE ~Running(p)
    BY <2>1 DEF Crash, Cut
  <2>2. CASE Running(p) /\ op[p].safety # None /\ op[p].pc \notin Copying
    <3>1. op'[p] = [op[p] EXCEPT !.pc = "killed"]
      BY <2>2 DEF Crash
    <3> QED
      BY <2>2, <3>1 DEF Types, OpRows, SameBackup, SameRestore, Cut
  <2>3. CASE Running(p) /\ ~(op[p].safety # None /\ op[p].pc \notin Copying)
    <3>1. op'[p] = [NoOp EXCEPT !.pc = "killed"]
      BY <2>3 DEF Crash
    <3> QED
      BY <2>3, <3>1 DEF NoOp, Cleared, Cut
  <2> QED
    BY <2>1, <2>2, <2>3
<1> QED
  BY <1>1 DEF Crash, dbVars

\* Only a request under way has a connection to replaced files.
LEMMA StaleStep == IInv /\ [Next]_vars => StaleIsStored'
<1> SUFFICES ASSUME IInv, [Next]_vars PROVE StaleIsStored'
  OBVIOUS
<1>0. Types /\ KindFits /\ StaleIsStored
  BY DEF IInv
<1>1. ASSUME NEW b \in Books, NEW old \in Rows \cup {None}, StoreCover(b, old)
     PROVE  StaleIsStored'
  BY <1>1, <1>0 DEF StoreCover, Types, AddRows, Pending, StaleIsStored, dbVars
<1>2. ASSUME NEW b \in Books, CommitRow(b) PROVE StaleIsStored'
  BY <1>2, <1>0 DEF CommitRow, Types, AddRows, Pending, StaleIsStored, dbVars
<1>3. ASSUME NEW b \in Rows, RemoveBook(b) PROVE StaleIsStored'
  BY <1>3, <1>0, RemoveBookEffect DEF Types, AddRows, Pending, StaleIsStored
<1>4. CASE Checkpoint
  BY <1>4, <1>0, CheckpointEffect DEF Types, AddRows, Pending, StaleIsStored
<1>5. ASSUME NEW o \in Operations, BeginBackup(o) PROVE StaleIsStored'
  <2>1. Acquire(o, "backup", "snapshot", None)
    BY <1>5 DEF BeginBackup
  <2> QED
    BY <1>0, <2>1, AcquireEffect DEF Types, AddRows, Pending, StaleIsStored, Moves, Others
<1>6. ASSUME NEW o \in Operations, BeginRestore(o) PROVE StaleIsStored'
  <2>1. PICK from \in {archive, Foreign} \ {None} : Acquire(o, "restore", "copy_db", from)
    BY <1>6 DEF BeginRestore
  <2> QED
    BY <1>0, <2>1, AcquireEffect DEF Types, AddRows, Pending, StaleIsStored, Moves, Others
<1>7. ASSUME NEW o \in Operations, Snapshot(o) PROVE StaleIsStored'
  BY <1>7, <1>0, SnapshotEffect DEF At, Types, AddRows, Pending, StaleIsStored, Moves, Others
<1>8. ASSUME NEW o \in Operations, ListFiles(o) PROVE StaleIsStored'
  BY <1>8, <1>0, ListFilesEffect DEF At, Types, AddRows, Pending, StaleIsStored, Moves, Others
<1>9. ASSUME NEW o \in Operations, Pack(o) PROVE StaleIsStored'
  BY <1>9, <1>0, EndEffect DEF Pack, At, Types, AddRows, Pending, StaleIsStored, Moves, Others, dbVars
<1>10. ASSUME NEW o \in Operations, CopyDatabase(o) PROVE StaleIsStored'
  BY <1>10, <1>0, CopyDatabaseEffect DEF At, Types, AddRows, Pending, StaleIsStored, Moves, Others
<1>11. ASSUME NEW o \in Operations, CopyMain(o) PROVE StaleIsStored'
  BY <1>11, <1>0, CopyMainEffect DEF At, Types, AddRows, Pending, StaleIsStored, Moves, Others
<1>12. ASSUME NEW o \in Operations, CopyRest(o) PROVE StaleIsStored'
  BY <1>12, <1>0, CopyRestEffect DEF At, Types, AddRows, Pending, StaleIsStored, Moves, Others
<1>13. ASSUME NEW o \in Operations, Wipe(o) PROVE StaleIsStored'
  BY <1>13, <1>0, GoEffect DEF Wipe, Step, At, Types, AddRows, Pending, StaleIsStored, Moves, Others,
     dbVars
<1>14. ASSUME NEW o \in Operations, Extract(o) PROVE StaleIsStored'
  BY <1>14, <1>0, GoEffect DEF Extract, Step, At, Types, AddRows, Pending, StaleIsStored, Moves, Others,
     dbVars
<1>15. ASSUME NEW o \in Operations, Dispose(o) PROVE StaleIsStored'
  BY <1>15, <1>0, GoEffect DEF Dispose, Step, At, Types, AddRows, Pending, StaleIsStored, Moves, Others,
     dbVars
<1>16. ASSUME NEW o \in Operations, Move(o) PROVE StaleIsStored'
  BY <1>16, <1>0, GoEffect DEF Move, Step, At, Replaced, Types, AddRows, Pending, StaleIsStored, Moves,
     Others, dbVars
<1>17. ASSUME NEW o \in Operations, DropLog(o) PROVE StaleIsStored'
  BY <1>17, <1>0, GoEffect DEF DropLog, Step, At, Replaced, Types, AddRows, Pending, StaleIsStored, Moves,
     Others, dbVars
<1>18. ASSUME NEW o \in Operations, NewEngine(o) PROVE StaleIsStored'
  BY <1>18, <1>0, EndEffect DEF NewEngine, At, Types, AddRows, Pending, StaleIsStored, Moves, Others,
     dbVars
<1>19. ASSUME NEW o \in Operations, FailRestore(o) PROVE StaleIsStored'
  BY <1>19, <1>0, GoEffect DEF FailRestore, At, Types, AddRows, Pending, StaleIsStored, Moves, Others,
     dbVars
<1>20. ASSUME NEW o \in Operations, FailCopy(o) PROVE StaleIsStored'
  BY <1>20, <1>0, EndEffect DEF FailCopy, At, Types, AddRows, Pending, StaleIsStored, Moves, Others, dbVars
<1>21. ASSUME NEW o \in Operations, UndoDatabase(o) PROVE StaleIsStored'
  BY <1>21, <1>0, GoEffect DEF UndoDatabase, Step, At, Replaced, Types, AddRows, Pending, StaleIsStored,
     Moves, Others, dbVars
<1>22. ASSUME NEW o \in Operations, UndoRest(o) PROVE StaleIsStored'
  BY <1>22, <1>0, GoEffect DEF UndoRest, Step, At, Replaced, Types, AddRows, Pending, StaleIsStored, Moves,
     Others, dbVars
<1>23. ASSUME NEW o \in Operations, UndoClean(o) PROVE StaleIsStored'
  BY <1>23, <1>0, EndEffect DEF UndoClean, At, Types, AddRows, Pending, StaleIsStored, Moves, Others,
     dbVars
<1>24. ASSUME NEW o \in Operations, FailUndo(o) PROVE StaleIsStored'
  BY <1>24, <1>0, GoEffect DEF FailUndo, At, Types, AddRows, Pending, StaleIsStored, Moves, Others, dbVars
<1>25. CASE Crash
  BY <1>25, <1>0, CrashEffect DEF Types, AddRows, Pending, StaleIsStored
<1>26. CASE UNCHANGED vars
  BY <1>26, <1>0 DEF vars, dbVars, Types, AddRows, Pending, StaleIsStored
<1>27. ASSUME NEW b \in Books, UnlinkOld(b) PROVE StaleIsStored'
  BY <1>27, <1>0 DEF UnlinkOld, Types, AddRows, Pending, StaleIsStored, dbVars
<1>28. ASSUME NEW b \in Books, MissRow(b) PROVE StaleIsStored'
  BY <1>28, <1>0 DEF MissRow, Types, AddRows, Pending, StaleIsStored, dbVars
<1>29. ASSUME NEW o \in Operations, FailBackup(o) PROVE StaleIsStored'
  BY <1>29, <1>0, EndEffect DEF FailBackup, At, Types, AddRows, Pending, StaleIsStored, Moves, Others, dbVars
<1>30. ASSUME NEW o \in Operations, Handle(o) PROVE StaleIsStored'
  BY <1>30, <1>0 DEF Handle, dbVars, Types, AddRows, Pending, StaleIsStored
<1> QED
  BY <1>1, <1>2, <1>3, <1>4, <1>5, <1>6, <1>7, <1>8, <1>9, <1>10, <1>11, <1>12, <1>13, <1>14,
     <1>15, <1>16, <1>17, <1>18, <1>19, <1>20, <1>21, <1>22, <1>23, <1>24, <1>25, <1>26, <1>27,
     <1>28, <1>29, <1>30 DEF Next, Proceed

\* An operation keeps to the steps of its kind.
LEMMA KindStep == IInv /\ [Next]_vars => KindFits'
<1> SUFFICES ASSUME IInv, [Next]_vars PROVE KindFits'
  OBVIOUS
<1>0. Types /\ KindFits
  BY DEF IInv
<1> USE NoneAssumption
<1> USE DEF Steps, BackupSteps, RestoreSteps, Undoing, Undoable, Copying, Over
<1>1. ASSUME NEW b \in Books, NEW old \in Rows \cup {None}, StoreCover(b, old)
     PROVE  KindFits'
  BY <1>1, <1>0 DEF StoreCover, KindFits, KindFit, LockHeld, LockFit, Running, dbVars
<1>2. ASSUME NEW b \in Books, CommitRow(b) PROVE KindFits'
  BY <1>2, <1>0, CommitRowEffect DEF Without, Kept, KindFits, KindFit
<1>3. ASSUME NEW b \in Rows, RemoveBook(b) PROVE KindFits'
  <2>1. /\ main' = main \ {b} /\ wal' = wal \ {b} /\ files' = files \ {b} /\ acked' = acked \ {b}
        /\ UNCHANGED <<add, archive, crashed, risk>>
    BY <1>3, <1>0, RemoveBookEffect
  <2>2. \A p \in Operations : Without(p, b)
    BY <1>3, <1>0, RemoveBookEffect
  <2>3. ASSUME NEW p \in Operations PROVE KindFit(p)'
    BY <1>0, <2>1, <2>2, NoneIsNoOperation DEF KindFits, KindFit, LockHeld, LockFit, Running,
       SameRestore, Cleared, Without
  <2> QED
    BY <1>0, <2>1, <2>3 DEF KindFits, LockHeld, LockFit, Running
<1>4. CASE Checkpoint
  <2>1. /\ main' = Rows /\ wal' = {}
        /\ UNCHANGED <<files, add, archive, crashed, acked, risk>>
    BY <1>4, <1>0, CheckpointEffect
  <2>2. \A p \in Operations : Checked(p)
    BY <1>4, <1>0, CheckpointEffect
  <2>3. ASSUME NEW p \in Operations PROVE KindFit(p)'
    BY <1>0, <2>1, <2>2, NoneIsNoOperation DEF KindFits, KindFit, LockHeld, LockFit, Running,
       SameRestore, Cleared, Checked
  <2> QED
    BY <1>0, <2>1, <2>3 DEF KindFits, LockHeld, LockFit, Running
<1>5. ASSUME NEW o \in Operations, BeginBackup(o) PROVE KindFits'
  <2>0. Acquire(o, "backup", "snapshot", None)
    BY <1>5 DEF BeginBackup
  <2>1. /\ op[o].pc = "new" /\ (Lock(o) \/ Refused(o))
        /\ UNCHANGED <<main, wal, files, add, archive, crashed, acked, risk>>
    BY <2>0, <1>0, AcquireEffect
  <2>2. CASE Lock(o)
    <3>1. /\ op'[o].kind = "backup" /\ op'[o].pc = "snapshot" /\ op'[o].from = None /\ Cleared(o)
          /\ \A p \in Operations \ {o} : Left(p)
      BY <2>0, <2>2, <1>0, AcquireEffect DEF Lock, Refused
    <3>2. ASSUME NEW p \in Operations PROVE KindFit(p)'
      BY <1>0, <2>1, <2>2, <3>1, NoneIsNoOperation DEF Left, Emptied, Over, KindFits, KindFit, LockHeld,
         LockFit, Running, SameRestore, Cleared
    <3> QED
      BY <1>0, <2>1, <3>2 DEF KindFits, LockHeld, LockFit, Running
  <2>3. CASE Refused(o)
    <3>1. Moves(o, "refused") /\ SameBackup(o) /\ SameRestore(o)
      BY <2>0, <2>3, <1>0, AcquireEffect DEF Lock, Refused
    <3>2. ASSUME NEW p \in Operations PROVE KindFit(p)'
      BY <1>0, <2>1, <3>1 DEF KindFits, KindFit, LockHeld, LockFit, Running, SameRestore, Cleared,
         Moves, Others
    <3> QED
      BY <1>0, <2>1, <3>2 DEF KindFits, LockHeld, LockFit, Running
  <2> QED
    BY <2>1, <2>2, <2>3
<1>6. ASSUME NEW o \in Operations, BeginRestore(o) PROVE KindFits'
  <2>0. PICK from \in {archive, Foreign} \ {None} : Acquire(o, "restore", "copy_db", from)
    BY <1>6 DEF BeginRestore
  <2>1. /\ op[o].pc = "new" /\ (Lock(o) \/ Refused(o))
        /\ UNCHANGED <<main, wal, files, add, archive, crashed, acked, risk>>
    BY <2>0, <1>0, AcquireEffect
  <2>2. CASE Lock(o)
    <3>1. /\ op'[o].kind = "restore" /\ op'[o].pc = "copy_db" /\ op'[o].from = from /\ Cleared(o)
          /\ \A p \in Operations \ {o} : Left(p)
      BY <2>0, <2>2, <1>0, AcquireEffect DEF Lock, Refused
    <3>2. ASSUME NEW p \in Operations PROVE KindFit(p)'
      BY <2>0, <1>0, <2>1, <2>2, <3>1, NoneIsNoOperation DEF Left, Emptied, Over, KindFits, KindFit, LockHeld,
         LockFit, Running, SameRestore, Cleared
    <3> QED
      BY <1>0, <2>1, <3>2 DEF KindFits, LockHeld, LockFit, Running
  <2>3. CASE Refused(o)
    <3>1. Moves(o, "refused") /\ SameBackup(o) /\ SameRestore(o)
      BY <2>0, <2>3, <1>0, AcquireEffect DEF Lock, Refused
    <3>2. ASSUME NEW p \in Operations PROVE KindFit(p)'
      BY <1>0, <2>1, <3>1 DEF KindFits, KindFit, LockHeld, LockFit, Running, SameRestore, Cleared,
         Moves, Others
    <3> QED
      BY <1>0, <2>1, <3>2 DEF KindFits, LockHeld, LockFit, Running
  <2> QED
    BY <2>1, <2>2, <2>3
<1>7. ASSUME NEW o \in Operations, Snapshot(o) PROVE KindFits'
  BY <1>7, <1>0, SnapshotEffect DEF At, KindFits, KindFit, LockHeld, LockFit, Running, Moves,
     Others, SameRestore, Cleared
<1>8. ASSUME NEW o \in Operations, ListFiles(o) PROVE KindFits'
  BY <1>8, <1>0, ListFilesEffect DEF At, KindFits, KindFit, LockHeld, LockFit, Running, Moves,
     Others, SameRestore, Cleared
<1>9. ASSUME NEW o \in Operations, Pack(o) PROVE KindFits'
  <2>1. End(o, "done") \/ End(o, "failed")
    BY <1>9 DEF Pack
  <2>2. (Moves(o, "done") \/ Moves(o, "failed")) /\ Cleared(o) /\ op'[o].from = None
    BY <1>0, <2>1, EndEffect
  <2> QED
    BY <1>9, <1>0, <2>2 DEF Pack, At, KindFits, KindFit, LockHeld, LockFit, Running, Moves,
       Others, SameRestore, Cleared, dbVars
<1>10. ASSUME NEW o \in Operations, CopyDatabase(o) PROVE KindFits'
  BY <1>10, <1>0, CopyDatabaseEffect DEF At, KindFits, KindFit, LockHeld, LockFit, Running, Moves,
     Others, SameRestore, Cleared
<1>11. ASSUME NEW o \in Operations, CopyMain(o) PROVE KindFits'
  BY <1>11, <1>0, CopyMainEffect DEF At, KindFits, KindFit, LockHeld, LockFit, Running, Moves,
     Others, SameRestore, Cleared
<1>12. ASSUME NEW o \in Operations, CopyRest(o) PROVE KindFits'
  BY <1>12, <1>0, CopyRestEffect DEF At, KindFits, KindFit, LockHeld, LockFit, Running, Moves,
     Others, SameRestore, Cleared
<1>13. ASSUME NEW o \in Operations, Wipe(o) PROVE KindFits'
  BY <1>13, <1>0, GoEffect DEF Wipe, Step, At, KindFits, KindFit, LockHeld, LockFit, Running,
     Moves, Others, SameRestore, Cleared, dbVars
<1>14. ASSUME NEW o \in Operations, Extract(o) PROVE KindFits'
  BY <1>14, <1>0, GoEffect DEF Extract, Step, At, KindFits, KindFit, LockHeld, LockFit, Running,
     Moves, Others, SameRestore, Cleared, dbVars
<1>15. ASSUME NEW o \in Operations, Dispose(o) PROVE KindFits'
  BY <1>15, <1>0, GoEffect DEF Dispose, Step, At, KindFits, KindFit, LockHeld, LockFit, Running,
     Moves, Others, SameRestore, Cleared, dbVars
<1>16. ASSUME NEW o \in Operations, Move(o) PROVE KindFits'
  BY <1>16, <1>0, GoEffect DEF Move, Step, At, KindFits, KindFit, LockHeld, LockFit, Running,
     Moves, Others, SameRestore, Cleared, dbVars
<1>17. ASSUME NEW o \in Operations, DropLog(o) PROVE KindFits'
  BY <1>17, <1>0, GoEffect DEF DropLog, Step, At, KindFits, KindFit, LockHeld, LockFit, Running,
     Moves, Others, SameRestore, Cleared, dbVars
<1>18. ASSUME NEW o \in Operations, NewEngine(o) PROVE KindFits'
  <2>1. End(o, "done")
    BY <1>18 DEF NewEngine
  <2>2. Moves(o, "done") /\ Cleared(o) /\ op'[o].from = None
    BY <1>0, <2>1, EndEffect
  <2> QED
    BY <1>18, <1>0, <2>2 DEF NewEngine, At, KindFits, KindFit, LockHeld, LockFit, Running, Moves,
       Others, SameRestore, Cleared, dbVars
<1>19. ASSUME NEW o \in Operations, FailRestore(o) PROVE KindFits'
  BY <1>19, <1>0, GoEffect DEF FailRestore, At, KindFits, KindFit, LockHeld, LockFit, Running,
     Moves, Others, SameRestore, Cleared, dbVars
<1>20. ASSUME NEW o \in Operations, FailCopy(o) PROVE KindFits'
  <2>1. End(o, "failed")
    BY <1>20 DEF FailCopy
  <2>2. Moves(o, "failed") /\ Cleared(o) /\ op'[o].from = None
    BY <1>0, <2>1, EndEffect
  <2> QED
    BY <1>20, <1>0, <2>2 DEF FailCopy, At, KindFits, KindFit, LockHeld, LockFit, Running, Moves,
       Others, SameRestore, Cleared, dbVars
<1>21. ASSUME NEW o \in Operations, UndoDatabase(o) PROVE KindFits'
  BY <1>21, <1>0, GoEffect DEF UndoDatabase, Step, At, KindFits, KindFit, LockHeld, LockFit,
     Running, Moves, Others, SameRestore, Cleared, dbVars
<1>22. ASSUME NEW o \in Operations, UndoRest(o) PROVE KindFits'
  BY <1>22, <1>0, GoEffect DEF UndoRest, Step, At, KindFits, KindFit, LockHeld, LockFit, Running,
     Moves, Others, SameRestore, Cleared, dbVars
<1>23. ASSUME NEW o \in Operations, UndoClean(o) PROVE KindFits'
  <2>1. End(o, "failed")
    BY <1>23 DEF UndoClean
  <2>2. Moves(o, "failed") /\ Cleared(o) /\ op'[o].from = None
    BY <1>0, <2>1, EndEffect
  <2> QED
    BY <1>23, <1>0, <2>2 DEF UndoClean, At, KindFits, KindFit, LockHeld, LockFit, Running, Moves,
       Others, SameRestore, Cleared, dbVars
<1>24. ASSUME NEW o \in Operations, FailUndo(o) PROVE KindFits'
  BY <1>24, <1>0, GoEffect DEF FailUndo, At, KindFits, KindFit, LockHeld, LockFit, Running, Moves,
     Others, SameRestore, Cleared, dbVars
<1>25. CASE Crash
  <2>1. /\ UNCHANGED <<main, wal, files, archive, acked>>
        /\ add' = [b \in Books |-> IF Pending(b)
                                 THEN [pc |-> "killed", stale |-> FALSE, old |-> None] ELSE add[b]]
    BY <1>25, <1>0, CrashEffect
  <2>2. \A p \in Operations : Cut(p)
    BY <1>25, <1>0, CrashEffect
  <2>3. ASSUME NEW p \in Operations PROVE KindFit(p)'
    BY <1>0, <2>1, <2>2, NoneIsNoOperation DEF KindFits, KindFit, LockHeld, LockFit, Running,
       SameRestore, Cleared, Cut
  <2> QED
    BY <1>0, <2>1, <2>3 DEF KindFits, LockHeld, LockFit, Running
<1>26. CASE UNCHANGED vars
  BY <1>26, <1>0 DEF vars, dbVars, KindFits, KindFit, LockHeld, LockFit, Running
<1>27. ASSUME NEW b \in Books, UnlinkOld(b) PROVE KindFits'
  BY <1>27, <1>0, UnlinkOldEffect DEF Without, KindFits, KindFit
<1>28. ASSUME NEW b \in Books, MissRow(b) PROVE KindFits'
  BY <1>28, <1>0 DEF MissRow, KindFits, KindFit
<1>29. ASSUME NEW o \in Operations, FailBackup(o) PROVE KindFits'
  <2>1. End(o, "failed")
    BY <1>29 DEF FailBackup
  <2>2. Moves(o, "failed") /\ Cleared(o) /\ op'[o].from = None
    BY <1>0, <2>1, EndEffect
  <2> QED
    BY <1>29, <1>0, <2>2 DEF FailBackup, At, KindFits, KindFit, LockHeld, LockFit, Running, Moves,
       Others, SameRestore, Cleared, dbVars
<1>30. ASSUME NEW o \in Operations, Handle(o) PROVE KindFits'
  BY <1>30, <1>0 DEF Handle, dbVars, KindFits, KindFit, LockHeld, LockFit, Running
<1> QED
  BY <1>1, <1>2, <1>3, <1>4, <1>5, <1>6, <1>7, <1>8, <1>9, <1>10, <1>11, <1>12, <1>13, <1>14,
     <1>15, <1>16, <1>17, <1>18, <1>19, <1>20, <1>21, <1>22, <1>23, <1>24, <1>25, <1>26, <1>27,
     <1>28, <1>29, <1>30 DEF Next, Proceed

-----------------------------------------------------------------------------
(* The lock.                                                               *)

LEMMA RunsHold == TurnFits /\ FdFits => LockHeld
BY DEF TurnFits, TurnFit, FdFits, FdFit, LockHeld, LockFit

\* Of the lock, a step does one of these or nothing.
LEMMA LockMoves ==
    ASSUME [Next]_vars
    PROVE  \/ \E o \in Operations : \/ Lock(o) \/ LetGo(o) \/ Remember(o)
                                    \/ Unlock(o) \/ Close(o) \/ Forget(o)
           \/ LoseLock
           \/ UNCHANGED lockVars
<1>1. ASSUME NEW b \in Books, NEW old \in Rows \cup {None}, StoreCover(b, old)
      PROVE  UNCHANGED lockVars
  BY <1>1 DEF StoreCover
<1>2. ASSUME NEW b \in Books, UnlinkOld(b) \/ CommitRow(b) \/ MissRow(b) PROVE UNCHANGED lockVars
  BY <1>2 DEF UnlinkOld, CommitRow, MissRow
<1>3. ASSUME NEW b \in Rows, RemoveBook(b) PROVE UNCHANGED lockVars
  BY <1>3 DEF RemoveBook
<1>4. CASE Checkpoint
  BY <1>4 DEF Checkpoint
<1>5. ASSUME NEW o \in Operations, BeginBackup(o) \/ BeginRestore(o)
      PROVE  Lock(o) \/ UNCHANGED lockVars
  BY <1>5 DEF BeginBackup, BeginRestore, Acquire, Refused
<1>6. ASSUME NEW o \in Operations,
             \/ Snapshot(o) \/ ListFiles(o) \/ CopyDatabase(o) \/ CopyMain(o) \/ CopyRest(o)
             \/ Wipe(o) \/ Extract(o) \/ Dispose(o) \/ Move(o) \/ DropLog(o) \/ FailRestore(o)
             \/ UndoDatabase(o) \/ UndoRest(o)
      PROVE  UNCHANGED lockVars
  BY <1>6 DEF Snapshot, ListFiles, CopyDatabase, CopyMain, CopyRest, Wipe, Extract, Dispose, Move,
     DropLog, FailRestore, UndoDatabase, UndoRest
<1>7. ASSUME NEW o \in Operations,
             \/ Pack(o) \/ FailBackup(o) \/ NewEngine(o) \/ FailCopy(o) \/ UndoClean(o) \/ FailUndo(o)
      PROVE  LetGo(o)
  BY <1>7 DEF Pack, FailBackup, NewEngine, FailCopy, UndoClean, FailUndo
<1>8. ASSUME NEW o \in Operations, Handle(o)
      PROVE  Remember(o) \/ Unlock(o) \/ Close(o) \/ Forget(o)
  BY <1>8 DEF Handle
<1>9. CASE Crash
  BY <1>9 DEF Crash
<1>10. CASE UNCHANGED vars
  BY <1>10 DEF vars
<1> QED
  BY <1>1, <1>2, <1>3, <1>4, <1>5, <1>6, <1>7, <1>8, <1>9, <1>10 DEF Next, Proceed

\* Once two were at the lock together, that is remembered.
LEMMA CrossedStays == [Next]_vars /\ ~crossed' => ~crossed
<1> SUFFICES ASSUME [Next]_vars, ~crossed' PROVE ~crossed
  OBVIOUS
<1>1. ASSUME NEW o \in Operations, Lock(o) \/ LetGo(o) \/ Remember(o) \/ Unlock(o) \/ Close(o) \/ Forget(o)
      PROVE  ~crossed
  BY <1>1 DEF Lock, LetGo, Remember, Unlock, Close, Forget
<1>2. CASE LoseLock
  BY <1>2 DEF LoseLock
<1>3. CASE UNCHANGED lockVars
  BY <1>3 DEF lockVars
<1> QED
  BY <1>1, <1>2, <1>3, LockMoves

LEMMA LockTypesStep == IInv /\ [Next]_vars => LockTypes'
<1> SUFFICES ASSUME IInv, [Next]_vars PROVE LockTypes'
  OBVIOUS
<1>0. LockTypes
  BY DEF IInv
<1> USE DEF LockTypes, Turns, Turn
<1>1. ASSUME NEW o \in Operations, Lock(o) PROVE LockTypes'
  BY <1>0, <1>1 DEF Lock
<1>2. ASSUME NEW o \in Operations, LetGo(o) PROVE LockTypes'
  BY <1>0, <1>2 DEF LetGo
<1>3. ASSUME NEW o \in Operations, Remember(o) PROVE LockTypes'
  BY <1>0, <1>3 DEF Remember
<1>4. ASSUME NEW o \in Operations, Unlock(o) PROVE LockTypes'
  BY <1>0, <1>4 DEF Unlock
<1>5. ASSUME NEW o \in Operations, Close(o) PROVE LockTypes'
  BY <1>0, <1>5 DEF Close
<1>6. ASSUME NEW o \in Operations, Forget(o) PROVE LockTypes'
  BY <1>0, <1>6 DEF Forget
<1>7. CASE LoseLock
  BY <1>0, <1>7 DEF LoseLock
<1>8. CASE UNCHANGED lockVars
  BY <1>0, <1>8 DEF lockVars
<1> QED
  BY <1>1, <1>2, <1>3, <1>4, <1>5, <1>6, <1>7, <1>8, LockMoves

\* While nobody takes the lock beside one who gives it back, the descriptor that has
\* the flock and the one in the global are those of the operation at work, or of the
\* one that gives the lock back.
LEMMA FdStep == IInv /\ [Next]_vars /\ ~crossed' => FdFits'
<1> SUFFICES ASSUME IInv, [Next]_vars, ~crossed' PROVE FdFits'
  OBVIOUS
<1>0. LockTypes /\ FdFits
  BY CrossedStays DEF IInv, Alone
<1> USE NoneIsNoOperation
<1> USE DEF LockTypes, FdFits, FdFit, Turns, Turn
<1>1. ASSUME NEW o \in Operations, Lock(o) PROVE FdFits'
  BY <1>0, <1>1 DEF Lock
<1>2. ASSUME NEW o \in Operations, LetGo(o) PROVE FdFits'
  BY <1>0, <1>2 DEF LetGo
<1>3. ASSUME NEW o \in Operations, Remember(o) PROVE FdFits'
  <2>1. \A p \in Operations : turn[p] \notin {"close", "forget"}
    BY <1>3 DEF Remember
  <2>2. \A p \in Operations : lockFd # p
    BY <1>0, <1>3, <2>1 DEF Remember
  <2> QED
    BY <1>0, <1>3, <2>2 DEF Remember
<1>4. ASSUME NEW o \in Operations, Unlock(o) PROVE FdFits'
  BY <1>0, <1>4 DEF Unlock
<1>5. ASSUME NEW o \in Operations, Close(o) PROVE FdFits'
  BY <1>0, <1>5 DEF Close
<1>6. ASSUME NEW o \in Operations, Forget(o) PROVE FdFits'
  BY <1>0, <1>6 DEF Forget
<1>7. CASE LoseLock
  BY <1>0, <1>7 DEF LoseLock
<1>8. CASE UNCHANGED lockVars
  BY <1>0, <1>8 DEF lockVars
<1> QED
  BY <1>1, <1>2, <1>3, <1>4, <1>5, <1>6, <1>7, <1>8, LockMoves

LEMMA SameTurn ==
    ASSUME TurnFits, \A p \in Operations : op'[p].pc = op[p].pc, UNCHANGED lockVars
    PROVE  TurnFits'
BY DEF TurnFits, TurnFit, Running, lockVars

LEMMA WorkTurn ==
    ASSUME TurnFits, NEW o \in Operations, turn[o] = "held",
           NEW pc, pc \notin {"new"} \cup Over, Moves(o, pc), UNCHANGED lockVars
    PROVE  TurnFits'
BY DEF TurnFits, TurnFit, Running, lockVars, Moves, Others

LEMMA EndTurn ==
    ASSUME LockTypes, TurnFits, NEW o \in Operations, NEW pc \in Over, Moves(o, pc), LetGo(o)
    PROVE  TurnFits'
BY DEF LockTypes, TurnFits, TurnFit, Running, LetGo, Turn, Moves, Others

\* Work begins with the flock and ends when the release begins.
LEMMA TurnStep == IInv /\ [Next]_vars => TurnFits'
<1> SUFFICES ASSUME IInv, [Next]_vars PROVE TurnFits'
  OBVIOUS
<1>0. Types /\ LockTypes /\ KindFits /\ TurnFits
  BY DEF IInv
<1> USE DEF Over
<1>1. ASSUME NEW b \in Books, NEW old \in Rows \cup {None}, StoreCover(b, old) PROVE TurnFits'
  BY <1>0, <1>1, SameTurn DEF StoreCover
<1>2. ASSUME NEW b \in Books, UnlinkOld(b) PROVE TurnFits'
  BY <1>0, <1>2, SameTurn, UnlinkOldEffect DEF UnlinkOld, Without
<1>3. ASSUME NEW b \in Books, CommitRow(b) PROVE TurnFits'
  BY <1>0, <1>3, SameTurn, CommitRowEffect DEF CommitRow, Without
<1>4. ASSUME NEW b \in Books, MissRow(b) PROVE TurnFits'
  BY <1>0, <1>4, SameTurn DEF MissRow
<1>5. ASSUME NEW b \in Rows, RemoveBook(b) PROVE TurnFits'
  BY <1>0, <1>5, SameTurn, RemoveBookEffect DEF RemoveBook, Without
<1>6. CASE Checkpoint
  BY <1>0, <1>6, SameTurn, CheckpointEffect DEF Checkpoint, Checked
<1>7. ASSUME NEW o \in Operations, NEW kind, NEW first \in {"snapshot", "copy_db"}, NEW from,
             Acquire(o, kind, first, from)
      PROVE  TurnFits'
  <2>1. CASE Lock(o) /\ op'[o].pc = first /\ \A p \in Operations \ {o} : Left(p)
    BY <1>0, <2>1 DEF LockTypes, TurnFits, TurnFit, Running, Lock, Turn, Left, Emptied
  <2>2. CASE Refused(o) /\ Moves(o, "refused")
    BY <1>0, <2>2 DEF LockTypes, TurnFits, TurnFit, Running, Refused, lockVars, Moves, Others
  <2> QED
    BY <1>0, <1>7, <2>1, <2>2, AcquireEffect
<1>8. ASSUME NEW o \in Operations, BeginBackup(o) \/ BeginRestore(o) PROVE TurnFits'
  BY <1>7, <1>8 DEF BeginBackup, BeginRestore
<1>9. ASSUME NEW o \in Operations, Snapshot(o) PROVE TurnFits'
  BY <1>0, <1>9, WorkTurn, SnapshotEffect DEF Snapshot, At
<1>10. ASSUME NEW o \in Operations, ListFiles(o) PROVE TurnFits'
  BY <1>0, <1>10, WorkTurn, ListFilesEffect DEF ListFiles, At
<1>11. ASSUME NEW o \in Operations, Pack(o) \/ NewEngine(o) PROVE TurnFits'
  BY <1>0, <1>11, EndTurn, EndEffect DEF Pack, NewEngine
<1>12. ASSUME NEW o \in Operations, FailBackup(o) \/ FailCopy(o) \/ UndoClean(o) PROVE TurnFits'
  BY <1>0, <1>12, EndTurn, EndEffect DEF FailBackup, FailCopy, UndoClean
<1>13. ASSUME NEW o \in Operations, CopyDatabase(o) PROVE TurnFits'
  BY <1>0, <1>13, WorkTurn, CopyDatabaseEffect DEF CopyDatabase, At
<1>14. ASSUME NEW o \in Operations, CopyMain(o) PROVE TurnFits'
  BY <1>0, <1>14, WorkTurn, CopyMainEffect DEF CopyMain, At
<1>15. ASSUME NEW o \in Operations, CopyRest(o) PROVE TurnFits'
  BY <1>0, <1>15, WorkTurn, CopyRestEffect DEF CopyRest, At
<1>16. ASSUME NEW o \in Operations, Wipe(o) \/ Extract(o) \/ Dispose(o) PROVE TurnFits'
  BY <1>0, <1>16, WorkTurn, GoEffect DEF Wipe, Extract, Dispose, Step, At
<1>17. ASSUME NEW o \in Operations, Move(o) \/ DropLog(o) PROVE TurnFits'
  BY <1>0, <1>17, WorkTurn, GoEffect DEF Move, DropLog, Step, At
<1>18. ASSUME NEW o \in Operations, FailRestore(o) PROVE TurnFits'
  BY <1>0, <1>18, WorkTurn, GoEffect DEF FailRestore
<1>19. ASSUME NEW o \in Operations, UndoDatabase(o) \/ UndoRest(o) PROVE TurnFits'
  BY <1>0, <1>19, WorkTurn, GoEffect DEF UndoDatabase, UndoRest, Step, At
<1>20. ASSUME NEW o \in Operations, FailUndo(o) PROVE TurnFits'
  BY <1>0, <1>20, EndTurn, GoEffect DEF FailUndo
<1>21. ASSUME NEW o \in Operations, Handle(o) PROVE TurnFits'
  BY <1>0, <1>21 DEF LockTypes, TurnFits, TurnFit, Running, Handle, Turn, Remember, Unlock, Close,
     Forget
<1>22. CASE Crash
  <2>1. LoseLock /\ \A p \in Operations : Cut(p)
    BY <1>0, <1>22, CrashEffect DEF Crash
  <2> QED
    BY <2>1 DEF TurnFits, TurnFit, Running, LoseLock, Cut
<1>23. CASE UNCHANGED vars
  BY <1>0, <1>23, SameTurn DEF vars
<1> QED
  BY <1>1, <1>2, <1>3, <1>4, <1>5, <1>6, <1>8, <1>9, <1>10, <1>11, <1>12, <1>13, <1>14, <1>15,
     <1>16, <1>17, <1>18, <1>19, <1>20, <1>21, <1>22, <1>23 DEF Next, Proceed

\* A request that takes away a cover tells the backup under way.
LEMMA LessListed ==
    ASSUME KindFits, Listed, ~crossed, ~crossed', NEW b, files' = files \ {b}, archive' = archive,
           \A p \in Operations : Without(p, b) /\ MissedBy(p, b)
    PROVE  Listed'
<1>1. ASSUME NEW p \in Operations PROVE Lists(p)'
  <2>1. CASE op[p].pc \in {"list", "pack"}
    <3>1. Missed(p) \cup {b} \subseteq Missed(p)'
      BY <2>1 DEF MissedBy, Missed, Running, Over, KindFits, KindFit, BackupSteps
    <3> QED
      BY <2>1, <3>1 DEF Without, Listed, Lists
  <2>2. CASE op[p].pc \notin {"list", "pack"}
    BY <2>2 DEF Without, Lists
  <2> QED
    BY <2>1, <2>2
<1> QED
  BY <1>1 DEF Listed, ArchiveWhole

\* A backup that lists finds the cover of every row it took: covers are only removed
\* by RemoveBook and UnlinkOld, which tell, and by a restore, which LockHeld shuts out.
LEMMA ListedStep == IInv /\ [Next]_vars /\ ~crossed' => Listed'
<1> SUFFICES ASSUME IInv, [Next]_vars, ~crossed' PROVE Listed'
  OBVIOUS
<1>0. Types /\ Listed /\ KindFits /\ LockHeld /\ ~crossed
  BY CrossedStays, RunsHold DEF IInv, Alone
<1> USE DEF BackupSteps, RestoreSteps, Undoing, Undoable, Copying, Over
<1>1. ASSUME NEW b \in Books, NEW old \in Rows \cup {None}, StoreCover(b, old)
     PROVE  Listed'
  BY <1>1, <1>0 DEF StoreCover, Listed, Lists, Missed, ArchiveWhole, KindFits, KindFit, LockHeld, LockFit,
     Running, dbVars
<1>2. ASSUME NEW b \in Books, CommitRow(b) PROVE Listed'
  BY <1>2, <1>0, CommitRowEffect DEF Without, Kept, Listed, Lists, Missed, ArchiveWhole, KindFits, KindFit, LockHeld, LockFit,
     Running, dbVars
<1>3. ASSUME NEW b \in Rows, RemoveBook(b) PROVE Listed'
  <2>1. /\ files' = files \ {b} /\ archive' = archive
        /\ \A p \in Operations : Without(p, b) /\ MissedBy(p, b)
    BY <1>3, <1>0, RemoveBookEffect
  <2> QED
    BY <1>0, <2>1, LessListed
<1>4. CASE Checkpoint
  <2>1. /\ main' = Rows /\ wal' = {}
        /\ UNCHANGED <<files, add, archive, crashed, acked, risk>>
    BY <1>4, <1>0, CheckpointEffect
  <2>2. \A p \in Operations : Checked(p)
    BY <1>4, <1>0, CheckpointEffect
  <2>3. ASSUME NEW p \in Operations PROVE Lists(p)'
    BY <1>0, <2>1, <2>2, NoneIsNoOperation DEF Listed, Lists, Missed, ArchiveWhole, KindFits, KindFit,
       LockHeld, LockFit, Running, SameBackup, Cleared, Checked
  <2> QED
    BY <1>0, <2>1, <2>3 DEF Listed, ArchiveWhole, KindFits, KindFit, LockHeld, LockFit, Running
<1>5. ASSUME NEW o \in Operations, BeginBackup(o) PROVE Listed'
  <2>0. Acquire(o, "backup", "snapshot", None)
    BY <1>5 DEF BeginBackup
  <2>1. /\ op[o].pc = "new" /\ (Lock(o) \/ Refused(o))
        /\ UNCHANGED <<main, wal, files, add, archive, crashed, acked, risk>>
    BY <2>0, <1>0, AcquireEffect
  <2>2. CASE Lock(o)
    <3>1. /\ op'[o].kind = "backup" /\ op'[o].pc = "snapshot" /\ op'[o].from = None /\ Cleared(o)
          /\ \A p \in Operations \ {o} : Left(p)
      BY <2>0, <2>2, <1>0, AcquireEffect DEF Lock, Refused
    <3>2. ASSUME NEW p \in Operations PROVE Lists(p)'
      BY <1>0, <2>1, <2>2, <3>1, NoneIsNoOperation DEF Left, Emptied, Over, Listed, Lists, Missed, ArchiveWhole,
         KindFits, KindFit, LockHeld, LockFit, Running, SameBackup, Cleared
    <3> QED
      BY <1>0, <2>1, <3>2 DEF Listed, ArchiveWhole, KindFits, KindFit, LockHeld, LockFit, Running
  <2>3. CASE Refused(o)
    <3>1. Moves(o, "refused") /\ SameBackup(o) /\ SameRestore(o)
      BY <2>0, <2>3, <1>0, AcquireEffect DEF Lock, Refused
    <3>2. ASSUME NEW p \in Operations PROVE Lists(p)'
      BY <1>0, <2>1, <3>1 DEF Listed, Lists, Missed, ArchiveWhole, KindFits, KindFit, LockHeld, LockFit,
         Running, SameBackup, Cleared, Moves, Others
    <3> QED
      BY <1>0, <2>1, <3>2 DEF Listed, ArchiveWhole, KindFits, KindFit, LockHeld, LockFit, Running
  <2> QED
    BY <2>1, <2>2, <2>3
<1>6. ASSUME NEW o \in Operations, BeginRestore(o) PROVE Listed'
  <2>0. PICK from \in {archive, Foreign} \ {None} : Acquire(o, "restore", "copy_db", from)
    BY <1>6 DEF BeginRestore
  <2>1. /\ op[o].pc = "new" /\ (Lock(o) \/ Refused(o))
        /\ UNCHANGED <<main, wal, files, add, archive, crashed, acked, risk>>
    BY <2>0, <1>0, AcquireEffect
  <2>2. CASE Lock(o)
    <3>1. /\ op'[o].kind = "restore" /\ op'[o].pc = "copy_db" /\ op'[o].from = from /\ Cleared(o)
          /\ \A p \in Operations \ {o} : Left(p)
      BY <2>0, <2>2, <1>0, AcquireEffect DEF Lock, Refused
    <3>2. ASSUME NEW p \in Operations PROVE Lists(p)'
      BY <2>0, <1>0, <2>1, <2>2, <3>1, NoneIsNoOperation DEF Left, Emptied, Over, Listed, Lists, Missed, ArchiveWhole,
         KindFits, KindFit, LockHeld, LockFit, Running, SameBackup, Cleared
    <3> QED
      BY <1>0, <2>1, <3>2 DEF Listed, ArchiveWhole, KindFits, KindFit, LockHeld, LockFit, Running
  <2>3. CASE Refused(o)
    <3>1. Moves(o, "refused") /\ SameBackup(o) /\ SameRestore(o)
      BY <2>0, <2>3, <1>0, AcquireEffect DEF Lock, Refused
    <3>2. ASSUME NEW p \in Operations PROVE Lists(p)'
      BY <1>0, <2>1, <3>1 DEF Listed, Lists, Missed, ArchiveWhole, KindFits, KindFit, LockHeld, LockFit,
         Running, SameBackup, Cleared, Moves, Others
    <3> QED
      BY <1>0, <2>1, <3>2 DEF Listed, ArchiveWhole, KindFits, KindFit, LockHeld, LockFit, Running
  <2> QED
    BY <2>1, <2>2, <2>3
<1>7. ASSUME NEW o \in Operations, Snapshot(o) PROVE Listed'
  BY <1>7, <1>0, SnapshotEffect DEF At, Listed, Lists, Missed, ArchiveWhole, KindFits, KindFit, LockHeld,
     LockFit, Running, Moves, Others, SameBackup, Cleared
<1>8. ASSUME NEW o \in Operations, ListFiles(o) PROVE Listed'
  BY <1>8, <1>0, ListFilesEffect DEF At, Listed, Lists, Missed, ArchiveWhole, KindFits, KindFit, LockHeld,
     LockFit, Running, Moves, Others, SameBackup, Cleared
<1>9. ASSUME NEW o \in Operations, Pack(o) PROVE Listed'
  <2>1. End(o, "done") \/ End(o, "failed")
    BY <1>9 DEF Pack
  <2>2. (Moves(o, "done") \/ Moves(o, "failed")) /\ Cleared(o) /\ op'[o].from = None
    BY <1>0, <2>1, EndEffect
  <2> QED
    BY <1>9, <1>0, <2>2 DEF Pack, At, Listed, Lists, Missed, ArchiveWhole, KindFits, KindFit, LockHeld,
       LockFit, Running, Moves, Others, SameBackup, Cleared, dbVars
<1>10. ASSUME NEW o \in Operations, CopyDatabase(o) PROVE Listed'
  BY <1>10, <1>0, CopyDatabaseEffect DEF At, Listed, Lists, Missed, ArchiveWhole, KindFits, KindFit,
     LockHeld, LockFit, Running, Moves, Others, SameBackup, Cleared
<1>11. ASSUME NEW o \in Operations, CopyMain(o) PROVE Listed'
  BY <1>11, <1>0, CopyMainEffect DEF At, Listed, Lists, Missed, ArchiveWhole, KindFits, KindFit, LockHeld,
     LockFit, Running, Moves, Others, SameBackup, Cleared
<1>12. ASSUME NEW o \in Operations, CopyRest(o) PROVE Listed'
  BY <1>12, <1>0, CopyRestEffect DEF At, Listed, Lists, Missed, ArchiveWhole, KindFits, KindFit, LockHeld,
     LockFit, Running, Moves, Others, SameBackup, Cleared
<1>13. ASSUME NEW o \in Operations, Wipe(o) PROVE Listed'
  BY <1>13, <1>0, GoEffect DEF Wipe, Step, At, Listed, Lists, Missed, ArchiveWhole, KindFits, KindFit,
     LockHeld, LockFit, Running, Moves, Others, SameBackup, Cleared, dbVars
<1>14. ASSUME NEW o \in Operations, Extract(o) PROVE Listed'
  BY <1>14, <1>0, GoEffect DEF Extract, Step, At, Listed, Lists, Missed, ArchiveWhole, KindFits, KindFit,
     LockHeld, LockFit, Running, Moves, Others, SameBackup, Cleared, dbVars
<1>15. ASSUME NEW o \in Operations, Dispose(o) PROVE Listed'
  BY <1>15, <1>0, GoEffect DEF Dispose, Step, At, Listed, Lists, Missed, ArchiveWhole, KindFits, KindFit,
     LockHeld, LockFit, Running, Moves, Others, SameBackup, Cleared, dbVars
<1>16. ASSUME NEW o \in Operations, Move(o) PROVE Listed'
  BY <1>16, <1>0, GoEffect DEF Move, Step, At, Listed, Lists, Missed, ArchiveWhole, KindFits, KindFit,
     LockHeld, LockFit, Running, Moves, Others, SameBackup, Cleared, dbVars
<1>17. ASSUME NEW o \in Operations, DropLog(o) PROVE Listed'
  BY <1>17, <1>0, GoEffect DEF DropLog, Step, At, Listed, Lists, Missed, ArchiveWhole, KindFits, KindFit,
     LockHeld, LockFit, Running, Moves, Others, SameBackup, Cleared, dbVars
<1>18. ASSUME NEW o \in Operations, NewEngine(o) PROVE Listed'
  <2>1. End(o, "done")
    BY <1>18 DEF NewEngine
  <2>2. Moves(o, "done") /\ Cleared(o) /\ op'[o].from = None
    BY <1>0, <2>1, EndEffect
  <2> QED
    BY <1>18, <1>0, <2>2 DEF NewEngine, At, Listed, Lists, Missed, ArchiveWhole, KindFits, KindFit,
       LockHeld, LockFit, Running, Moves, Others, SameBackup, Cleared, dbVars
<1>19. ASSUME NEW o \in Operations, FailRestore(o) PROVE Listed'
  BY <1>19, <1>0, GoEffect DEF FailRestore, At, Listed, Lists, Missed, ArchiveWhole, KindFits, KindFit,
     LockHeld, LockFit, Running, Moves, Others, SameBackup, Cleared, dbVars
<1>20. ASSUME NEW o \in Operations, FailCopy(o) PROVE Listed'
  <2>1. End(o, "failed")
    BY <1>20 DEF FailCopy
  <2>2. Moves(o, "failed") /\ Cleared(o) /\ op'[o].from = None
    BY <1>0, <2>1, EndEffect
  <2> QED
    BY <1>20, <1>0, <2>2 DEF FailCopy, At, Listed, Lists, Missed, ArchiveWhole, KindFits, KindFit,
       LockHeld, LockFit, Running, Moves, Others, SameBackup, Cleared, dbVars
<1>21. ASSUME NEW o \in Operations, UndoDatabase(o) PROVE Listed'
  BY <1>21, <1>0, GoEffect DEF UndoDatabase, Step, At, Listed, Lists, Missed, ArchiveWhole, KindFits,
     KindFit, LockHeld, LockFit, Running, Moves, Others, SameBackup, Cleared, dbVars
<1>22. ASSUME NEW o \in Operations, UndoRest(o) PROVE Listed'
  BY <1>22, <1>0, GoEffect DEF UndoRest, Step, At, Listed, Lists, Missed, ArchiveWhole, KindFits, KindFit,
     LockHeld, LockFit, Running, Moves, Others, SameBackup, Cleared, dbVars
<1>23. ASSUME NEW o \in Operations, UndoClean(o) PROVE Listed'
  <2>1. End(o, "failed")
    BY <1>23 DEF UndoClean
  <2>2. Moves(o, "failed") /\ Cleared(o) /\ op'[o].from = None
    BY <1>0, <2>1, EndEffect
  <2> QED
    BY <1>23, <1>0, <2>2 DEF UndoClean, At, Listed, Lists, Missed, ArchiveWhole, KindFits, KindFit,
       LockHeld, LockFit, Running, Moves, Others, SameBackup, Cleared, dbVars
<1>24. ASSUME NEW o \in Operations, FailUndo(o) PROVE Listed'
  BY <1>24, <1>0, GoEffect DEF FailUndo, At, Listed, Lists, Missed, ArchiveWhole, KindFits, KindFit,
     LockHeld, LockFit, Running, Moves, Others, SameBackup, Cleared, dbVars
<1>25. CASE Crash
  <2>1. /\ UNCHANGED <<main, wal, files, archive, acked>>
        /\ add' = [b \in Books |-> IF Pending(b)
                                 THEN [pc |-> "killed", stale |-> FALSE, old |-> None] ELSE add[b]]
    BY <1>25, <1>0, CrashEffect
  <2>2. \A p \in Operations : Cut(p)
    BY <1>25, <1>0, CrashEffect
  <2>3. ASSUME NEW p \in Operations PROVE Lists(p)'
    BY <1>0, <2>1, <2>2, NoneIsNoOperation DEF Listed, Lists, Missed, ArchiveWhole, KindFits, KindFit,
       LockHeld, LockFit, Running, SameBackup, Cleared, Cut
  <2> QED
    BY <1>0, <2>1, <2>3 DEF Listed, ArchiveWhole, KindFits, KindFit, LockHeld, LockFit, Running
<1>26. CASE UNCHANGED vars
  BY <1>26, <1>0 DEF vars, dbVars, Listed, Lists, Missed, ArchiveWhole, KindFits, KindFit, LockHeld,
     LockFit, Running
<1>27. ASSUME NEW b \in Books, UnlinkOld(b) PROVE Listed'
  <2>1. /\ files' = files \ {add[b].old} /\ archive' = archive
        /\ \A p \in Operations : Without(p, add[b].old) /\ MissedBy(p, add[b].old)
    BY <1>27, <1>0, UnlinkOldEffect
  <2> QED
    BY <1>0, <2>1, LessListed
<1>28. ASSUME NEW b \in Books, MissRow(b) PROVE Listed'
  BY <1>28, <1>0 DEF MissRow, Listed, Lists, Missed, Missed, ArchiveWhole, dbVars
<1>29. ASSUME NEW o \in Operations, FailBackup(o) PROVE Listed'
  <2>1. End(o, "failed")
    BY <1>29 DEF FailBackup
  <2>2. Moves(o, "failed") /\ Cleared(o) /\ op'[o].from = None
    BY <1>0, <2>1, EndEffect
  <2> QED
    BY <1>29, <1>0, <2>2 DEF FailBackup, At, Listed, Lists, Missed, ArchiveWhole, KindFits, KindFit,
       LockHeld, LockFit, Running, Moves, Others, SameBackup, Cleared, dbVars
<1>30. ASSUME NEW o \in Operations, Handle(o) PROVE Listed'
  BY <1>30, <1>0 DEF Handle, dbVars, Listed, Lists, Missed, ArchiveWhole, KindFits, KindFit, LockHeld,
     LockFit, Running
<1> QED
  BY <1>1, <1>2, <1>3, <1>4, <1>5, <1>6, <1>7, <1>8, <1>9, <1>10, <1>11, <1>12, <1>13, <1>14,
     <1>15, <1>16, <1>17, <1>18, <1>19, <1>20, <1>21, <1>22, <1>23, <1>24, <1>25, <1>26, <1>27,
     <1>28, <1>29, <1>30 DEF Next, Proceed

\* Rows come from answered requests or from elsewhere.
LEMMA RowsStep == IInv /\ [Next]_vars => RowsAreWritten'
<1> SUFFICES ASSUME IInv, [Next]_vars PROVE RowsAreWritten'
  OBVIOUS
<1>0. Types /\ RowsAreWritten /\ KindFits
  BY DEF IInv
<1> USE DEF BackupSteps, RestoreSteps, Undoing, Undoable, Copying, Over
<1>1. ASSUME NEW b \in Books, NEW old \in Rows \cup {None}, StoreCover(b, old)
     PROVE  RowsAreWritten'
  BY <1>1, <1>0 DEF StoreCover, RowsAreWritten, WrittenFor, Written, Rows, Types, AddRows,
     KindFits, KindFit, dbVars
<1>2. ASSUME NEW b \in Books, CommitRow(b) PROVE RowsAreWritten'
  <2>1. /\ add' = [add EXCEPT ![b] = [pc |-> "answered", stale |-> FALSE, old |-> None]]
        /\ main' \cup wal' \subseteq main \cup wal \cup {b} /\ archive' = archive
        /\ acked' \subseteq acked \cup {b}
        /\ op' = op \/ \A p \in Operations : Without(p, add[b].old) /\ Kept(p)
    BY <1>2, <1>0, CommitRowEffect
  <2>2. Written' = Written \cup {b} /\ \A c \in Books : add'[c].old \in {add[c].old, None}
    BY <1>0, <2>1 DEF Types, AddRows, Written
  <2>3. ASSUME NEW p \in Operations PROVE WrittenFor(p)'
    BY <1>0, <2>1, <2>2 DEF RowsAreWritten, WrittenFor, Without
  <2> QED
    BY <1>0, <2>1, <2>2, <2>3 DEF RowsAreWritten
<1>3. ASSUME NEW b \in Rows, RemoveBook(b) PROVE RowsAreWritten'
  <2>1. /\ main' = main \ {b} /\ wal' = wal \ {b} /\ files' = files \ {b} /\ acked' = acked \ {b}
        /\ UNCHANGED <<add, archive, crashed, risk>>
    BY <1>3, <1>0, RemoveBookEffect
  <2>2. \A p \in Operations : Without(p, b)
    BY <1>3, <1>0, RemoveBookEffect
  <2>3. ASSUME NEW p \in Operations PROVE WrittenFor(p)'
    BY <1>0, <2>1, <2>2, NoneIsNoOperation DEF RowsAreWritten, WrittenFor, Written, Rows, Types,
       AddRows, KindFits, KindFit, SameBackup, SameRestore, Cleared, Without
  <2> QED
    BY <1>0, <2>1, <2>3 DEF RowsAreWritten, Written, Rows, Types, AddRows, KindFits, KindFit
<1>4. CASE Checkpoint
  <2>1. /\ main' = Rows /\ wal' = {} /\ UNCHANGED <<add, archive, acked>>
        /\ \A p \in Operations : Checked(p)
    BY <1>4, <1>0, CheckpointEffect
  <2>2. Written' = Written
    BY <2>1 DEF Written
  <2>3. ASSUME NEW p \in Operations PROVE WrittenFor(p)'
    BY <1>0, <2>1, <2>2 DEF RowsAreWritten, WrittenFor, Checked, SameBackup
  <2> QED
    BY <1>0, <2>1, <2>2, <2>3 DEF RowsAreWritten, Rows
<1>5. ASSUME NEW o \in Operations, BeginBackup(o) PROVE RowsAreWritten'
  <2>0. Acquire(o, "backup", "snapshot", None)
    BY <1>5 DEF BeginBackup
  <2>1. /\ op[o].pc = "new" /\ (Lock(o) \/ Refused(o))
        /\ UNCHANGED <<main, wal, files, add, archive, crashed, acked, risk>>
    BY <2>0, <1>0, AcquireEffect
  <2>2. CASE Lock(o)
    <3>1. /\ op'[o].kind = "backup" /\ op'[o].pc = "snapshot" /\ op'[o].from = None /\ Cleared(o)
          /\ \A p \in Operations \ {o} : Left(p)
      BY <2>0, <2>2, <1>0, AcquireEffect DEF Lock, Refused
    <3>2. ASSUME NEW p \in Operations PROVE WrittenFor(p)'
      BY <1>0, <2>1, <2>2, <3>1, NoneIsNoOperation DEF Left, Emptied, Over, RowsAreWritten, WrittenFor,
         Written, Rows, Types, AddRows, KindFits, KindFit, SameBackup, SameRestore, Cleared
    <3> QED
      BY <1>0, <2>1, <3>2 DEF RowsAreWritten, Written, Rows, Types, AddRows, KindFits, KindFit
  <2>3. CASE Refused(o)
    <3>1. Moves(o, "refused") /\ SameBackup(o) /\ SameRestore(o)
      BY <2>0, <2>3, <1>0, AcquireEffect DEF Lock, Refused
    <3>2. ASSUME NEW p \in Operations PROVE WrittenFor(p)'
      BY <1>0, <2>1, <3>1 DEF RowsAreWritten, WrittenFor, Written, Rows, Types, AddRows, KindFits,
         KindFit, SameBackup, SameRestore, Cleared, Moves, Others
    <3> QED
      BY <1>0, <2>1, <3>2 DEF RowsAreWritten, Written, Rows, Types, AddRows, KindFits, KindFit
  <2> QED
    BY <2>1, <2>2, <2>3
<1>6. ASSUME NEW o \in Operations, BeginRestore(o) PROVE RowsAreWritten'
  <2>0. PICK from \in {archive, Foreign} \ {None} : Acquire(o, "restore", "copy_db", from)
    BY <1>6 DEF BeginRestore
  <2>1. /\ op[o].pc = "new" /\ (Lock(o) \/ Refused(o))
        /\ UNCHANGED <<main, wal, files, add, archive, crashed, acked, risk>>
    BY <2>0, <1>0, AcquireEffect
  <2>2. CASE Lock(o)
    <3>1. /\ op'[o].kind = "restore" /\ op'[o].pc = "copy_db" /\ op'[o].from = from /\ Cleared(o)
          /\ \A p \in Operations \ {o} : Left(p)
      BY <2>0, <2>2, <1>0, AcquireEffect DEF Lock, Refused
    <3>2. ASSUME NEW p \in Operations PROVE WrittenFor(p)'
      BY <2>0, <1>0, <2>1, <2>2, <3>1, NoneIsNoOperation DEF Left, Emptied, Over, RowsAreWritten, WrittenFor,
         Written, Rows, Types, AddRows, KindFits, KindFit, SameBackup, SameRestore, Cleared
    <3> QED
      BY <1>0, <2>1, <3>2 DEF RowsAreWritten, Written, Rows, Types, AddRows, KindFits, KindFit
  <2>3. CASE Refused(o)
    <3>1. Moves(o, "refused") /\ SameBackup(o) /\ SameRestore(o)
      BY <2>0, <2>3, <1>0, AcquireEffect DEF Lock, Refused
    <3>2. ASSUME NEW p \in Operations PROVE WrittenFor(p)'
      BY <1>0, <2>1, <3>1 DEF RowsAreWritten, WrittenFor, Written, Rows, Types, AddRows, KindFits,
         KindFit, SameBackup, SameRestore, Cleared, Moves, Others
    <3> QED
      BY <1>0, <2>1, <3>2 DEF RowsAreWritten, Written, Rows, Types, AddRows, KindFits, KindFit
  <2> QED
    BY <2>1, <2>2, <2>3
<1>7. ASSUME NEW o \in Operations, Snapshot(o) PROVE RowsAreWritten'
  BY <1>7, <1>0, SnapshotEffect DEF At, RowsAreWritten, WrittenFor, Written, Rows, Types, AddRows,
     KindFits, KindFit, Moves, Others, SameBackup, SameRestore, Cleared
<1>8. ASSUME NEW o \in Operations, ListFiles(o) PROVE RowsAreWritten'
  BY <1>8, <1>0, ListFilesEffect DEF At, RowsAreWritten, WrittenFor, Written, Rows, Types,
     AddRows, KindFits, KindFit, Moves, Others, SameBackup, SameRestore, Cleared
<1>9. ASSUME NEW o \in Operations, Pack(o) PROVE RowsAreWritten'
  <2>1. End(o, "done") \/ End(o, "failed")
    BY <1>9 DEF Pack
  <2>2. (Moves(o, "done") \/ Moves(o, "failed")) /\ Cleared(o) /\ op'[o].from = None
    BY <1>0, <2>1, EndEffect
  <2> QED
    BY <1>9, <1>0, <2>2 DEF Pack, At, RowsAreWritten, WrittenFor, Written, Rows, Types, AddRows,
       KindFits, KindFit, Moves, Others, SameBackup, SameRestore, Cleared, dbVars
<1>10. ASSUME NEW o \in Operations, CopyDatabase(o) PROVE RowsAreWritten'
  BY <1>10, <1>0, CopyDatabaseEffect DEF At, RowsAreWritten, WrittenFor, Written, Rows, Types,
     AddRows, KindFits, KindFit, Moves, Others, SameBackup, SameRestore, Cleared
<1>11. ASSUME NEW o \in Operations, CopyMain(o) PROVE RowsAreWritten'
  BY <1>11, <1>0, CopyMainEffect DEF At, RowsAreWritten, WrittenFor, Written, Rows, Types,
     AddRows, KindFits, KindFit, Moves, Others, SameBackup, SameRestore, Cleared
<1>12. ASSUME NEW o \in Operations, CopyRest(o) PROVE RowsAreWritten'
  BY <1>12, <1>0, CopyRestEffect DEF At, RowsAreWritten, WrittenFor, Written, Rows, Types,
     AddRows, KindFits, KindFit, Moves, Others, SameBackup, SameRestore, Cleared
<1>13. ASSUME NEW o \in Operations, Wipe(o) PROVE RowsAreWritten'
  BY <1>13, <1>0, GoEffect DEF Wipe, Step, At, RowsAreWritten, WrittenFor, Written, Rows, Types,
     AddRows, KindFits, KindFit, Moves, Others, SameBackup, SameRestore, Cleared, dbVars
<1>14. ASSUME NEW o \in Operations, Extract(o) PROVE RowsAreWritten'
  BY <1>14, <1>0, GoEffect DEF Extract, Step, At, RowsAreWritten, WrittenFor, Written, Rows,
     Types, AddRows, KindFits, KindFit, Moves, Others, SameBackup, SameRestore, Cleared, dbVars
<1>15. ASSUME NEW o \in Operations, Dispose(o) PROVE RowsAreWritten'
  BY <1>15, <1>0, GoEffect DEF Dispose, Step, At, RowsAreWritten, WrittenFor, Written, Rows,
     Types, AddRows, KindFits, KindFit, Moves, Others, SameBackup, SameRestore, Cleared, dbVars
<1>16. ASSUME NEW o \in Operations, Move(o) PROVE RowsAreWritten'
  BY <1>16, <1>0, GoEffect DEF Move, Step, At, Replaced, RowsAreWritten, WrittenFor, Written,
     Rows, Types, AddRows, KindFits, KindFit, Moves, Others, SameBackup, SameRestore, Cleared,
     dbVars
<1>17. ASSUME NEW o \in Operations, DropLog(o) PROVE RowsAreWritten'
  BY <1>17, <1>0, GoEffect DEF DropLog, Step, At, Replaced, RowsAreWritten, WrittenFor, Written,
     Rows, Types, AddRows, KindFits, KindFit, Moves, Others, SameBackup, SameRestore, Cleared,
     dbVars
<1>18. ASSUME NEW o \in Operations, NewEngine(o) PROVE RowsAreWritten'
  <2>1. End(o, "done")
    BY <1>18 DEF NewEngine
  <2>2. Moves(o, "done") /\ Cleared(o) /\ op'[o].from = None
    BY <1>0, <2>1, EndEffect
  <2> QED
    BY <1>18, <1>0, <2>2 DEF NewEngine, At, RowsAreWritten, WrittenFor, Written, Rows, Types,
       AddRows, KindFits, KindFit, Moves, Others, SameBackup, SameRestore, Cleared, dbVars
<1>19. ASSUME NEW o \in Operations, FailRestore(o) PROVE RowsAreWritten'
  BY <1>19, <1>0, GoEffect DEF FailRestore, At, RowsAreWritten, WrittenFor, Written, Rows, Types,
     AddRows, KindFits, KindFit, Moves, Others, SameBackup, SameRestore, Cleared, dbVars
<1>20. ASSUME NEW o \in Operations, FailCopy(o) PROVE RowsAreWritten'
  <2>1. End(o, "failed")
    BY <1>20 DEF FailCopy
  <2>2. Moves(o, "failed") /\ Cleared(o) /\ op'[o].from = None
    BY <1>0, <2>1, EndEffect
  <2> QED
    BY <1>20, <1>0, <2>2 DEF FailCopy, At, RowsAreWritten, WrittenFor, Written, Rows, Types,
       AddRows, KindFits, KindFit, Moves, Others, SameBackup, SameRestore, Cleared, dbVars
<1>21. ASSUME NEW o \in Operations, UndoDatabase(o) PROVE RowsAreWritten'
  BY <1>21, <1>0, GoEffect DEF UndoDatabase, Step, At, Replaced, RowsAreWritten, WrittenFor,
     Written, Rows, Types, AddRows, KindFits, KindFit, Moves, Others, SameBackup, SameRestore,
     Cleared, dbVars
<1>22. ASSUME NEW o \in Operations, UndoRest(o) PROVE RowsAreWritten'
  BY <1>22, <1>0, GoEffect DEF UndoRest, Step, At, Replaced, RowsAreWritten, WrittenFor, Written,
     Rows, Types, AddRows, KindFits, KindFit, Moves, Others, SameBackup, SameRestore, Cleared,
     dbVars
<1>23. ASSUME NEW o \in Operations, UndoClean(o) PROVE RowsAreWritten'
  <2>1. End(o, "failed")
    BY <1>23 DEF UndoClean
  <2>2. Moves(o, "failed") /\ Cleared(o) /\ op'[o].from = None
    BY <1>0, <2>1, EndEffect
  <2> QED
    BY <1>23, <1>0, <2>2 DEF UndoClean, At, RowsAreWritten, WrittenFor, Written, Rows, Types,
       AddRows, KindFits, KindFit, Moves, Others, SameBackup, SameRestore, Cleared, dbVars
<1>24. ASSUME NEW o \in Operations, FailUndo(o) PROVE RowsAreWritten'
  BY <1>24, <1>0, GoEffect DEF FailUndo, At, RowsAreWritten, WrittenFor, Written, Rows, Types,
     AddRows, KindFits, KindFit, Moves, Others, SameBackup, SameRestore, Cleared, dbVars
<1>25. CASE Crash
  <2>1. /\ UNCHANGED <<main, wal, files, archive, acked>>
        /\ add' = [b \in Books |-> IF Pending(b)
                                 THEN [pc |-> "killed", stale |-> FALSE, old |-> None] ELSE add[b]]
    BY <1>25, <1>0, CrashEffect
  <2>2. \A p \in Operations : Cut(p)
    BY <1>25, <1>0, CrashEffect
  <2>4. Written \subseteq Written' /\ \A b \in Books : add'[b].old \in {add[b].old, None}
    BY <2>1 DEF Written, Pending
  <2>3. ASSUME NEW p \in Operations PROVE WrittenFor(p)'
    BY <1>0, <2>2, <2>4 DEF RowsAreWritten, WrittenFor, SameBackup, SameRestore, Cleared, Cut
  <2> QED
    BY <1>0, <2>1, <2>3, <2>4 DEF RowsAreWritten
<1>26. CASE UNCHANGED vars
  BY <1>26, <1>0 DEF vars, dbVars, RowsAreWritten, WrittenFor, Written, Rows, Types, AddRows,
     KindFits, KindFit
<1>27. ASSUME NEW b \in Books, UnlinkOld(b) PROVE RowsAreWritten'
  <2>1. /\ add' = [add EXCEPT ![b].pc = "unlinked"] /\ add[b].pc = "stored"
        /\ UNCHANGED <<main, wal, archive>> /\ acked' = acked \ {add[b].old}
        /\ \A p \in Operations : Without(p, add[b].old)
    BY <1>27, <1>0, UnlinkOldEffect
  <2>2. Written' = Written /\ \A c \in Books : add'[c].old = add[c].old
    BY <1>0, <2>1 DEF Types, AddRows, Written
  <2>3. ASSUME NEW p \in Operations PROVE WrittenFor(p)'
    BY <1>0, <2>1, <2>2 DEF RowsAreWritten, WrittenFor, Without
  <2> QED
    BY <1>0, <2>1, <2>2, <2>3 DEF RowsAreWritten
<1>28. ASSUME NEW b \in Books, MissRow(b) PROVE RowsAreWritten'
  <2>1. /\ add' = [add EXCEPT ![b] = [pc |-> "refused", stale |-> FALSE, old |-> None]]
        /\ add[b].pc = "unlinked" /\ UNCHANGED <<main, wal, op, archive, acked>>
    BY <1>28 DEF MissRow, dbVars
  <2>2. Written' = Written /\ \A c \in Books : add'[c].old \in {add[c].old, None}
    BY <1>0, <2>1 DEF Types, AddRows, Written
  <2> QED
    BY <1>0, <2>1, <2>2 DEF RowsAreWritten, WrittenFor
<1>29. ASSUME NEW o \in Operations, FailBackup(o) PROVE RowsAreWritten'
  <2>1. End(o, "failed")
    BY <1>29 DEF FailBackup
  <2>2. Moves(o, "failed") /\ Cleared(o) /\ op'[o].from = None
    BY <1>0, <2>1, EndEffect
  <2> QED
    BY <1>29, <1>0, <2>2 DEF FailBackup, At, RowsAreWritten, WrittenFor, Written, Rows, Types,
       AddRows, KindFits, KindFit, Moves, Others, SameBackup, SameRestore, Cleared, dbVars
<1>30. ASSUME NEW o \in Operations, Handle(o) PROVE RowsAreWritten'
  BY <1>30, <1>0 DEF Handle, dbVars, RowsAreWritten, WrittenFor, Written, Rows, Types, AddRows,
     KindFits, KindFit
<1> QED
  BY <1>1, <1>2, <1>3, <1>4, <1>5, <1>6, <1>7, <1>8, <1>9, <1>10, <1>11, <1>12, <1>13, <1>14,
     <1>15, <1>16, <1>17, <1>18, <1>19, <1>20, <1>21, <1>22, <1>23, <1>24, <1>25, <1>26, <1>27,
     <1>28, <1>29, <1>30 DEF Next, Proceed

\* The safety copy is complete when the data are touched, and is not touched after.
LEMMA CopyStep == IInv /\ [Next]_vars /\ ~crossed' => CopyFits'
<1> SUFFICES ASSUME IInv, [Next]_vars, ~crossed' PROVE CopyFits'
  OBVIOUS
<1>0. Types /\ KindFits /\ LockHeld /\ CopyFits
  BY CrossedStays, RunsHold DEF IInv, Alone
<1> USE DEF Steps, BackupSteps, RestoreSteps, Undoing, Undoable, Copying, Over
<1>1. ASSUME NEW b \in Books, NEW old \in Rows \cup {None}, StoreCover(b, old)
     PROVE  CopyFits'
  BY <1>1, <1>0 DEF StoreCover, KindFits, KindFit, LockHeld, LockFit, Running, CopyFits, CopyFit,
     InCopy, InPlace, Rows, dbVars
<1>2. ASSUME NEW b \in Books, CommitRow(b) PROVE CopyFits'
  BY <1>2, <1>0, CommitRowEffect DEF Without, Kept, CopyFits, CopyFit, InCopy, InPlace, Rows
<1>3. ASSUME NEW b \in Rows, RemoveBook(b) PROVE CopyFits'
  <2>1. /\ main' = main \ {b} /\ wal' = wal \ {b} /\ files' = files \ {b} /\ acked' = acked \ {b}
        /\ UNCHANGED <<add, archive, crashed, risk>>
    BY <1>3, <1>0, RemoveBookEffect
  <2>2. \A p \in Operations : Without(p, b)
    BY <1>3, <1>0, RemoveBookEffect
  <2>3. ASSUME NEW p \in Operations PROVE CopyFit(p)'
    BY <1>0, <2>1, <2>2, NoneIsNoOperation DEF KindFits, KindFit, LockHeld, LockFit, Running,
       CopyFits, CopyFit, InCopy, InPlace, Rows, SameRestore, Cleared, Without
  <2> QED
    BY <1>0, <2>1, <2>3 DEF KindFits, KindFit, LockHeld, LockFit, Running, CopyFits, InCopy,
       InPlace, Rows
<1>4. CASE Checkpoint
  <2>1. /\ main' = Rows /\ wal' = {}
        /\ UNCHANGED <<files, add, archive, crashed, acked, risk>>
    BY <1>4, <1>0, CheckpointEffect
  <2>2. \A p \in Operations : Checked(p)
    BY <1>4, <1>0, CheckpointEffect
  <2>3. ASSUME NEW p \in Operations PROVE CopyFit(p)'
    BY <1>0, <2>1, <2>2, NoneIsNoOperation DEF KindFits, KindFit, LockHeld, LockFit, Running,
       CopyFits, CopyFit, InCopy, InPlace, Rows, SameRestore, Cleared, Checked
  <2> QED
    BY <1>0, <2>1, <2>3 DEF KindFits, KindFit, LockHeld, LockFit, Running, CopyFits, InCopy,
       InPlace, Rows
<1>5. ASSUME NEW o \in Operations, BeginBackup(o) PROVE CopyFits'
  <2>0. Acquire(o, "backup", "snapshot", None)
    BY <1>5 DEF BeginBackup
  <2>1. /\ op[o].pc = "new" /\ (Lock(o) \/ Refused(o))
        /\ UNCHANGED <<main, wal, files, add, archive, crashed, acked, risk>>
    BY <2>0, <1>0, AcquireEffect
  <2>2. CASE Lock(o)
    <3>1. /\ op'[o].kind = "backup" /\ op'[o].pc = "snapshot" /\ op'[o].from = None /\ Cleared(o)
          /\ \A p \in Operations \ {o} : Left(p)
      BY <2>0, <2>2, <1>0, AcquireEffect DEF Lock, Refused
    <3>2. ASSUME NEW p \in Operations PROVE CopyFit(p)'
      BY <1>0, <2>1, <2>2, <3>1, NoneIsNoOperation DEF Left, Emptied, Over, KindFits, KindFit, LockHeld,
         LockFit, Running, CopyFits, CopyFit, InCopy, InPlace, Rows, SameRestore, Cleared
    <3> QED
      BY <1>0, <2>1, <3>2 DEF KindFits, KindFit, LockHeld, LockFit, Running, CopyFits, InCopy,
         InPlace, Rows
  <2>3. CASE Refused(o)
    <3>1. Moves(o, "refused") /\ SameBackup(o) /\ SameRestore(o)
      BY <2>0, <2>3, <1>0, AcquireEffect DEF Lock, Refused
    <3>2. ASSUME NEW p \in Operations PROVE CopyFit(p)'
      BY <1>0, <2>1, <3>1 DEF KindFits, KindFit, LockHeld, LockFit, Running, CopyFits, CopyFit,
         InCopy, InPlace, Rows, SameRestore, Cleared, Moves, Others
    <3> QED
      BY <1>0, <2>1, <3>2 DEF KindFits, KindFit, LockHeld, LockFit, Running, CopyFits, InCopy,
         InPlace, Rows
  <2> QED
    BY <2>1, <2>2, <2>3
<1>6. ASSUME NEW o \in Operations, BeginRestore(o) PROVE CopyFits'
  <2>0. PICK from \in {archive, Foreign} \ {None} : Acquire(o, "restore", "copy_db", from)
    BY <1>6 DEF BeginRestore
  <2>1. /\ op[o].pc = "new" /\ (Lock(o) \/ Refused(o))
        /\ UNCHANGED <<main, wal, files, add, archive, crashed, acked, risk>>
    BY <2>0, <1>0, AcquireEffect
  <2>2. CASE Lock(o)
    <3>1. /\ op'[o].kind = "restore" /\ op'[o].pc = "copy_db" /\ op'[o].from = from /\ Cleared(o)
          /\ \A p \in Operations \ {o} : Left(p)
      BY <2>0, <2>2, <1>0, AcquireEffect DEF Lock, Refused
    <3>2. ASSUME NEW p \in Operations PROVE CopyFit(p)'
      BY <2>0, <1>0, <2>1, <2>2, <3>1, NoneIsNoOperation DEF Left, Emptied, Over, KindFits, KindFit, LockHeld,
         LockFit, Running, CopyFits, CopyFit, InCopy, InPlace, Rows, SameRestore, Cleared
    <3> QED
      BY <1>0, <2>1, <3>2 DEF KindFits, KindFit, LockHeld, LockFit, Running, CopyFits, InCopy,
         InPlace, Rows
  <2>3. CASE Refused(o)
    <3>1. Moves(o, "refused") /\ SameBackup(o) /\ SameRestore(o)
      BY <2>0, <2>3, <1>0, AcquireEffect DEF Lock, Refused
    <3>2. ASSUME NEW p \in Operations PROVE CopyFit(p)'
      BY <1>0, <2>1, <3>1 DEF KindFits, KindFit, LockHeld, LockFit, Running, CopyFits, CopyFit,
         InCopy, InPlace, Rows, SameRestore, Cleared, Moves, Others
    <3> QED
      BY <1>0, <2>1, <3>2 DEF KindFits, KindFit, LockHeld, LockFit, Running, CopyFits, InCopy,
         InPlace, Rows
  <2> QED
    BY <2>1, <2>2, <2>3
<1>7. ASSUME NEW o \in Operations, Snapshot(o) PROVE CopyFits'
  BY <1>7, <1>0, SnapshotEffect DEF At, KindFits, KindFit, LockHeld, LockFit, Running, CopyFits,
     CopyFit, InCopy, InPlace, Rows, Moves, Others, SameRestore, Cleared
<1>8. ASSUME NEW o \in Operations, ListFiles(o) PROVE CopyFits'
  BY <1>8, <1>0, ListFilesEffect DEF At, KindFits, KindFit, LockHeld, LockFit, Running, CopyFits,
     CopyFit, InCopy, InPlace, Rows, Moves, Others, SameRestore, Cleared
<1>9. ASSUME NEW o \in Operations, Pack(o) PROVE CopyFits'
  <2>1. End(o, "done") \/ End(o, "failed")
    BY <1>9 DEF Pack
  <2>2. (Moves(o, "done") \/ Moves(o, "failed")) /\ Cleared(o) /\ op'[o].from = None
    BY <1>0, <2>1, EndEffect
  <2> QED
    BY <1>9, <1>0, <2>2 DEF Pack, At, KindFits, KindFit, LockHeld, LockFit, Running, CopyFits,
       CopyFit, InCopy, InPlace, Rows, Moves, Others, SameRestore, Cleared, dbVars
<1>10. ASSUME NEW o \in Operations, CopyDatabase(o) PROVE CopyFits'
  BY <1>10, <1>0, CopyDatabaseEffect DEF At, KindFits, KindFit, LockHeld, LockFit, Running,
     CopyFits, CopyFit, InCopy, InPlace, Rows, Moves, Others, SameRestore, Cleared
<1>11. ASSUME NEW o \in Operations, CopyMain(o) PROVE CopyFits'
  BY <1>11, <1>0, CopyMainEffect DEF At, KindFits, KindFit, LockHeld, LockFit, Running, CopyFits,
     CopyFit, InCopy, InPlace, Rows, Moves, Others, SameRestore, Cleared
<1>12. ASSUME NEW o \in Operations, CopyRest(o) PROVE CopyFits'
  BY <1>12, <1>0, CopyRestEffect DEF At, KindFits, KindFit, LockHeld, LockFit, Running, CopyFits,
     CopyFit, InCopy, InPlace, Rows, Moves, Others, SameRestore, Cleared
<1>13. ASSUME NEW o \in Operations, Wipe(o) PROVE CopyFits'
  BY <1>13, <1>0, GoEffect DEF Wipe, Step, At, KindFits, KindFit, LockHeld, LockFit, Running,
     CopyFits, CopyFit, InCopy, InPlace, Rows, Moves, Others, SameRestore, Cleared, dbVars
<1>14. ASSUME NEW o \in Operations, Extract(o) PROVE CopyFits'
  BY <1>14, <1>0, GoEffect DEF Extract, Step, At, KindFits, KindFit, LockHeld, LockFit, Running,
     CopyFits, CopyFit, InCopy, InPlace, Rows, Moves, Others, SameRestore, Cleared, dbVars
<1>15. ASSUME NEW o \in Operations, Dispose(o) PROVE CopyFits'
  BY <1>15, <1>0, GoEffect DEF Dispose, Step, At, KindFits, KindFit, LockHeld, LockFit, Running,
     CopyFits, CopyFit, InCopy, InPlace, Rows, Moves, Others, SameRestore, Cleared, dbVars
<1>16. ASSUME NEW o \in Operations, Move(o) PROVE CopyFits'
  BY <1>16, <1>0, GoEffect DEF Move, Step, At, KindFits, KindFit, LockHeld, LockFit, Running,
     CopyFits, CopyFit, InCopy, InPlace, Rows, Moves, Others, SameRestore, Cleared, dbVars
<1>17. ASSUME NEW o \in Operations, DropLog(o) PROVE CopyFits'
  BY <1>17, <1>0, GoEffect DEF DropLog, Step, At, KindFits, KindFit, LockHeld, LockFit, Running,
     CopyFits, CopyFit, InCopy, InPlace, Rows, Moves, Others, SameRestore, Cleared, dbVars
<1>18. ASSUME NEW o \in Operations, NewEngine(o) PROVE CopyFits'
  <2>1. End(o, "done")
    BY <1>18 DEF NewEngine
  <2>2. Moves(o, "done") /\ Cleared(o) /\ op'[o].from = None
    BY <1>0, <2>1, EndEffect
  <2> QED
    BY <1>18, <1>0, <2>2 DEF NewEngine, At, KindFits, KindFit, LockHeld, LockFit, Running,
       CopyFits, CopyFit, InCopy, InPlace, Rows, Moves, Others, SameRestore, Cleared, dbVars
<1>19. ASSUME NEW o \in Operations, FailRestore(o) PROVE CopyFits'
  BY <1>19, <1>0, GoEffect DEF FailRestore, At, KindFits, KindFit, LockHeld, LockFit, Running,
     CopyFits, CopyFit, InCopy, InPlace, Rows, Moves, Others, SameRestore, Cleared, dbVars
<1>20. ASSUME NEW o \in Operations, FailCopy(o) PROVE CopyFits'
  <2>1. End(o, "failed")
    BY <1>20 DEF FailCopy
  <2>2. Moves(o, "failed") /\ Cleared(o) /\ op'[o].from = None
    BY <1>0, <2>1, EndEffect
  <2> QED
    BY <1>20, <1>0, <2>2 DEF FailCopy, At, KindFits, KindFit, LockHeld, LockFit, Running,
       CopyFits, CopyFit, InCopy, InPlace, Rows, Moves, Others, SameRestore, Cleared, dbVars
<1>21. ASSUME NEW o \in Operations, UndoDatabase(o) PROVE CopyFits'
  BY <1>21, <1>0, GoEffect DEF UndoDatabase, Step, At, KindFits, KindFit, LockHeld, LockFit,
     Running, CopyFits, CopyFit, InCopy, InPlace, Rows, Moves, Others, SameRestore, Cleared,
     dbVars
<1>22. ASSUME NEW o \in Operations, UndoRest(o) PROVE CopyFits'
  BY <1>22, <1>0, GoEffect DEF UndoRest, Step, At, KindFits, KindFit, LockHeld, LockFit, Running,
     CopyFits, CopyFit, InCopy, InPlace, Rows, Moves, Others, SameRestore, Cleared, dbVars
<1>23. ASSUME NEW o \in Operations, UndoClean(o) PROVE CopyFits'
  <2>1. End(o, "failed")
    BY <1>23 DEF UndoClean
  <2>2. Moves(o, "failed") /\ Cleared(o) /\ op'[o].from = None
    BY <1>0, <2>1, EndEffect
  <2> QED
    BY <1>23, <1>0, <2>2 DEF UndoClean, At, KindFits, KindFit, LockHeld, LockFit, Running,
       CopyFits, CopyFit, InCopy, InPlace, Rows, Moves, Others, SameRestore, Cleared, dbVars
<1>24. ASSUME NEW o \in Operations, FailUndo(o) PROVE CopyFits'
  BY <1>24, <1>0, GoEffect DEF FailUndo, At, KindFits, KindFit, LockHeld, LockFit, Running,
     CopyFits, CopyFit, InCopy, InPlace, Rows, Moves, Others, SameRestore, Cleared, dbVars
<1>25. CASE Crash
  <2>1. /\ UNCHANGED <<main, wal, files, archive, acked>>
        /\ add' = [b \in Books |-> IF Pending(b)
                                 THEN [pc |-> "killed", stale |-> FALSE, old |-> None] ELSE add[b]]
    BY <1>25, <1>0, CrashEffect
  <2>2. \A p \in Operations : Cut(p)
    BY <1>25, <1>0, CrashEffect
  <2>3. ASSUME NEW p \in Operations PROVE CopyFit(p)'
    BY <1>0, <2>1, <2>2, NoneIsNoOperation DEF KindFits, KindFit, LockHeld, LockFit, Running,
       CopyFits, CopyFit, InCopy, InPlace, Rows, SameRestore, Cleared, Cut
  <2> QED
    BY <1>0, <2>1, <2>3 DEF KindFits, KindFit, LockHeld, LockFit, Running, CopyFits, InCopy,
       InPlace, Rows
<1>26. CASE UNCHANGED vars
  BY <1>26, <1>0 DEF vars, dbVars, KindFits, KindFit, LockHeld, LockFit, Running, CopyFits,
     CopyFit, InCopy, InPlace, Rows
<1>27. ASSUME NEW b \in Books, UnlinkOld(b) PROVE CopyFits'
  <2>1. /\ files' = files \ {add[b].old} /\ UNCHANGED <<main, wal>>
        /\ \A p \in Operations : Without(p, add[b].old)
    BY <1>27, <1>0, UnlinkOldEffect
  <2> QED
    BY <1>0, <2>1 DEF Without, CopyFits, CopyFit, InCopy, InPlace, Rows
<1>28. ASSUME NEW b \in Books, MissRow(b) PROVE CopyFits'
  BY <1>28, <1>0 DEF MissRow, CopyFits, CopyFit, InCopy, InPlace, Rows, dbVars
<1>29. ASSUME NEW o \in Operations, FailBackup(o) PROVE CopyFits'
  <2>1. End(o, "failed")
    BY <1>29 DEF FailBackup
  <2>2. Moves(o, "failed") /\ Cleared(o) /\ op'[o].from = None
    BY <1>0, <2>1, EndEffect
  <2> QED
    BY <1>29, <1>0, <2>2 DEF FailBackup, At, KindFits, KindFit, LockHeld, LockFit, Running,
       CopyFits, CopyFit, InCopy, InPlace, Rows, Moves, Others, SameRestore, Cleared, dbVars
<1>30. ASSUME NEW o \in Operations, Handle(o) PROVE CopyFits'
  BY <1>30, <1>0 DEF Handle, dbVars, KindFits, KindFit, LockHeld, LockFit, Running, CopyFits,
     CopyFit, InCopy, InPlace, Rows
<1> QED
  BY <1>1, <1>2, <1>3, <1>4, <1>5, <1>6, <1>7, <1>8, <1>9, <1>10, <1>11, <1>12, <1>13, <1>14,
     <1>15, <1>16, <1>17, <1>18, <1>19, <1>20, <1>21, <1>22, <1>23, <1>24, <1>25, <1>26, <1>27,
     <1>28, <1>29, <1>30 DEF Next, Proceed

LEMMA AckedIsAsked == Types /\ RowsAreWritten => acked \subseteq Asked
BY ForeignAssumption DEF Types, RowsAreWritten, Written, Asked

\* A request that has stored its cover has not written its row.
LEMMA StoredIsNotWritten ==
    ASSUME NEW b \in Books, Pending(b)
    PROVE  b \notin Written /\ b \in Asked
BY ForeignAssumption DEF Written, Asked, Pending

\* What is missing while no restore replaces the data is at risk.
LEMMA RiskStep == IInv /\ [Next]_vars /\ ~crossed' => RiskFits'
<1> SUFFICES ASSUME IInv, [Next]_vars, ~crossed' PROVE RiskFits'
  OBVIOUS
<1>0. Types /\ StaleIsStored /\ KindFits /\ LockHeld /\ RowsAreWritten /\ CopyFits /\ RiskFits
  BY CrossedStays, RunsHold DEF IInv, Alone
<1>1. ASSUME NEW b \in Books, NEW old \in Rows \cup {None}, StoreCover(b, old)
     PROVE  RiskFits'
  BY <1>1, <1>0 DEF StoreCover, Pending, Types, AddRows, KindFits, KindFit, LockHeld, LockFit, RiskFits,
     CopyFits, CopyFit, InCopy, InPlace, Untouched, Rows, Running, BackupSteps, RestoreSteps,
     Undoing, Undoable, Copying, Over, dbVars
<1>2. ASSUME NEW b \in Books, CommitRow(b) PROVE RiskFits'
  <2>1. /\ Pending(b) /\ UNCHANGED <<files, risk>>
        /\ add' = [add EXCEPT ![b] = [pc |-> "answered", stale |-> FALSE, old |-> None]]
        /\ acked' = (acked \ {add[b].old}) \cup {b}
        /\ \A p \in Operations : op'[p].pc = op[p].pc
        /\ IF add[b].stale THEN UNCHANGED <<main, wal>>
           ELSE main' = main \ {add[b].old} /\ wal' = (wal \ {add[b].old}) \cup {b}
    BY <1>2, <1>0, CommitRowEffect DEF Without
  <2>2. \A c \in Books : (Pending(c))' => Pending(c) /\ add'[c].stale = add[c].stale
    BY <1>0, <2>1 DEF Types, AddRows, Pending
  <2> QED
    BY <1>0, <2>1, <2>2 DEF RiskFits, Rows, Untouched, Pending
<1>3. ASSUME NEW b \in Rows, RemoveBook(b) PROVE RiskFits'
  <2>1. /\ main' = main \ {b} /\ wal' = wal \ {b} /\ files' = files \ {b} /\ acked' = acked \ {b}
        /\ add' = add /\ risk' = risk /\ \A p \in Operations : op'[p].pc = op[p].pc
    BY <1>3, <1>0, RemoveBookEffect DEF Without
  <2>2. Untouched' => Untouched
    BY <2>1 DEF Untouched
  <2>3. \A c \in Books : Pending(c) => c # b
    BY <1>0, StoredIsNotWritten DEF RowsAreWritten, Rows
  <2> QED
    BY <1>0, <2>1, <2>2, <2>3 DEF RiskFits, Rows, Pending
<1>4. CASE Checkpoint
  <2>1. /\ main' = Rows /\ wal' = {} /\ UNCHANGED <<files, add, acked, risk>>
        /\ \A p \in Operations : op'[p].pc = op[p].pc
    BY <1>4, <1>0, CheckpointEffect DEF Checked
  <2> QED
    BY <1>0, <2>1 DEF RiskFits, Rows, Untouched, Pending
<1>5. ASSUME NEW o \in Operations, BeginBackup(o) PROVE RiskFits'
  <2>1. Acquire(o, "backup", "snapshot", None)
    BY <1>5 DEF BeginBackup
  <2>2. /\ op[o].pc = "new" /\ UNCHANGED <<main, wal, files, add, acked, risk>>
        /\ \A p \in Operations : p # o => op'[p].pc = op[p].pc
    BY <1>0, <2>1, AcquireEffect DEF Moves, Others, Emptied, Left
  <2>3. Untouched' => Untouched
    BY <2>2 DEF Untouched, Undoable, Undoing
  <2> QED
    BY <1>0, <2>2, <2>3 DEF RiskFits, Rows, Pending
<1>6. ASSUME NEW o \in Operations, BeginRestore(o) PROVE RiskFits'
  <2>1. PICK z \in {archive, Foreign} \ {None} : Acquire(o, "restore", "copy_db", z)
    BY <1>6 DEF BeginRestore
  <2>2. /\ op[o].pc = "new" /\ UNCHANGED <<main, wal, files, add, acked, risk>>
        /\ \A p \in Operations : p # o => op'[p].pc = op[p].pc
    BY <1>0, <2>1, AcquireEffect DEF Moves, Others, Emptied, Left
  <2>3. Untouched' => Untouched
    BY <2>2 DEF Untouched, Undoable, Undoing
  <2> QED
    BY <1>0, <2>2, <2>3 DEF RiskFits, Rows, Pending
<1>7. ASSUME NEW o \in Operations, Snapshot(o) PROVE RiskFits'
  BY <1>7, <1>0, SnapshotEffect DEF At, Pending, Types, AddRows, KindFits, KindFit, LockHeld, LockFit,
     RiskFits, CopyFits, CopyFit, InCopy, InPlace, Untouched, Rows, Running, BackupSteps,
     RestoreSteps, Undoing, Undoable, Copying, Over, Moves, Others, SameRestore, Cleared
<1>8. ASSUME NEW o \in Operations, ListFiles(o) PROVE RiskFits'
  BY <1>8, <1>0, ListFilesEffect DEF At, Pending, Types, AddRows, KindFits, KindFit, LockHeld, LockFit,
     RiskFits, CopyFits, CopyFit, InCopy, InPlace, Untouched, Rows, Running, BackupSteps,
     RestoreSteps, Undoing, Undoable, Copying, Over, Moves, Others, SameRestore, Cleared
<1>9. ASSUME NEW o \in Operations, Pack(o) PROVE RiskFits'
  BY <1>9, <1>0, EndEffect DEF Pack, At, Pending, Types, AddRows, KindFits, KindFit, LockHeld, LockFit,
     RiskFits, CopyFits, CopyFit, InCopy, InPlace, Untouched, Rows, Running, BackupSteps,
     RestoreSteps, Undoing, Undoable, Copying, Over, Moves, Others, SameRestore, Cleared, dbVars
<1>10. ASSUME NEW o \in Operations, CopyDatabase(o) PROVE RiskFits'
  BY <1>10, <1>0, CopyDatabaseEffect DEF At, Pending, Types, AddRows, KindFits, KindFit, LockHeld, LockFit,
     RiskFits, CopyFits, CopyFit, InCopy, InPlace, Untouched, Rows, Running, BackupSteps,
     RestoreSteps, Undoing, Undoable, Copying, Over, Moves, Others, SameRestore, Cleared
<1>11. ASSUME NEW o \in Operations, CopyMain(o) PROVE RiskFits'
  BY <1>11, <1>0, CopyMainEffect DEF At, Pending, Types, AddRows, KindFits, KindFit, LockHeld, LockFit,
     RiskFits, CopyFits, CopyFit, InCopy, InPlace, Untouched, Rows, Running, BackupSteps,
     RestoreSteps, Undoing, Undoable, Copying, Over, Moves, Others, SameRestore, Cleared
<1>12. ASSUME NEW o \in Operations, CopyRest(o) PROVE RiskFits'
  BY <1>12, <1>0, CopyRestEffect DEF At, Pending, Types, AddRows, KindFits, KindFit, LockHeld, LockFit,
     RiskFits, CopyFits, CopyFit, InCopy, InPlace, Untouched, Rows, Running, BackupSteps,
     RestoreSteps, Undoing, Undoable, Copying, Over, Moves, Others, SameRestore, Cleared
<1>13. ASSUME NEW o \in Operations, Wipe(o) PROVE RiskFits'
  BY <1>13, <1>0, GoEffect DEF Wipe, Step, At, Pending, Types, AddRows, KindFits, KindFit, LockHeld,
     LockFit, RiskFits, CopyFits, CopyFit, InCopy, InPlace, Untouched, Rows, Running, BackupSteps,
     RestoreSteps, Undoing, Undoable, Copying, Over, Moves, Others, SameRestore, Cleared, dbVars
<1>14. ASSUME NEW o \in Operations, Extract(o) PROVE RiskFits'
  BY <1>14, <1>0, GoEffect DEF Extract, Step, At, Pending, Types, AddRows, KindFits, KindFit, LockHeld,
     LockFit, RiskFits, CopyFits, CopyFit, InCopy, InPlace, Untouched, Rows, Running, BackupSteps,
     RestoreSteps, Undoing, Undoable, Copying, Over, Moves, Others, SameRestore, Cleared, dbVars
<1>15. ASSUME NEW o \in Operations, Dispose(o) PROVE RiskFits'
  BY <1>15, <1>0, GoEffect DEF Dispose, Step, At, Pending, Types, AddRows, KindFits, KindFit, LockHeld,
     LockFit, RiskFits, CopyFits, CopyFit, InCopy, InPlace, Untouched, Rows, Running, BackupSteps,
     RestoreSteps, Undoing, Undoable, Copying, Over, Moves, Others, SameRestore, Cleared, dbVars
<1>16. ASSUME NEW o \in Operations, Move(o) PROVE RiskFits'
  BY <1>16, <1>0, GoEffect DEF Move, Step, At, Replaced, Pending, Types, AddRows, KindFits, KindFit,
     LockHeld, LockFit, RiskFits, CopyFits, CopyFit, InCopy, InPlace, Untouched, Rows, Running,
     BackupSteps, RestoreSteps, Undoing, Undoable, Copying, Over, Moves, Others, SameRestore,
     Cleared, dbVars
<1>17. ASSUME NEW o \in Operations, DropLog(o) PROVE RiskFits'
  BY <1>17, <1>0, GoEffect DEF DropLog, Step, At, Replaced, Pending, Types, AddRows, KindFits, KindFit,
     LockHeld, LockFit, RiskFits, CopyFits, CopyFit, InCopy, InPlace, Untouched, Rows, Running,
     BackupSteps, RestoreSteps, Undoing, Undoable, Copying, Over, Moves, Others, SameRestore,
     Cleared, dbVars
<1>18. ASSUME NEW o \in Operations, NewEngine(o) PROVE RiskFits'
  <2>1. risk' = risk \cup Asked /\ UNCHANGED <<main, wal, files, add, acked>>
    BY <1>18 DEF NewEngine, dbVars
  <2> QED
    BY <1>0, <2>1, AckedIsAsked, StoredIsNotWritten DEF RiskFits, Pending
<1>19. ASSUME NEW o \in Operations, FailRestore(o) PROVE RiskFits'
  BY <1>19, <1>0, GoEffect DEF FailRestore, At, Pending, Types, AddRows, KindFits, KindFit, LockHeld,
     LockFit, RiskFits, CopyFits, CopyFit, InCopy, InPlace, Untouched, Rows, Running, BackupSteps,
     RestoreSteps, Undoing, Undoable, Copying, Over, Moves, Others, SameRestore, Cleared, dbVars
<1>20. ASSUME NEW o \in Operations, FailCopy(o) PROVE RiskFits'
  BY <1>20, <1>0, EndEffect DEF FailCopy, At, Pending, Types, AddRows, KindFits, KindFit, LockHeld,
     LockFit, RiskFits, CopyFits, CopyFit, InCopy, InPlace, Untouched, Rows, Running, BackupSteps,
     RestoreSteps, Undoing, Undoable, Copying, Over, Moves, Others, SameRestore, Cleared, dbVars
<1>21. ASSUME NEW o \in Operations, UndoDatabase(o) PROVE RiskFits'
  BY <1>21, <1>0, GoEffect DEF UndoDatabase, Step, At, Replaced, Pending, Types, AddRows, KindFits,
     KindFit, LockHeld, LockFit, RiskFits, CopyFits, CopyFit, InCopy, InPlace, Untouched, Rows,
     Running, BackupSteps, RestoreSteps, Undoing, Undoable, Copying, Over, Moves, Others,
     SameRestore, Cleared, dbVars
<1>22. ASSUME NEW o \in Operations, UndoRest(o) PROVE RiskFits'
  BY <1>22, <1>0, GoEffect DEF UndoRest, Step, At, Replaced, Pending, Types, AddRows, KindFits, KindFit,
     LockHeld, LockFit, RiskFits, CopyFits, CopyFit, InCopy, InPlace, Untouched, Rows, Running,
     BackupSteps, RestoreSteps, Undoing, Undoable, Copying, Over, Moves, Others, SameRestore,
     Cleared, dbVars
<1>23. ASSUME NEW o \in Operations, UndoClean(o) PROVE RiskFits'
  <2>1. /\ op[o].pc = "undo_clean" /\ UNCHANGED <<main, wal, files, add, acked>>
        /\ risk' = risk \cup IF op[o].torn THEN Asked ELSE Asked \ op[o].base
    BY <1>23 DEF UndoClean, At, dbVars
  <2>2. (op[o].torn \/ op[o].base \subseteq Rows \cap files) /\ op[o].base \subseteq Written
    BY <1>0, <2>1 DEF CopyFits, CopyFit, InPlace, RowsAreWritten, WrittenFor
  <2>3. acked \ (Rows \cap files) \subseteq risk'
    BY <1>0, <2>1, <2>2, AckedIsAsked
  <2>4. \A b \in Books : Pending(b) => b \in risk'
    BY <2>1, <2>2, StoredIsNotWritten
  <2> QED
    BY <2>1, <2>3, <2>4 DEF RiskFits, Rows, Pending
<1>24. ASSUME NEW o \in Operations, FailUndo(o) PROVE RiskFits'
  <2>1. risk' = risk \cup Asked /\ UNCHANGED <<main, wal, files, add, acked>>
    BY <1>24 DEF FailUndo, dbVars
  <2> QED
    BY <1>0, <2>1, AckedIsAsked, StoredIsNotWritten DEF RiskFits, Pending
<1>25. CASE Crash
  <2>1. /\ UNCHANGED <<main, wal, files, acked>>
        /\ risk' = risk \cup IF Restoring THEN Asked ELSE {}
        /\ \A b \in Books : ~(Pending(b))'
    BY <1>25, <1>0, CrashEffect DEF Types, AddRows, Pending
  <2>2. Untouched \/ Restoring
    BY <1>0 DEF Untouched, Restoring, Running, Over, KindFits, KindFit, RestoreSteps, Undoable,
       Undoing
  <2>3. acked \ (Rows \cap files) \subseteq risk'
    BY <1>0, <2>1, <2>2, AckedIsAsked DEF RiskFits, Pending
  <2> QED
    BY <2>1, <2>3 DEF RiskFits, Rows, Pending
<1>26. CASE UNCHANGED vars
  BY <1>26, <1>0 DEF vars, dbVars, Pending, Types, AddRows, KindFits, KindFit, LockHeld, LockFit, RiskFits,
     CopyFits, CopyFit, InCopy, InPlace, Untouched, Rows, Running, BackupSteps, RestoreSteps,
     Undoing, Undoable, Copying, Over
<1>27. ASSUME NEW b \in Books, UnlinkOld(b) PROVE RiskFits'
  <2>1. /\ add' = [add EXCEPT ![b].pc = "unlinked"] /\ add[b].pc = "stored" /\ add[b].old # None
        /\ UNCHANGED <<main, wal, risk>> /\ acked' = acked \ {add[b].old}
        /\ files' = files \ {add[b].old} /\ \A p \in Operations : op'[p].pc = op[p].pc
    BY <1>27, <1>0, UnlinkOldEffect DEF Without
  <2>2. \A c \in Books : /\ (Pending(c))' => Pending(c) /\ c # add[b].old
                        /\ add'[c].stale = add[c].stale
    BY <1>0, <2>1, StoredIsNotWritten DEF Types, AddRows, Pending, RowsAreWritten
  <2> QED
    BY <1>0, <2>1, <2>2 DEF RiskFits, Rows, Untouched, Pending
<1>28. ASSUME NEW b \in Books, MissRow(b) PROVE RiskFits'
  <2>1. /\ UNCHANGED <<main, wal, files, acked, risk, op>>
        /\ \A c \in Books : (Pending(c))' => Pending(c) /\ add'[c].stale = add[c].stale
    BY <1>28, <1>0 DEF MissRow, Types, AddRows, Pending, dbVars
  <2> QED
    BY <1>0, <2>1 DEF RiskFits, Rows, Untouched, Pending
<1>29. ASSUME NEW o \in Operations, FailBackup(o) PROVE RiskFits'
  <2>1. /\ op[o].kind = "backup" /\ UNCHANGED <<main, wal, files, add, acked, risk>>
        /\ \A p \in Operations \ {o} : op'[p] = op[p]
    BY <1>29, <1>0, EndEffect DEF FailBackup, Moves, Others, dbVars
  <2>2. op[o].pc \notin Undoable \cup Undoing
    BY <1>0, <2>1 DEF KindFits, KindFit, RestoreSteps
  <2> QED
    BY <1>0, <2>1, <2>2 DEF RiskFits, Untouched, Rows, Pending
<1>30. ASSUME NEW o \in Operations, Handle(o) PROVE RiskFits'
  BY <1>30, <1>0 DEF Handle, dbVars, Pending, Types, AddRows, KindFits, KindFit, LockHeld, LockFit, RiskFits,
     CopyFits, CopyFit, InCopy, InPlace, Untouched, Rows, Running, BackupSteps, RestoreSteps,
     Undoing, Undoable, Copying, Over
<1> QED
  BY <1>1, <1>2, <1>3, <1>4, <1>5, <1>6, <1>7, <1>8, <1>9, <1>10, <1>11, <1>12, <1>13, <1>14,
     <1>15, <1>16, <1>17, <1>18, <1>19, <1>20, <1>21, <1>22, <1>23, <1>24, <1>25, <1>26, <1>27,
     <1>28, <1>29, <1>30 DEF Next, Proceed

-----------------------------------------------------------------------------
(* The theorems.                                                           *)

LEMMA InitIInv == Init => IInv
<1> SUFFICES ASSUME Init PROVE IInv
  OBVIOUS
<1>1. \A o \in Operations : op[o] = NoOp
  BY DEF Init
<1>2. /\ NoOp.pc = "new" /\ NoOp.from = None /\ NoOp.rows = {} /\ NoOp.base = {} /\ NoOp.safety = None
  BY DEF NoOp
<1>3. Types
  BY NoOpTyped DEF Init, Types, AddRows
<1>4. StaleIsStored
  BY DEF Init, StaleIsStored
<1>11. LockTypes
  BY DEF Init, LockInit, LockTypes, Turns
<1>5. KindFits
  BY <1>1, <1>2 DEF KindFits, KindFit, Steps, BackupSteps, RestoreSteps, Copying, Undoable,
     Undoing
<1>6. TurnFits /\ FdFits
  BY <1>1, <1>2, NoneIsNoOperation DEF Init, LockInit, TurnFits, TurnFit, FdFits, FdFit, Running
<1>7. Listed
  BY <1>1, <1>2 DEF Init, Listed, Lists, ArchiveWhole
<1>8. RowsAreWritten
  BY <1>1, <1>2 DEF Init, RowsAreWritten, WrittenFor
<1>9. CopyFits
  BY <1>1, <1>2 DEF CopyFits, CopyFit, Undoable, Undoing
<1>10. RiskFits
  BY DEF Init, RiskFits, Pending
<1> QED
  BY <1>3, <1>4, <1>5, <1>6, <1>7, <1>8, <1>9, <1>10, <1>11 DEF IInv, Alone

LEMMA StepIInv == IInv /\ [Next]_vars => IInv'
BY TypesStep, LockTypesStep, StaleStep, KindStep, TurnStep, RowsStep, FdStep, ListedStep, CopyStep,
   RiskStep DEF IInv, Alone

\* Whatever was asked for and wherever it failed, the inductive invariant holds.
THEOREM Invariance == Spec => []IInv
BY InitIInv, StepIInv, PTL DEF Spec

\* Every variable keeps its type, and as long as _acquire_operation_lock and
\* _release_operation_lock did not overlap, the flock is with the operation that
\* runs or is about to unlock.
THEOREM TypeCorrect == Spec => []TypeOK
<1>1. IInv => TypeOK
  <2> SUFFICES ASSUME IInv PROVE TypeOK
    OBVIOUS
  <2>1. Types /\ StaleIsStored /\ TurnFits
    BY DEF IInv
  <2>2. archive # None => archive.rows \subseteq Known /\ archive.files \subseteq Known
    BY <2>1 DEF Types, Archives
  <2>3. ASSUME ~crossed, NEW o \in Operations PROVE holder = o <=> Running(o) \/ turn[o] = "unlock"
    BY <2>1, <2>3 DEF IInv, Alone, TurnFits, TurnFit, FdFits, FdFit
  <2> QED
    BY <2>1, <2>2, <2>3 DEF TypeOK, Types, StaleIsStored
<1> QED
  BY <1>1, Invariance, PTL

\* Two operations never run at once, whoever was refused, failed or killed in
\* between, as long as none took the lock while another was giving it back.
THEOREM OneOperationAlways == Spec => []OneOperation
<1>1. IInv => OneOperation
  BY RunsHold DEF IInv, Alone, LockHeld, LockFit, OneOperation, OneAtATime
<1> QED
  BY <1>1, Invariance, PTL

\* An archive has the cover of every book it has, save those that were without one,
\* and those removed or given another cover while create_backup ran; and save those
\* made after two operations were at the lock together.
THEOREM ArchiveWholeAlways == Spec => []ArchiveWhole
<1>1. IInv => ArchiveWhole
  BY DEF IInv, Alone, Listed, ArchiveWhole
<1> QED
  BY <1>1, Invariance, PTL

\* Outside of a restore, an answered addition is lost only to a restore that ended
\* well, was cut short or could not be undone, or met the request while it ran, or
\* to operations that were at the lock together.
THEOREM AckedSurvivesAlways == Spec => []AckedSurvives
<1>1. IInv => AckedSurvives
  <2> SUFFICES ASSUME IInv, ~Restoring, ~crossed PROVE acked \ (Rows \cap files) \subseteq risk
    BY DEF AckedSurvives
  <2>1. KindFits /\ RiskFits
    BY DEF IInv, Alone
  <2>2. Untouched
    BY <2>1 DEF KindFits, KindFit, Untouched, Restoring, Running, RestoreSteps, Undoable, Undoing,
       Over
  <2> QED
    BY <2>1, <2>2 DEF RiskFits
<1> QED
  BY <1>1, Invariance, PTL

\* The books there were before a restore are whole in place or in its safety copy,
\* at every step of the restore and of its undoing and after both have failed, as
\* long as no other operation runs beside it.
THEOREM SomeCopyCompleteAlways == Spec => []SomeCopyComplete
<1>1. IInv => SomeCopyComplete
  <2> SUFFICES ASSUME IInv, ~crossed, NEW o \in Operations
               PROVE  \/ InPlace(o) \/ op[o].torn
                      \/ op[o].safety # None /\ InCopy(o)
    BY DEF SomeCopyComplete, InPlace, InCopy
  <2>1. KindFit(o) /\ CopyFit(o)
    BY DEF IInv, Alone, KindFits, CopyFits
  <2>2. CASE op[o].pc \in BackupSteps \cup {"new", "refused", "done", "copy_db"}
    BY <2>1, <2>2 DEF CopyFit, InPlace
  <2>3. CASE op[o].pc \in {"copy_main", "copy_rest"}
    BY <2>1, <2>3 DEF CopyFit
  <2>4. CASE op[o].pc \in Undoable \cup Undoing
    BY <2>1, <2>4 DEF KindFit, CopyFit, RestoreSteps, Undoable, Undoing
  <2>5. CASE op[o].pc \in {"failed", "killed"}
    BY <2>1, <2>5 DEF CopyFit, InPlace
  <2> QED
    BY <2>1, <2>2, <2>3, <2>4, <2>5 DEF KindFit, Steps, RestoreSteps, Copying, Over
<1> QED
  BY <1>1, Invariance, PTL
=============================================================================
