---------------------------- MODULE OperationLock ----------------------------
(***************************************************************************)
(* The lock of backups and restores: an flock on backup_restore.lock whose *)
(* descriptor is kept in a global of the module, _lock_fd.                 *)
(*                                                                         *)
(* The endpoints are plain functions, so each operation runs in a thread.  *)
(* Taking the lock and giving it back are several steps, and the release   *)
(* reads the global anew in each of them without asking whose descriptor   *)
(* it has become.                                                          *)
(*                                                                         *)
(* A descriptor is named by the operation that opened it.  That the number *)
(* of a closed one is given out again is left out: it makes a difference   *)
(* only to one who closes a descriptor for the second time.                *)
(***************************************************************************)
EXTENDS Naturals

CONSTANTS
    MaxOperations,  \* how many backups and restores are asked for
    None

ASSUME MaxOperationsAssumption == MaxOperations \in Nat

\* Numbered in the order in which they are asked for.
Operations == 1..MaxOperations

VARIABLES
    holder,     \* the descriptor that has the flock, or None
    lockFd,     \* the global: a descriptor, or None
    open,       \* the open descriptors of the file
    turn,       \* Operations -> how far each is in taking or giving back the lock
    crossed     \* history: one took the lock while another was still giving it back

lockVars == <<holder, lockFd, open, turn, crossed>>

Turns == {"out", "locked", "held", "unlock", "close", "forget"}

LockInit ==
    /\ holder = None /\ lockFd = None /\ open = {}
    /\ turn = [o \in Operations |-> "out"]
    /\ crossed = FALSE

Turn(o, next) == turn' = [turn EXCEPT ![o] = next]

-----------------------------------------------------------------------------
(* _acquire_operation_lock                                                 *)

\* The flock does not wait: a second operation is refused.
Lock(o) ==
    /\ turn[o] = "out" /\ holder = None
    /\ holder' = o /\ open' = open \cup {o}
    /\ Turn(o, "locked")
    /\ UNCHANGED <<lockFd, crossed>>

\* Mutant: an operation that is refused runs its finally clause all the same.
RefusedInside(o) ==
    /\ turn[o] = "out" /\ holder # None
    /\ Turn(o, "unlock")
    /\ UNCHANGED <<holder, lockFd, open, crossed>>

\* Who is refused closes the descriptor of its own, and nothing is released.
Refused(o) == turn[o] = "out" /\ holder # None /\ UNCHANGED lockVars

\* From here on the operation works.
Remember(o) ==
    /\ turn[o] = "locked"
    /\ lockFd' = o
    /\ crossed' = (crossed \/ \E p \in Operations : turn[p] \in {"close", "forget"})
    /\ Turn(o, "held")
    /\ UNCHANGED <<holder, open>>

-----------------------------------------------------------------------------
(* _release_operation_lock                                                 *)

\* The finally clause begins.
LetGo(o) ==
    /\ turn[o] = "held" /\ Turn(o, "unlock")
    /\ UNCHANGED <<holder, lockFd, open, crossed>>

\* With nothing in the global nothing is released.
Unlock(o) ==
    /\ turn[o] = "unlock"
    /\ IF lockFd = None
       THEN Turn(o, "out") /\ UNCHANGED holder
       ELSE Turn(o, "close") /\ holder' = (IF holder = lockFd THEN None ELSE holder)
    /\ UNCHANGED <<lockFd, open, crossed>>

\* Closing ends the flock too; nothing, or what is closed already, raises an error.
Close(o) ==
    /\ turn[o] = "close"
    /\ IF lockFd \in open
       THEN /\ open' = open \ {lockFd}
            /\ holder' = (IF holder = lockFd THEN None ELSE holder)
            /\ Turn(o, "forget")
       ELSE Turn(o, "out") /\ UNCHANGED <<holder, open>>
    /\ UNCHANGED <<lockFd, crossed>>

Forget(o) ==
    /\ turn[o] = "forget"
    /\ lockFd' = None /\ Turn(o, "out")
    /\ UNCHANGED <<holder, open, crossed>>

\* A process that is killed leaves no descriptor behind.
LoseLock ==
    /\ holder' = None /\ lockFd' = None /\ open' = {}
    /\ turn' = [o \in Operations |-> "out"]
    /\ UNCHANGED crossed
=============================================================================
