---------------------------- MODULE ImportContract ----------------------------
(***************************************************************************)
(* What the import of a file promises its user, without the streams,       *)
(* transactions and locks of the implementation: the two import modes of   *)
(* the dialog.  "continue_on_error" takes the rows in order and keeps each *)
(* one that can be kept; "rollback_all" keeps all of the rows or none.     *)
(* Either way an import that was begun comes to an end.                    *)
(***************************************************************************)
EXTENDS Naturals, FiniteSets

CONSTANTS
    Imports,        \* the uploads
    MaxRows         \* the length of the longest file

VARIABLES
    phase,          \* per import: "idle", "running", "done", "broken"
    mode,           \* per import: "none", "rollback_all", "continue_on_error"
    rows,           \* per import: the number of rows of its file
    taken,          \* per import: how many rows it has dealt with
    saved           \* per import: the rows whose books are in the library

contractVars == <<phase, mode, rows, taken, saved>>

Init ==
    /\ phase = [i \in Imports |-> "idle"]
    /\ mode = [i \in Imports |-> "none"]
    /\ rows \in [Imports -> 1..MaxRows]
    /\ taken = [i \in Imports |-> 0]
    /\ saved = [i \in Imports |-> {}]

Begin(i, m) ==
    /\ phase[i] = "idle"
    /\ phase' = [phase EXCEPT ![i] = "running"]
    /\ mode' = [mode EXCEPT ![i] = m]
    /\ UNCHANGED <<rows, taken, saved>>

\* The next row is dealt with: kept at once, left out, or kept for the end.
TakeRow(i) ==
    /\ phase[i] = "running" /\ taken[i] < rows[i]
    /\ taken' = [taken EXCEPT ![i] = @ + 1]
    /\ \/ UNCHANGED saved
       \/ /\ mode[i] = "continue_on_error"
          /\ saved' = [saved EXCEPT ![i] = @ \cup {taken[i] + 1}]
    /\ UNCHANGED <<phase, mode, rows>>

\* All rows have been dealt with.
Finish(i) ==
    /\ phase[i] = "running" /\ taken[i] = rows[i]
    /\ phase' = [phase EXCEPT ![i] = "done"]
    /\ saved' = [saved EXCEPT ![i] = IF mode[i] = "rollback_all" THEN 1..rows[i] ELSE @]
    /\ UNCHANGED <<mode, rows, taken>>

\* An error or a disconnected client ends an import, a stopped process all of
\* them; what is saved by then stays.
Break(some) ==
    /\ \A i \in some : phase[i] \in {"idle", "running"}
    /\ phase' = [i \in Imports |-> IF i \in some THEN "broken" ELSE phase[i]]
    /\ UNCHANGED <<mode, rows, taken, saved>>

\* The user deletes imported books.
Lose(i) ==
    /\ \E less \in SUBSET saved[i] : saved' = [saved EXCEPT ![i] = less]
    /\ UNCHANGED <<phase, mode, rows, taken>>

ContractNext ==
    \/ \E i \in Imports :
          \/ \E m \in {"rollback_all", "continue_on_error"} : Begin(i, m)
          \/ TakeRow(i)
          \/ Finish(i)
          \/ Lose(i)
    \/ \E some \in SUBSET Imports : Break(some)

Contract == Init /\ [][ContractNext]_contractVars

\* No import goes on for ever.
Ends == <>[](\A i \in Imports : phase[i] # "running")
=============================================================================
