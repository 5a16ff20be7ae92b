------------------------- MODULE ReadingSessionsRace -------------------------
(***************************************************************************)
(* The two requests on a book that are not one step.  update_book reads    *)
(* the book, waits for the download of an external cover while any other   *)
(* request may run, and goes on with the row it has read.  create_book     *)
(* commits the book before its session, and may stop in between.           *)
(*                                                                         *)
(* An UPDATE names the columns whose value differs from the one loaded, so *)
(* a late PATCH merges into the row, while reconcile_book_sessions works   *)
(* from the row of the request and from the sessions there are by then.    *)
(***************************************************************************)
EXTENDS ReadingSessions

VARIABLES loaded        \* the row a waiting PATCH has read, or Absent

raceVars == <<book, sessions, logged, loaded>>

\* update_book up to the download.
BeginPatch ==
    /\ book # Absent /\ loaded = Absent
    /\ loaded' = book
    /\ UNCHANGED <<book, sessions, logged>>

\* update_book after the download, successful or not.
FinishPatch(p, auto) ==
    /\ loaded # Absent
    /\ PatchFrom(loaded, p, auto)
    /\ loaded' = Absent

\* The book was deleted meanwhile.  A PATCH that still has a column to write
\* fails; with no cover and nothing else to change there is no UPDATE to miss
\* its row, and the session reconcile_book_sessions added is committed.
PatchDeleted(p, auto) ==
    /\ loaded # Absent /\ book = Absent
    /\ LET q == Filled(loaded, p, FALSE, auto) IN
       /\ Updated(loaded, q) = loaded
       /\ ValidDates(q.started, q.finished)
    /\ Reconcile(loaded)
    /\ loaded' = Absent
    /\ UNCHANGED <<book, logged>>

\* Any other end of the waiting request: refused dates, a lost row, a stop.
FailPatch ==
    /\ loaded # Absent
    /\ loaded' = Absent
    /\ UNCHANGED <<book, sessions, logged>>

\* create_book commits the book before it makes the session: a stop between
\* the two commits leaves a book without one.  So does an index that refuses
\* the session because a late PATCH left one for this id.
CreateBookOnly(b) ==
    /\ book = Absent
    /\ ValidDates(b.started, b.finished)
    /\ b.status # "want_to_read"
    /\ book' = b
    /\ UNCHANGED <<sessions, logged>>

RaceInit == Init /\ loaded = Absent

\* Everything else that may happen, the waiting PATCH untouched.
OtherRequest ==
    /\ \/ Next
       \/ \E b \in NewBook : CreateBookOnly(b)
    /\ UNCHANGED loaded

RaceNext ==
    \/ OtherRequest
    \/ BeginPatch
    \/ \E p \in Payloads, auto \in AutoSettings : FinishPatch(p, auto)
    \/ \E p \in Payloads, auto \in AutoSettings : PatchDeleted(p, auto)
    \/ FailPatch

RaceSpec == RaceInit /\ [][RaceNext]_raceVars

-----------------------------------------------------------------------------
(* Properties, beside those of ReadingSessions that survive the overlap. *)

\* reconcile_book_sessions promises of a book that is currently_reading that
\* one current session exists: a book that has one and goes on being read
\* does not lose it to a request.
KeepsCurrent ==
    /\ book # Absent /\ book' # Absent
    /\ book.status = Open /\ book'.status = Open
    /\ Current(sessions) # {}
    => Current(sessions)' # {}

ReadingKeepsCurrent == [][KeepsCurrent]_raceVars
=============================================================================
