--------------------------- MODULE ReadingSessions ---------------------------
(***************************************************************************)
(* One book of one user and its reading sessions, as the requests of       *)
(* routers/books.py, routers/sessions.py and routers/progress.py change    *)
(* them through services/reading_sessions.py.  Every action is a whole     *)
(* request, from the row it reads to its commit.  A request answered with  *)
(* 4xx, 5xx or a date conflict changes nothing and is a stuttering step,   *)
(* so only its negation appears, as a guard.                               *)
(*                                                                         *)
(* Dates are 1..MaxDate, NoDate is NULL, and Now, the newest date, is the  *)
(* request's clock: a later clock only adds dates between.  The session    *)
(* table is a function from the row ids to rows, Absent where there is no  *)
(* row.  Of the progress log only the sessions that own at least one entry *)
(* are kept.                                                               *)
(***************************************************************************)
EXTENDS Integers

CONSTANTS MaxSession,   \* the largest id the session table may use: a bound
          MaxDate,      \* the number of distinguishable dates: a bound
          Payloads,     \* what clients put into a PATCH
          Transitions,  \* what clients put into a transition-status request
          AutoSettings, \* the users' date automation preferences
          Owners,       \* the sessions clients name for a progress entry
          Absent        \* no such row

VARIABLES book,         \* the book's row, or Absent
          sessions,     \* the rows of reading_session
          logged        \* owners of the entries of reading_progress

vars == <<book, sessions, logged>>

Open     == "currently_reading"
Finished == {"read", "did_not_finish"}
Status   == {"want_to_read", Open} \cup Finished

SessionIds == 1 .. MaxSession

NoDate == 0
Now    == MaxDate
Dates  == 0 .. MaxDate

\* What a client may send: NULL, any date up to now, and one in the future.
InputDates == 0 .. MaxDate + 1

\* What a payload holds for a field it does not name.
Keep       == -1
KeepStatus == "keep"

\* The owner of a progress entry whose session_id is NULL.
NoSession == 0

BookRow    == [status : Status, started : Dates, finished : Dates]
SessionRow == [status : {Open} \cup Finished, started : Dates,
               finished : Dates, current : BOOLEAN]

\* BookCreate, BookUpdate and ReadingSessionUpdate, StatusTransitionRequest,
\* and the two user settings.
NewBook == [status : Status, started : InputDates, finished : InputDates]
Payload == [status : Status \cup {KeepStatus},
            started : InputDates \cup {Keep}, finished : InputDates \cup {Keep}]
Transition == [status : Status, start : InputDates, finish : InputDates,
               skip : BOOLEAN, clearStart : BOOLEAN, clearFinish : BOOLEAN]
Automation == [start : BOOLEAN, finish : BOOLEAN]

ASSUME MaxSessionAssumption == MaxSession \in Nat
ASSUME MaxDateAssumption == MaxDate \in Nat \ {0}
ASSUME RequestAssumption ==
    /\ Payloads \subseteq Payload
    /\ Transitions \subseteq Transition
    /\ AutoSettings \subseteq Automation
    /\ Owners \subseteq SessionIds \cup {NoSession}
ASSUME AbsentAssumption == Absent \notin BookRow \cup SessionRow

-----------------------------------------------------------------------------
(* Reading the tables. *)

Live(S)    == {i \in SessionIds : S[i] # Absent}
Current(S) == {i \in Live(S) : S[i].current}

\* The partial unique index uq_reading_session_book_current.
CurrentIsUnique(S) == \A i, j \in Current(S) : i = j

\* SQLite's next rowid is one above the largest in the table: the id of a
\* deleted newest row is used again.
NextId(S, i) ==
    /\ \A j \in Live(S) : j < i
    /\ \A k \in SessionIds : (\A j \in Live(S) : j < k) => i <= k

ReadingDate(s) == IF s.finished # NoDate THEN s.finished ELSE s.started

\* The head of sessions_for_book among ids: latest reading date, NULL last,
\* then the largest id.
Latest(S, ids) ==
    CHOOSE i \in ids : \A j \in ids \ {i} :
        \/ ReadingDate(S[i]) > ReadingDate(S[j])
        \/ ReadingDate(S[i]) = ReadingDate(S[j]) /\ i > j

OpenRow(started) ==
    [status |-> Open, started |-> started, finished |-> NoDate, current |-> TRUE]

RowOf(b) ==
    [status |-> b.status, started |-> b.started, finished |-> b.finished,
     current |-> b.status = Open]

\* recompute_book_mirror: the book's row as the sessions S show it.
Mirror(S, status) ==
    IF Current(S) # {}
    THEN LET c == S[CHOOSE i \in Current(S) : TRUE] IN
         [status |-> status, started |-> c.started,
          finished |-> IF c.status = Open THEN NoDate ELSE c.finished]
    ELSE IF Live(S) # {}
    THEN LET l == S[Latest(S, Live(S))] IN
         [status |-> status, started |-> l.started, finished |-> l.finished]
    ELSE [status |-> status, started |-> NoDate, finished |-> NoDate]

-----------------------------------------------------------------------------
(* Payloads. *)

Given(date, old) == IF date = Keep THEN old ELSE date
GivenStatus(status, old) == IF status = KeepStatus THEN old ELSE status

\* Mutant: the check for dates in the future is dropped.
OrderedDates(started, finished) ==
    started > NoDate /\ finished > NoDate => started <= finished

\* _validate_dates looks at the payload alone; Keep and NoDate pass.
ValidDates(started, finished) ==
    /\ started <= Now /\ finished <= Now
    /\ started > NoDate /\ finished > NoDate => started <= finished

\* _validate_date_finished_for_read
FinishKept(b, p, target, autoFinish) ==
    ~ /\ p.finished = NoDate /\ b.finished # NoDate
      /\ autoFinish /\ b.status = "read" /\ target = "read"

\* _apply_status_transition_dates: the dates filled in when the status changes.
FilledStart(b, target, p, skip, autoStart) ==
    IF target = b.status \/ target # Open \/ ~autoStart THEN p.started
    ELSE IF skip THEN Given(p.started, NoDate)
    ELSE IF b.started = NoDate /\ p.started \in {Keep, NoDate} THEN Now
    ELSE p.started

FilledFinish(b, target, p, autoFinish) ==
    IF /\ target # b.status /\ target \in Finished /\ autoFinish
       /\ p.finished \in {Keep, NoDate}
    THEN Now ELSE p.finished

Filled(b, p, skip, auto) ==
    LET target == GivenStatus(p.status, b.status) IN
    [status |-> p.status,
     started |-> FilledStart(b, target, p, skip, auto.start),
     finished |-> FilledFinish(b, target, p, auto.finish)]

\* sqlmodel_update, and the columns of the UPDATE it leads to: those whose
\* value differs from the one that was loaded.
Updated(b, p) ==
    [status |-> GivenStatus(p.status, b.status),
     started |-> Given(p.started, b.started),
     finished |-> Given(p.finished, b.finished)]

Changed(loaded, row, new) ==
    [status |-> IF new.status = loaded.status THEN row.status ELSE new.status,
     started |-> IF new.started = loaded.started THEN row.started ELSE new.started,
     finished |-> IF new.finished = loaded.finished
                  THEN row.finished ELSE new.finished]

(* The session service. *)

\* Mutant: there is no index on the current session of a book.
InitialSessionUnchecked(b) ==
    IF b.status = "want_to_read" THEN sessions' = sessions
    ELSE \E i \in SessionIds :
            /\ NextId(sessions, i)
            /\ sessions' = [sessions EXCEPT ![i] = RowOf(b)]

\* The row create_initial_session adds for a new book, in the state after the
\* book's own commit.
InitialSession(b) ==
    IF b.status = "want_to_read" THEN sessions' = sessions
    ELSE \E i \in SessionIds :
            /\ NextId(sessions, i)
            /\ sessions' = [sessions EXCEPT ![i] = RowOf(b)]
            /\ CurrentIsUnique(sessions')

SameStatus(S, status) == {i \in Live(S) : S[i].status = status}

\* The branches of reconcile_book_sessions; b is the book object of the request.

\* Mutant: an open session does not follow the book's start date.
ReconcileOpenOnce(b) ==
    /\ b.status = Open
    /\ IF Current(sessions) # {} THEN sessions' = sessions
       ELSE \E i \in SessionIds :
               /\ NextId(sessions, i)
               /\ sessions' = [sessions EXCEPT ![i] = OpenRow(b.started)]

\* Mutant: the latest session is opened again instead of a new one.
ReconcileReopen(b) ==
    /\ b.status = Open
    /\ \E i \in SessionIds :
          /\ IF Live(sessions) = {} THEN NextId(sessions, i)
             ELSE IF Current(sessions) = {} THEN i = Latest(sessions, Live(sessions))
             ELSE i \in Current(sessions)
          /\ sessions' = [sessions EXCEPT ![i] = OpenRow(b.started)]

\* currently_reading: the current session follows the book, or a new one does.
ReconcileOpen(b) ==
    /\ b.status = Open
    /\ \E i \in SessionIds :
          /\ IF Current(sessions) = {} THEN NextId(sessions, i)
                                       ELSE i \in Current(sessions)
          /\ sessions' = [sessions EXCEPT ![i] = OpenRow(b.started)]

\* Mutant: the closed session stays the current one.
ReconcileCloseCurrent(b) ==
    /\ b.status \in Finished
    /\ \E i \in Current(sessions) :
          sessions' = [sessions EXCEPT ![i].status = b.status,
                                       ![i].finished = b.finished]

\* Finished with a current session: it takes the status and the finish date.
ReconcileClose(b) ==
    /\ b.status \in Finished
    /\ \E i \in Current(sessions) :
          sessions' = [sessions EXCEPT ![i].status = b.status,
                                       ![i].finished = b.finished,
                                       ![i].current = FALSE]

\* Finished without one: the latest session of that status takes the dates.
ReconcileLatest(b) ==
    /\ b.status \in Finished
    /\ Current(sessions) = {}
    /\ LET same == SameStatus(sessions, b.status) IN
       IF same # {}
       THEN sessions' = [sessions EXCEPT ![Latest(sessions, same)].started = b.started,
                                         ![Latest(sessions, same)].finished = b.finished]
       ELSE \E i \in SessionIds :
               /\ NextId(sessions, i)
               /\ sessions' = [sessions EXCEPT ![i] = RowOf(b)]

Reconcile(b) ==
    \/ b.status = "want_to_read" /\ sessions' = sessions
    \/ ReconcileOpen(b)
    \/ ReconcileClose(b)
    \/ ReconcileLatest(b)

-----------------------------------------------------------------------------
(* The requests on a book. *)
CreateBook(b) ==
    /\ book = Absent
    /\ ValidDates(b.started, b.finished)
    /\ book' = b
    /\ InitialSession(b)
    /\ UNCHANGED logged

\* The part of update_book after the cover download: loaded is the book as it
\* was read at the start of the request.
PatchFrom(loaded, p, auto) ==
    LET q   == Filled(loaded, p, FALSE, auto)
        new == Updated(loaded, q) IN
    /\ book # Absent
    /\ ValidDates(q.started, q.finished)
    /\ FinishKept(loaded, q, new.status, auto.finish)
    /\ book' = Changed(loaded, book, new)
    /\ Reconcile(new)
    /\ UNCHANGED logged

\* A PATCH without an external cover URL runs without a pause.
UpdateBook(p, auto) == PatchFrom(book, p, auto)

\* The three questions transition_status asks back instead of changing the book.
StartConflict(b, t, auto) ==
    /\ t.status = Open /\ b.status # Open /\ ~t.skip
    /\ b.started # NoDate
    /\ \/ t.start = NoDate /\ auto.start
       \/ b.finished # NoDate /\ t.start > b.finished

FinishConflict(b, t) ==
    /\ t.status \in Finished /\ t.status # b.status
    /\ b.finished # NoDate /\ t.finish = NoDate

OrderConflict(b, t, auto) ==
    /\ t.status = Open /\ b.status # Open /\ ~t.skip
    /\ b.started = NoDate /\ b.finished # NoDate
    /\ t.start = NoDate /\ auto.start

\* The payload transition_status builds once there is no conflict.
TransitionPayload(b, t) ==
    LET opens == t.status = Open /\ b.status # Open IN
    [status |-> t.status,
     started |-> IF t.start # NoDate THEN t.start
                 ELSE IF opens /\ t.clearStart THEN NoDate ELSE Keep,
     finished |->
        IF t.finish # NoDate THEN t.finish
        ELSE IF \/ opens /\ b.finished # NoDate /\ t.start > b.finished
                \/ t.clearFinish /\ t.status \notin {b.status, "read"}
        THEN NoDate ELSE Keep]

TransitionStatus(t, auto) ==
    /\ book # Absent
    /\ ~StartConflict(book, t, auto)
    /\ ~FinishConflict(book, t)
    /\ ~OrderConflict(book, t, auto)
    /\ LET q == Filled(book, TransitionPayload(book, t), t.skip, auto)
           new == Updated(book, q) IN
       /\ ValidDates(q.started, q.finished)
       /\ FinishKept(book, q, t.status, auto.finish)
       /\ book' = new
       /\ Reconcile(new)
    /\ UNCHANGED logged

\* Mutant: the progress log of a deleted book stays behind.
DeleteBookKeepingLog ==
    /\ book # Absent
    /\ book' = Absent
    /\ sessions' = [i \in SessionIds |-> Absent]
    /\ UNCHANGED logged

DeleteBook ==
    /\ book # Absent
    /\ book' = Absent
    /\ sessions' = [i \in SessionIds |-> Absent]
    /\ logged' = {}

-----------------------------------------------------------------------------
(* The requests on a book's sessions. *)

\* create_session: a past read; the book's own row is left alone.
AddPastSession(status, started, finished) ==
    /\ book # Absent
    /\ status = "read" => finished # NoDate
    /\ ValidDates(started, finished)
    /\ \E i \in SessionIds :
          /\ NextId(sessions, i)
          /\ sessions' = [sessions EXCEPT ![i] =
                [status |-> status, started |-> started, finished |-> finished,
                 current |-> FALSE]]
    /\ UNCHANGED <<book, logged>>

\* Mutant: a closed session is still flagged as the current one.
EditedCurrentRow(s, p) ==
    LET status   == GivenStatus(p.status, s.status)
        finished == Given(p.finished, s.finished) IN
    [status |-> status,
     started |-> Given(p.started, s.started),
     finished |-> IF status = Open THEN NoDate ELSE finished,
     current |-> s.current]

\* The row update_session would leave: closing the current session fills a
\* missing finish date, an open one carries none.
EditedRow(s, p) ==
    LET status   == GivenStatus(p.status, s.status)
        finished == Given(p.finished, s.finished) IN
    [status |-> status,
     started |-> Given(p.started, s.started),
     finished |-> IF status = Open THEN NoDate
                  ELSE IF s.current /\ finished = NoDate THEN Now ELSE finished,
     current |-> s.current /\ status = Open]

EditSession(i, p) ==
    /\ book # Absent
    /\ i \in Live(sessions)
    /\ p.status # "want_to_read"
    /\ LET s == sessions[i]
           e == EditedRow(s, p) IN
       /\ e.status = Open => s.current
       /\ e.status = "read" => e.finished # NoDate
       /\ ValidDates(e.started, e.finished)
       /\ sessions' = [sessions EXCEPT ![i] = e]
       /\ book' = IF s.current THEN Mirror(sessions', e.status) ELSE book
    /\ UNCHANGED logged

\* Mutant: the book keeps its status when its last session goes.
DeleteLastSession(i) ==
    /\ book # Absent
    /\ Live(sessions) = {i}
    /\ sessions' = [sessions EXCEPT ![i] = Absent]
    /\ logged' = {}
    /\ UNCHANGED book

\* delete_session, when it was the only one: the progress log goes as well.
DeleteOnlySession(i) ==
    /\ book # Absent
    /\ Live(sessions) = {i}
    /\ sessions' = [sessions EXCEPT ![i] = Absent]
    /\ book' = [status |-> "want_to_read", started |-> NoDate, finished |-> NoDate]
    /\ logged' = {}

\* Mutant: the latest session is always promoted.
PromotedAny(S) == [S EXCEPT ![Latest(S, Live(S))].current = TRUE]

\* The remaining rows after delete_session promoted the latest one, if open.
Promoted(S) ==
    LET l == Latest(S, Live(S)) IN
    IF S[l].status = Open THEN [S EXCEPT ![l].current = TRUE] ELSE S

\* Mutant: the progress log of the session stays behind.
DeleteSessionKeepingLog(i) ==
    /\ book # Absent
    /\ i \in Live(sessions)
    /\ LET rest == [sessions EXCEPT ![i] = Absent] IN
       /\ Live(rest) # {}
       /\ sessions' = Promoted(rest)
       /\ CurrentIsUnique(sessions')
       /\ book' = Mirror(sessions', rest[Latest(rest, Live(rest))].status)
    /\ UNCHANGED logged

\* delete_session, when others remain.
DeleteSession(i) ==
    /\ book # Absent
    /\ i \in Live(sessions)
    /\ LET rest == [sessions EXCEPT ![i] = Absent] IN
       /\ Live(rest) # {}
       /\ sessions' = Promoted(rest)
       /\ CurrentIsUnique(sessions')
       /\ book' = Mirror(sessions', rest[Latest(rest, Live(rest))].status)
    /\ logged' = logged \ {i}

\* Mutant: the session that is current stays current.
ReadAgainBeside(started) ==
    /\ book # Absent
    /\ book.status \in Finished
    /\ started <= Now
    /\ \E i \in SessionIds :
          /\ NextId(sessions, i)
          /\ sessions' = [sessions EXCEPT ![i] = OpenRow(started)]
    /\ book' = [status |-> Open, started |-> started, finished |-> NoDate]
    /\ UNCHANGED logged

\* start_read_again demotes every current session and opens a new one.
ReadAgain(started) ==
    /\ book # Absent
    /\ book.status \in Finished
    /\ started <= Now
    /\ LET from == IF started = NoDate THEN Now ELSE started IN
       /\ \E i \in SessionIds :
             /\ NextId(sessions, i)
             /\ sessions' = [j \in SessionIds |->
                   IF j = i THEN OpenRow(from)
                   ELSE IF j \in Current(sessions)
                   THEN [sessions[j] EXCEPT !.current = FALSE]
                   ELSE sessions[j]]
       /\ book' = [status |-> Open, started |-> from, finished |-> NoDate]
    /\ UNCHANGED logged

-----------------------------------------------------------------------------
(* The requests on the progress log. *)

\* The session create_progress_entry chooses when the client names none.
DefaultOwner ==
    IF Current(sessions) # {} THEN CHOOSE i \in Current(sessions) : TRUE
    ELSE IF Live(sessions) # {} THEN Latest(sessions, Live(sessions))
    ELSE NoSession

LogProgress(supplied) ==
    /\ book # Absent
    /\ \/ supplied \in Live(sessions) /\ logged' = logged \cup {supplied}
       \/ supplied = NoSession /\ logged' = logged \cup {DefaultOwner}
    /\ UNCHANGED <<book, sessions>>

\* delete_progress_entry may or may not remove the owner's last entry.
RemoveProgress(owner) ==
    /\ owner \in logged
    /\ logged' = logged \ {owner}
    /\ UNCHANGED <<book, sessions>>

-----------------------------------------------------------------------------

Init ==
    /\ book = Absent
    /\ sessions = [i \in SessionIds |-> Absent]
    /\ logged = {}

BookRequest ==
    \/ \E b \in NewBook : CreateBook(b)
    \/ \E p \in Payloads, auto \in AutoSettings : UpdateBook(p, auto)
    \/ \E t \in Transitions, auto \in AutoSettings : TransitionStatus(t, auto)
    \/ DeleteBook

SessionRequest ==
    \/ \E status \in Finished, started, finished \in InputDates :
          AddPastSession(status, started, finished)
    \/ \E i \in SessionIds, p \in Payloads : EditSession(i, p)
    \/ \E i \in SessionIds : DeleteOnlySession(i)
    \/ \E i \in SessionIds : DeleteSession(i)
    \/ \E started \in InputDates : ReadAgain(started)

ProgressRequest ==
    \/ \E owner \in Owners : LogProgress(owner)
    \/ \E owner \in SessionIds \cup {NoSession} : RemoveProgress(owner)

Next == BookRequest \/ SessionRequest \/ ProgressRequest

Spec == Init /\ [][Next]_vars

-----------------------------------------------------------------------------
(* Properties. *)

\* The rows have the columns of models.py; no date is ever in the future.
TypeOK ==
    /\ book \in BookRow \cup {Absent}
    /\ sessions \in [SessionIds -> SessionRow \cup {Absent}]
    /\ logged \in SUBSET (SessionIds \cup {NoSession})

\* A book has at most one current session.  reconcile_book_sessions and
\* start_read_again keep it so themselves: they must never run into the index.
AtMostOneCurrent == CurrentIsUnique(sessions)

\* A session that is flagged current is one that is being read: closing,
\* editing, deleting and promoting never leave the flag on a finished read.
CurrentIsOpen == \A i \in Current(sessions) : sessions[i].status = Open

\* A book shown as currently_reading has a current session, and the book's
\* start date is that session's, whichever request put the book there.
ReadingShowsItsSession ==
    book # Absent /\ book.status = Open =>
        \E i \in Current(sessions) : sessions[i].started = book.started

\* A book that was started or finished has a session to show for it, so
\* statistics, which count sessions, never miss it.
StartedHasSession ==
    book # Absent /\ book.status # "want_to_read" => Live(sessions) # {}

\* delete_book leaves no session and no progress entry behind: nothing in the
\* database would remove them, and a later book may get the same id.
NothingOutlivesBook == book = Absent => Live(sessions) = {} /\ logged = {}

\* Every entry of the progress log that names a session names an existing one.
ProgressHasSession == logged \subseteq Live(sessions) \cup {NoSession}

\* A completed read stays closed: no request turns a session that is read or
\* did_not_finish into one that is being read (delete_session promotes open
\* sessions only).
StaysClosed ==
    \A i \in Live(sessions) :
        /\ sessions[i].status \in Finished
        /\ sessions'[i] # Absent
        => sessions'[i].status \in Finished /\ ~sessions'[i].current

FinishedStaysClosed == [][StaysClosed]_vars

\* A book that is finished although a session of it is still being read is
\* reached in one way only: delete_session takes the book's status from the
\* latest of the remaining sessions, which need not be the current one.
OpenBesideFinished ==
    book # Absent /\ book.status \in Finished /\ Current(sessions) # {}

OnlyDeleteHidesOpen ==
    OpenBesideFinished' /\ ~OpenBesideFinished =>
        \E i \in Live(sessions) : sessions'[i] = Absent

OpenHiddenOnlyByDelete == [][OnlyDeleteHidesOpen]_vars

\* The book's row is that of one of its reads.
BookShowsARead ==
    \E i \in Live(sessions) :
        /\ sessions[i].status = book.status
        /\ sessions[i].started = book.started
        /\ sessions[i].finished = book.finished

\* What the comment in reconcile_book_sessions promises: a PATCH that names no
\* status and no date, a rating say, never rewrites a finished read.  It is
\* asked only where the book shows the dates of one of its reads: a PATCH that
\* finishes a book gives its session the finish date and not a start date that
\* came with it, which leaves the two at odds.
UnrelatedEditKeepsHistory ==
    [][\A auto \in AutoSettings :
         /\ book # Absent /\ BookShowsARead
         /\ UpdateBook([status |-> KeepStatus, started |-> Keep, finished |-> Keep], auto)
         => \A i \in Live(sessions) \ Current(sessions) : sessions'[i] = sessions[i]]_vars
=============================================================================
