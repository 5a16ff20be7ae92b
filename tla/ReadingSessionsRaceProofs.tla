---------------------- MODULE ReadingSessionsRaceProofs ----------------------
(***************************************************************************)
(* What is left of the consistency of a book and its sessions when a PATCH *)
(* may wait for a cover and a creation may stop half-way.  The book no     *)
(* longer fits its sessions: a row may be merged from two requests, and    *)
(* sessions may be there for a book that is not.  So no step can rely on   *)
(* the book.  What it can rely on are the sessions alone, and this is      *)
(* enough for the flag of the current session, for any number of sessions, *)
(* dates and requests.                                                     *)
(***************************************************************************)
EXTENDS ReadingSessionsRace, ReadingSessionsProofs

\* A table that is sound by itself, whatever the book says.
Sound(S) ==
    /\ S \in Table
    /\ CurrentIsUnique(S)
    /\ \A i \in Current(S) : S[i].status = Open

\* The inductive invariant.
RaceInv ==
    /\ TypeOK
    /\ loaded \in BookRow \cup {Absent}
    /\ Sound(sessions)

\* What is proved of every request, the waiting PATCH apart.
SoundStep == TypeOK' /\ Sound(sessions') /\ StaysClosed

-----------------------------------------------------------------------------
(* The table alone. *)

\* What the invariant says, in the forms the lemmas use.
LEMMA RaceTables ==
    ASSUME RaceInv
    PROVE  /\ sessions \in Table /\ AtMostOneCurrent /\ CurrentIsOpen
           /\ CurrentIsUnique(sessions)
           /\ \A i \in Current(sessions) : sessions[i].status = Open
           /\ book # Absent => book \in BookRow
           /\ loaded # Absent => loaded \in BookRow
           /\ logged \in SUBSET (SessionIds \cup {NoSession})
BY DEF RaceInv, Sound, AtMostOneCurrent, CurrentIsOpen, TypeOK

\* A table that fits some book is sound.
LEMMA FitIsSound == ASSUME NEW S, NEW b, Fits(S, b) PROVE Sound(S)
BY DEF Fits, Sound

\* The types of the other two variables make a step whose sessions are sound
\* a sound step.
LEMMA SoundTypes ==
    ASSUME Sound(sessions'), StaysClosed,
           book' \in BookRow \cup {Absent},
           logged' \in SUBSET (SessionIds \cup {NoSession})
    PROVE  SoundStep
BY DEF SoundStep, Sound, TypeOK, Table

\* A row is inserted that is not current, or is when no other is; the rows that
\* are there stay as they are.
LEMMA InsertionSound ==
    ASSUME RaceInv, NEW i \in SessionIds, NextId(sessions, i),
           NEW r \in SessionRow, r.current => r.status = Open,
           Put(sessions, sessions', i, r),
           r.current => Current(sessions) = {}
    PROVE  Sound(sessions') /\ StaysClosed
<1> DEFINE b == [status |-> "want_to_read"]
<1>1. b.status # Open
  BY StatusesDiffer
<1> HIDE DEF b
<1>2. /\ sessions \in Table
      /\ CurrentIsUnique(sessions)
      /\ \A j \in Current(sessions) : sessions[j].status = Open
  BY RaceTables
<1>3. Fits(sessions', b)
  BY <1>1, <1>2, InsertionFits
<1>4. Live(sessions) \subseteq Live(sessions')
      /\ \A j \in Live(sessions) : sessions'[j] = sessions[j]
  BY <1>2, Insertion
<1>5. StaysClosed
  BY <1>2, <1>4, StatusesDiffer DEF StaysClosed, Current
<1> QED
  BY <1>3, <1>5, FitIsSound

-----------------------------------------------------------------------------
(* The requests of ReadingSessions. *)

\* create_book may find sessions that a late PATCH left for its id: the index
\* refuses a second current one.
LEMMA CreateBookSound ==
    ASSUME RaceInv, NEW b \in NewBook, CreateBook(b)
    PROVE  SoundStep
<1>1. b \in BookRow /\ book' = b /\ logged' = logged
  BY MaxDateAssumption
     DEF CreateBook, NewBook, BookRow, ValidDates, InputDates, Dates, Now
<1>2. CASE b.status = "want_to_read"
  <2>1. sessions' = sessions
    BY <1>2 DEF CreateBook, InitialSession
  <2>2. Sound(sessions') /\ StaysClosed
    BY <2>1, RaceTables, StatusesDiffer DEF Sound, StaysClosed, Current
  <2> QED
    BY <1>1, <2>2, RaceTables, SoundTypes
<1>3. CASE b.status # "want_to_read"
  <2>1. PICK i \in SessionIds :
            /\ NextId(sessions, i)
            /\ Put(sessions, sessions', i, RowOf(b))
            /\ CurrentIsUnique(sessions')
    BY <1>3 DEF CreateBook, InitialSession, Put
  <2>2. /\ RowOf(b) \in SessionRow
        /\ RowOf(b).current => RowOf(b).status = Open
    BY <1>1, <1>3 DEF RowOf, SessionRow, BookRow, Status
  <2>3. /\ sessions' \in Table
        /\ i \notin Live(sessions)
        /\ Current(sessions') = IF RowOf(b).current THEN Current(sessions) \cup {i}
                                                    ELSE Current(sessions)
    BY <2>1, <2>2, RaceTables, Insertion
  <2>4. RowOf(b).current => Current(sessions) = {}
    BY <2>1, <2>3 DEF CurrentIsUnique, Current
  <2>5. Sound(sessions') /\ StaysClosed
    BY <2>1, <2>2, <2>4, InsertionSound
  <2> QED
    BY <1>1, <2>5, RaceTables, SoundTypes
<1> QED
  BY <1>2, <1>3

\* The second half of a PATCH: the sessions follow the row of the request, and
\* the book is merged from that row and the one there is by now.
LEMMA PatchSound ==
    ASSUME RaceInv, NEW old \in BookRow, NEW p \in Payloads,
           NEW auto \in AutoSettings, PatchFrom(old, p, auto)
    PROVE  SoundStep
<1> DEFINE q   == Filled(old, p, FALSE, auto)
           new == Updated(old, q)
<1>1. /\ book # Absent
      /\ ValidDates(q.started, q.finished)
      /\ book' = Changed(old, book, new)
      /\ Reconcile(new)
      /\ UNCHANGED logged
  BY DEF PatchFrom
<1>2. p \in Payload /\ auto \in Automation
  BY RequestAssumption
<1>3. new \in BookRow
  BY <1>1, <1>2, UpdateTypes
<1> HIDE DEF q, new
<1>4. book' \in BookRow
  BY <1>1, <1>3, RaceTables DEF Changed, BookRow
<1>5. Fits(sessions', new) /\ StaysClosed
  BY <1>1, <1>3, RaceTables, ReconcileFits
<1> QED
  BY <1>1, <1>4, <1>5, FitIsSound, RaceTables, SoundTypes

\* transition_status, once it has no conflict to report.
LEMMA TransitionSound ==
    ASSUME RaceInv, NEW t \in Transitions, NEW auto \in AutoSettings,
           TransitionStatus(t, auto)
    PROVE  SoundStep
<1> DEFINE p   == TransitionPayload(book, t)
           q   == Filled(book, p, t.skip, auto)
           new == Updated(book, q)
<1>1. /\ book # Absent
      /\ ValidDates(q.started, q.finished)
      /\ book' = new
      /\ Reconcile(new)
      /\ UNCHANGED logged
  BY DEF TransitionStatus
<1>2. book \in BookRow
  BY <1>1, RaceTables
<1>3. t \in Transition /\ auto \in Automation
  BY RequestAssumption
<1>4. p \in Payload /\ t.skip \in BOOLEAN
  BY <1>3, MaxDateAssumption
     DEF TransitionPayload, Transition, Payload, InputDates, NoDate, Keep
<1>5. new \in BookRow
  BY <1>1, <1>2, <1>3, <1>4, UpdateTypes
<1> HIDE DEF new
<1>6. Fits(sessions', new) /\ StaysClosed
  BY <1>1, <1>5, RaceTables, ReconcileFits
<1> QED
  BY <1>1, <1>5, <1>6, FitIsSound, RaceTables, SoundTypes

\* delete_book leaves an empty table.
LEMMA DeleteBookSound ==
    ASSUME RaceInv, DeleteBook
    PROVE  SoundStep
<1>1. \A i \in SessionIds : sessions'[i] = Absent
  BY DEF DeleteBook
<1>2. Live(sessions') = {} /\ Current(sessions') = {}
  BY <1>1 DEF Live, Current
<1>3. Sound(sessions')
  BY <1>2 DEF DeleteBook, Sound, Table, CurrentIsUnique
<1>4. StaysClosed
  BY <1>1 DEF StaysClosed, Live
<1> QED
  BY <1>3, <1>4, SoundTypes DEF DeleteBook

\* create_session adds a closed session.
LEMMA AddPastSessionSound ==
    ASSUME RaceInv, NEW status \in Finished,
           NEW started \in InputDates, NEW finished \in InputDates,
           AddPastSession(status, started, finished)
    PROVE  SoundStep
<1> DEFINE r == [status |-> status, started |-> started, finished |-> finished,
                 current |-> FALSE]
<1>1. PICK i \in SessionIds :
          NextId(sessions, i) /\ Put(sessions, sessions', i, r)
  BY DEF AddPastSession, Put
<1>2. book \in BookRow /\ UNCHANGED <<book, logged>>
  BY RaceTables DEF AddPastSession
<1>3. r \in SessionRow /\ r.current = FALSE
  BY MaxDateAssumption
     DEF AddPastSession, ValidDates, SessionRow, InputDates, Dates, Now
<1> HIDE DEF r
<1>4. Sound(sessions') /\ StaysClosed
  BY <1>1, <1>3, InsertionSound
<1> QED
  BY <1>2, <1>4, RaceTables, SoundTypes

\* update_session keeps the flag only on a session that is being read, and
\* lets no other session be.
LEMMA EditSessionSound ==
    ASSUME RaceInv, NEW i \in SessionIds, NEW p \in Payloads, EditSession(i, p)
    PROVE  SoundStep
<1> DEFINE s == sessions[i]
           e == EditedRow(s, p)
<1>1. /\ book # Absent
      /\ i \in Live(sessions)
      /\ e.status = Open => s.current
      /\ ValidDates(e.started, e.finished)
      /\ sessions' = [sessions EXCEPT ![i] = e]
      /\ book' = IF s.current THEN Mirror(sessions', e.status) ELSE book
      /\ UNCHANGED logged
  BY DEF EditSession
<1>2. p \in Payload /\ p.status # "want_to_read" /\ s \in SessionRow
  BY <1>1, RequestAssumption, RaceTables DEF EditSession, Live, Table
<1>3. e \in SessionRow
  <2>1. e.status \in {Open} \cup Finished
    BY <1>2 DEF EditedRow, GivenStatus, Payload, Status, SessionRow
  <2>2. e.started \in InputDates \cup Dates /\ e.finished \in InputDates \cup Dates
    BY <1>2, MaxDateAssumption
       DEF EditedRow, Given, Payload, SessionRow, InputDates, Dates, Now, NoDate, Keep
  <2>3. e.started \in Dates /\ e.finished \in Dates
    BY <1>1, <2>2, MaxDateAssumption DEF ValidDates, InputDates, Dates, Now
  <2>4. e.current \in BOOLEAN
    BY DEF EditedRow
  <2> QED
    BY <2>1, <2>3, <2>4 DEF EditedRow, SessionRow
<1>4. e.current <=> s.current /\ e.status = Open
  BY DEF EditedRow
<1>5. i \in Live(sessions) /\ sessions \in Table /\ Put(sessions, sessions', i, e)
  BY <1>1, RaceTables DEF Put
<1> HIDE DEF e, s
<1>6. i \in Current(sessions) <=> s.current
  BY <1>1 DEF Current, s
<1>7. /\ sessions' \in Table
      /\ Live(sessions') = Live(sessions)
      /\ Current(sessions') = IF e.current THEN Current(sessions) \cup {i}
                                           ELSE Current(sessions) \ {i}
      /\ sessions'[i] = e
      /\ \A j \in Live(sessions) \ {i} : sessions'[j] = sessions[j]
  BY <1>3, <1>5, Replacement
<1>8. Sound(sessions')
  <2>1. Current(sessions') \subseteq Current(sessions)
    BY <1>4, <1>6, <1>7
  <2>2. \A j \in Current(sessions') : sessions'[j].status = Open
    BY <1>4, <1>7, <2>1, RaceTables DEF Current
  <2> QED
    BY <1>7, <2>1, <2>2, RaceTables DEF Sound, CurrentIsUnique
<1>9. StaysClosed
  <2>1. ASSUME NEW j \in Live(sessions), sessions[j].status \in Finished
        PROVE  sessions'[j].status \in Finished /\ ~sessions'[j].current
    <3>1. j \notin Current(sessions)
      BY <2>1, RaceTables, StatusesDiffer
    <3>2. CASE j = i
      BY <3>1, <3>2, <1>1, <1>3, <1>4, <1>6, <1>7 DEF SessionRow
    <3>3. CASE j # i
      BY <2>1, <3>1, <3>3, <1>7 DEF Current
    <3> QED
      BY <3>2, <3>3
  <2> QED
    BY <2>1 DEF StaysClosed
<1>10. book' \in BookRow
  <2>1. e.status \in Status /\ sessions' \in Table /\ CurrentIsUnique(sessions')
    BY <1>3, <1>8 DEF SessionRow, Status, Sound
  <2>2. Mirror(sessions', e.status) \in BookRow
    BY <2>1, MirrorTypes
  <2> QED
    BY <1>1, <2>2, RaceTables
<1> QED
  BY <1>1, <1>8, <1>9, <1>10, RaceTables, SoundTypes

\* delete_session on the only session resets the book.
LEMMA DeleteOnlySessionSound ==
    ASSUME RaceInv, NEW i \in SessionIds, DeleteOnlySession(i)
    PROVE  SoundStep
<1>1. i \in Live(sessions) /\ sessions \in Table /\ Put(sessions, sessions', i, Absent)
  BY RaceTables DEF DeleteOnlySession, Put
<1>2. /\ sessions' \in Table
      /\ sessions'[i] = Absent
      /\ Current(sessions') = {}
  <2>1. Live(sessions) = {i} /\ Current(sessions) \subseteq {i}
    BY DEF DeleteOnlySession, Current
  <2> QED
    BY <1>1, <2>1, Removal
<1>3. book' \in BookRow /\ logged' = {}
  BY MaxDateAssumption DEF DeleteOnlySession, BookRow, Status, Dates, NoDate
<1>4. Sound(sessions')
  BY <1>2 DEF Sound, CurrentIsUnique
<1>5. StaysClosed
  BY <1>2 DEF StaysClosed, DeleteOnlySession
<1> QED
  BY <1>3, <1>4, <1>5, SoundTypes

\* delete_session with sessions remaining: the promotion flags one that is
\* being read, or none, and the index refuses a second flag.
LEMMA DeleteSessionSound ==
    ASSUME RaceInv, NEW i \in SessionIds, DeleteSession(i)
    PROVE  SoundStep
<1> DEFINE rest == [sessions EXCEPT ![i] = Absent]
           l    == Latest(rest, Live(rest))
<1>1. /\ i \in Live(sessions)
      /\ Live(rest) # {}
      /\ sessions' = Promoted(rest)
      /\ CurrentIsUnique(sessions')
      /\ book' = Mirror(sessions', rest[l].status)
      /\ logged' = logged \ {i}
  BY DEF DeleteSession
<1>2. sessions \in Table /\ Put(sessions, rest, i, Absent)
  BY RaceTables DEF Put
<1> HIDE DEF rest
<1>3. /\ rest \in Table
      /\ rest[i] = Absent
      /\ Live(rest) = Live(sessions) \ {i}
      /\ Current(rest) = Current(sessions) \ {i}
      /\ \A j \in Live(rest) : rest[j] = sessions[j]
  BY <1>1, <1>2, Removal
<1>4. \A j \in Current(rest) : rest[j].status = Open
  BY <1>3, RaceTables DEF Current
<1>5. LatestPromoted(rest, sessions', l)
  BY <1>1 DEF LatestPromoted
<1> HIDE DEF l
<1>6. /\ sessions' \in Table
      /\ l \in Live(rest)
      /\ Live(sessions') = Live(rest)
      /\ \A j \in Live(rest) : sessions'[j].status = rest[j].status
      /\ Current(sessions') = IF rest[l].status = Open THEN Current(rest) \cup {l}
                                                       ELSE Current(rest)
  BY <1>1, <1>3, <1>5, Promotion
<1>7. book' \in BookRow
  <2>1. rest[l].status \in Status
    BY <1>3, <1>6 DEF Table, Live, SessionRow, Status
  <2> QED
    BY <1>1, <1>6, <2>1, MirrorTypes
<1>8. \A j \in Current(sessions') : j \in Live(rest) /\ sessions'[j].status = Open
  BY <1>4, <1>6 DEF Current
<1>9. Sound(sessions')
  BY <1>1, <1>6, <1>8 DEF Sound
<1>10. StaysClosed
  <2>1. ASSUME NEW j \in Live(rest), sessions[j].status \in Finished
        PROVE  sessions'[j].status \in Finished /\ ~sessions'[j].current
    <3>1. sessions'[j].status \in Finished
      BY <2>1, <1>3, <1>6
    <3>2. j \notin Current(sessions')
      BY <3>1, <1>8, StatusesDiffer
    <3> QED
      BY <3>1, <3>2, <1>6 DEF Current
  <2>2. ASSUME NEW j \in Live(sessions), sessions'[j] # Absent
        PROVE  j \in Live(rest)
    BY <2>2, <1>6 DEF Live
  <2> QED
    BY <2>1, <2>2 DEF StaysClosed
<1> QED
  BY <1>1, <1>7, <1>9, <1>10, RaceTables, SoundTypes

\* start_read_again leaves the new session as the only current one.
LEMMA ReadAgainSound ==
    ASSUME RaceInv, NEW started \in InputDates, ReadAgain(started)
    PROVE  SoundStep
<1> DEFINE from == IF started = NoDate THEN Now ELSE started
<1>1. /\ book' = [status |-> Open, started |-> from, finished |-> NoDate]
      /\ UNCHANGED logged
  BY DEF ReadAgain
<1>2. PICK i \in SessionIds :
          /\ NextId(sessions, i)
          /\ sessions' = [j \in SessionIds |->
                IF j = i THEN OpenRow(from)
                ELSE IF j \in Current(sessions)
                THEN [sessions[j] EXCEPT !.current = FALSE]
                ELSE sessions[j]]
  BY DEF ReadAgain
<1>3. from \in Dates /\ NoDate \in Dates
  BY MaxDateAssumption DEF ReadAgain, InputDates, Dates, Now, NoDate
<1> HIDE DEF from
<1>4. /\ OpenRow(from) \in SessionRow /\ OpenRow(from).current
      /\ OpenRow(from).status = Open
  BY <1>3 DEF OpenRow, SessionRow
<1>5. book' \in BookRow
  BY <1>1, <1>3 DEF BookRow, Status
<1>6. i \notin Live(sessions)
  BY <1>2 DEF NextId, SessionIds
<1>7. ASSUME NEW j \in Live(sessions)
      PROVE  /\ sessions'[j] \in SessionRow
             /\ ~sessions'[j].current
             /\ sessions'[j].status = sessions[j].status
  <2>1. j \in SessionIds /\ j # i /\ sessions[j] \in SessionRow
    BY <1>6, RaceTables DEF Live, Table
  <2>2. CASE j \in Current(sessions)
    BY <1>2, <2>1, <2>2 DEF SessionRow
  <2>3. CASE j \notin Current(sessions)
    BY <1>2, <2>1, <2>3 DEF SessionRow, Current
  <2> QED
    BY <2>2, <2>3
<1>8. sessions'[i] = OpenRow(from)
  BY <1>2
<1>9. \A j \in SessionIds \ (Live(sessions) \cup {i}) : sessions'[j] = Absent
  BY <1>2 DEF Live, Current
<1>10. sessions' \in Table
  <2>1. \A j \in SessionIds : sessions'[j] \in SessionRow \cup {Absent}
    BY <1>4, <1>7, <1>8, <1>9
  <2> QED
    BY <1>2, <2>1 DEF Table
<1>11. Current(sessions') = {i}
  <2>1. Live(sessions') = Live(sessions) \cup {i}
    BY <1>4, <1>7, <1>8, <1>9, RowsExist DEF Live
  <2> QED
    BY <1>4, <1>7, <1>8, <2>1 DEF Current
<1>12. Sound(sessions')
  BY <1>4, <1>8, <1>10, <1>11 DEF Sound, CurrentIsUnique
<1>13. StaysClosed
  BY <1>7 DEF StaysClosed
<1> QED
  BY <1>1, <1>5, <1>12, <1>13, RaceTables, SoundTypes

\* A step that leaves the sessions alone.
LEMMA SessionsKept ==
    ASSUME RaceInv, sessions' = sessions,
           book' \in BookRow \cup {Absent},
           logged' \in SUBSET (SessionIds \cup {NoSession})
    PROVE  SoundStep
<1>1. Sound(sessions')
  BY RaceTables DEF Sound
<1>2. StaysClosed
  BY RaceTables, StatusesDiffer DEF StaysClosed, Current
<1> QED
  BY <1>1, <1>2, SoundTypes

\* The requests on the progress log.
LEMMA ProgressSound ==
    ASSUME RaceInv, ProgressRequest
    PROVE  SoundStep
<1>1. DefaultOwner \in Live(sessions) \cup {NoSession}
  BY LatestExists, RaceTables DEF DefaultOwner, Current, Table
<1>2. /\ UNCHANGED <<book, sessions>>
      /\ logged' \in SUBSET (SessionIds \cup {NoSession})
  BY <1>1, RaceTables DEF ProgressRequest, LogProgress, RemoveProgress, Live
<1>3. book' \in BookRow \cup {Absent}
  BY <1>2 DEF RaceInv, TypeOK
<1> QED
  BY <1>2, <1>3, SessionsKept

\* Any request that does not wait.
LEMMA NextSound ==
    ASSUME RaceInv, Next
    PROVE  SoundStep
<1>1. ASSUME NEW p \in Payloads, NEW auto \in AutoSettings, UpdateBook(p, auto)
      PROVE  SoundStep
  <2>1. PatchFrom(book, p, auto) /\ book \in BookRow
    BY <1>1, RaceTables DEF UpdateBook, PatchFrom
  <2> QED
    BY <2>1, PatchSound
<1>2. CASE BookRequest
  BY <1>1, <1>2, CreateBookSound, TransitionSound, DeleteBookSound DEF BookRequest
<1>3. CASE SessionRequest
  BY <1>3, AddPastSessionSound, EditSessionSound, DeleteOnlySessionSound,
     DeleteSessionSound, ReadAgainSound DEF SessionRequest
<1>4. CASE ProgressRequest
  BY <1>4, ProgressSound
<1> QED
  BY <1>2, <1>3, <1>4 DEF Next

-----------------------------------------------------------------------------
(* The steps of the race. *)

\* A PATCH that ends after its book was deleted leaves a session behind, but a
\* sound table.
LEMMA PatchDeletedSound ==
    ASSUME RaceInv, NEW p \in Payloads, NEW auto \in AutoSettings,
           PatchDeleted(p, auto)
    PROVE  SoundStep
<1>1. loaded \in BookRow /\ Reconcile(loaded) /\ UNCHANGED <<book, logged>>
  BY RaceTables DEF PatchDeleted
<1>2. Fits(sessions', loaded) /\ StaysClosed
  BY <1>1, RaceTables, ReconcileFits
<1>3. book' \in BookRow \cup {Absent}
  BY <1>1 DEF RaceInv, TypeOK
<1> QED
  BY <1>1, <1>2, <1>3, FitIsSound, RaceTables, SoundTypes

\* A creation that stops after its first commit.
LEMMA CreateBookOnlySound ==
    ASSUME RaceInv, NEW b \in NewBook, CreateBookOnly(b)
    PROVE  SoundStep
<1>1. b \in BookRow /\ book' = b /\ UNCHANGED <<sessions, logged>>
  BY MaxDateAssumption
     DEF CreateBookOnly, NewBook, BookRow, ValidDates, InputDates, Dates, Now
<1> QED
  BY <1>1, RaceTables, SessionsKept

\* Every step of the race is sound and keeps the type of the loaded row.
LEMMA RaceStepSound ==
    ASSUME RaceInv, [RaceNext]_raceVars
    PROVE  RaceInv' /\ StaysClosed
<1>1. ASSUME SoundStep, loaded' \in BookRow \cup {Absent}
      PROVE  RaceInv' /\ StaysClosed
  BY <1>1 DEF SoundStep, RaceInv
<1>2. book \in BookRow \cup {Absent} /\ loaded \in BookRow \cup {Absent}
  BY DEF RaceInv, TypeOK
<1>3. CASE OtherRequest
  <2>1. SoundStep
    BY <1>3, NextSound, CreateBookOnlySound DEF OtherRequest
  <2> QED
    BY <1>1, <1>2, <1>3, <2>1 DEF OtherRequest
<1>4. ASSUME UNCHANGED <<book, sessions, logged>>, loaded' \in BookRow \cup {Absent}
      PROVE  RaceInv' /\ StaysClosed
  <2>1. SoundStep
    BY <1>2, <1>4, RaceTables, SessionsKept
  <2> QED
    BY <1>1, <1>4, <2>1
<1>5. CASE BeginPatch
  BY <1>2, <1>4, <1>5 DEF BeginPatch
<1>6. CASE FailPatch
  BY <1>4, <1>6 DEF FailPatch
<1>7. CASE UNCHANGED raceVars
  BY <1>2, <1>4, <1>7 DEF raceVars
<1>8. ASSUME NEW p \in Payloads, NEW auto \in AutoSettings, FinishPatch(p, auto)
      PROVE  RaceInv' /\ StaysClosed
  <2>1. /\ loaded \in BookRow
        /\ PatchFrom(loaded, p, auto)
        /\ loaded' = Absent
    BY <1>8, RaceTables DEF FinishPatch
  <2>2. SoundStep
    BY <2>1, PatchSound
  <2> QED
    BY <1>1, <2>1, <2>2
<1>9. ASSUME NEW p \in Payloads, NEW auto \in AutoSettings, PatchDeleted(p, auto)
      PROVE  RaceInv' /\ StaysClosed
  <2>1. SoundStep
    BY <1>9, PatchDeletedSound
  <2> QED
    BY <1>1, <1>9, <2>1 DEF PatchDeleted
<1> QED
  BY <1>3, <1>5, <1>6, <1>7, <1>8, <1>9 DEF RaceNext

-----------------------------------------------------------------------------
(* The theorems. *)

\* The invariant holds in every state of the race.
THEOREM RaceInvariant == RaceSpec => []RaceInv
<1>1. RaceInit => RaceInv
  <2> SUFFICES ASSUME RaceInit PROVE RaceInv
    OBVIOUS
  <2>1. Live(sessions) = {} /\ Current(sessions) = {}
    BY DEF RaceInit, Init, Live, Current
  <2> QED
    BY <2>1 DEF RaceInit, Init, RaceInv, TypeOK, Sound, Table, CurrentIsUnique
<1>2. RaceInv /\ [RaceNext]_raceVars => RaceInv'
  BY RaceStepSound
<1> QED
  BY <1>1, <1>2, PTL DEF RaceSpec

\* However a late PATCH, a book without its session and all other requests
\* overlap, a book has at most one current session.
THEOREM RaceAtMostOneCurrent == RaceSpec => []AtMostOneCurrent
<1>1. RaceInv => AtMostOneCurrent
  BY RaceTables
<1> QED
  BY <1>1, RaceInvariant, PTL

\* The session with the flag is one that is being read, although the PATCH that
\* set it may have decided by a row of long ago.
THEOREM RaceCurrentIsOpen == RaceSpec => []CurrentIsOpen
<1>1. RaceInv => CurrentIsOpen
  BY RaceTables
<1> QED
  BY <1>1, RaceInvariant, PTL

\* No late PATCH reopens a finished read.
THEOREM RaceKeepsFinishedClosed == RaceSpec => FinishedStaysClosed
<1>1. RaceInv /\ [RaceNext]_raceVars => [StaysClosed]_vars
  BY RaceStepSound
<1> QED
  BY <1>1, RaceInvariant, PTL DEF RaceSpec, FinishedStaysClosed
=============================================================================
