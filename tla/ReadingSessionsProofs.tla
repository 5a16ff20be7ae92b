------------------------ MODULE ReadingSessionsProofs ------------------------
(***************************************************************************)
(* What every sequence of requests on a book keeps true, for any number of *)
(* sessions and dates and any set of requests.                             *)
(***************************************************************************)
EXTENDS ReadingSessions, WellFoundedInduction, TLAPS

-----------------------------------------------------------------------------
(* Lemmas about the operators of the model. *)

\* Every set of natural numbers has a least element.
LEMMA LeastElement ==
    ASSUME NEW T \in SUBSET Nat, T # {}
    PROVE  \E x \in T : \A y \in T : x <= y
<1> DEFINE less == OpToRel(<, Nat)
<1>1. PICK x \in T : \A y \in T : <<y, x>> \notin less
  <2>1. IsWellFoundedOn(less, Nat)
    BY NatLessThanWellFounded
  <2> HIDE DEF less
  <2> QED
    BY <2>1, WFMin
<1>2. \A y \in T : ~ (y < x)
  BY <1>1 DEF OpToRel
<1> QED
  BY <1>2

\* Among rows that exist there is a latest one, so that the head of
\* sessions_for_book is well defined.
LEMMA LatestExists ==
    ASSUME NEW S \in [SessionIds -> SessionRow \cup {Absent}],
           NEW ids \in SUBSET Live(S), ids # {}
    PROVE  Latest(S, ids) \in ids
<1>1. ids \subseteq SessionIds /\ \A i \in ids : S[i] \in SessionRow
  BY DEF Live
<1>2. \A i \in ids : ReadingDate(S[i]) \in 0 .. MaxDate
  BY <1>1, MaxDateAssumption DEF ReadingDate, SessionRow, Dates
<1> DEFINE age(i) == MaxDate - ReadingDate(S[i])
           ages == {age(i) : i \in ids}
<1>3. ages \in SUBSET Nat /\ ages # {}
  BY <1>2, MaxDateAssumption
<1>4. PICK youngest \in ages : \A a \in ages : youngest <= a
  BY <1>3, LeastElement
<1> DEFINE rest == {MaxSession - i : i \in {j \in ids : age(j) = youngest}}
<1>5. rest \in SUBSET Nat /\ rest # {}
  BY <1>1, <1>4, MaxSessionAssumption DEF SessionIds
<1>6. PICK last \in rest : \A r \in rest : last <= r
  BY <1>5, LeastElement
<1>7. PICK i \in ids : age(i) = youngest /\ last = MaxSession - i
  BY <1>6
<1>8. ASSUME NEW j \in ids \ {i}
      PROVE  \/ ReadingDate(S[i]) > ReadingDate(S[j])
             \/ ReadingDate(S[i]) = ReadingDate(S[j]) /\ i > j
  <2>1. age(i) <= age(j)
    BY <1>4, <1>7
  <2>2. CASE age(i) < age(j)
    BY <2>2, <1>2, MaxDateAssumption
  <2>3. CASE age(i) = age(j)
    <3>1. MaxSession - i <= MaxSession - j
      BY <2>3, <1>6, <1>7
    <3>2. ReadingDate(S[i]) = ReadingDate(S[j])
      BY <2>3, <1>2, MaxDateAssumption
    <3> QED
      BY <3>1, <3>2, <1>1, MaxSessionAssumption DEF SessionIds
  <2> QED
    BY <2>1, <2>2, <2>3, <1>2, MaxDateAssumption
<1> HIDE DEF age, ages, rest
<1> QED
  BY <1>8 DEF Latest

Table == [SessionIds -> SessionRow \cup {Absent}]

\* A table that fits a book: the invariants as they relate the two.
Fits(S, b) ==
    /\ S \in Table
    /\ CurrentIsUnique(S)
    /\ \A i \in Current(S) : S[i].status = Open
    /\ b.status = Open => \E i \in Current(S) : S[i].started = b.started
    /\ b.status # "want_to_read" => Live(S) # {}

\* A row is never the sentinel for no row.
LEMMA RowsExist == Absent \notin BookRow /\ Absent \notin SessionRow
BY AbsentAssumption

\* The statuses are different.
LEMMA StatusesDiffer ==
    /\ Open \notin Finished
    /\ "want_to_read" \notin Finished
    /\ Open # "want_to_read"
BY DEF Open, Finished

\* T is S with the row r at i.
Put(S, T, i, r) == T = [S EXCEPT ![i] = r]

\* What an insertion at the next id does to a table.
LEMMA Insertion ==
    ASSUME NEW S \in Table, NEW i \in SessionIds, NextId(S, i),
           NEW r \in SessionRow,
           NEW T, Put(S, T, i, r)
    PROVE  /\ T \in Table
           /\ i \notin Live(S)
           /\ Live(T) = Live(S) \cup {i}
           /\ Current(T) = IF r.current THEN Current(S) \cup {i} ELSE Current(S)
           /\ T[i] = r
           /\ \A j \in Live(S) : T[j] = S[j]
<1>1. i \notin Live(S)
  BY DEF NextId, SessionIds
<1>2. T \in Table /\ T[i] = r /\ \A j \in SessionIds \ {i} : T[j] = S[j]
  BY DEF Table, Put
<1>3. Live(T) = Live(S) \cup {i}
  BY <1>2, RowsExist DEF Live
<1>4. \A j \in Live(S) : T[j] = S[j]
  BY <1>1, <1>2 DEF Live
<1>5. Current(T) = IF r.current THEN Current(S) \cup {i} ELSE Current(S)
  BY <1>1, <1>2, <1>3, <1>4 DEF Current
<1> QED
  BY <1>1, <1>2, <1>3, <1>4, <1>5

\* What an update of an existing row does to a table.
LEMMA Replacement ==
    ASSUME NEW S \in Table, NEW i \in Live(S), NEW r \in SessionRow,
           NEW T, Put(S, T, i, r)
    PROVE  /\ T \in Table
           /\ Live(T) = Live(S)
           /\ Current(T) = IF r.current THEN Current(S) \cup {i}
                                        ELSE Current(S) \ {i}
           /\ T[i] = r
           /\ \A j \in Live(S) \ {i} : T[j] = S[j]
<1>1. T \in Table /\ T[i] = r /\ \A j \in SessionIds \ {i} : T[j] = S[j]
  BY DEF Table, Live, Put
<1>2. Live(T) = Live(S)
  BY <1>1, RowsExist DEF Live
<1>3. Current(T) = IF r.current THEN Current(S) \cup {i} ELSE Current(S) \ {i}
  BY <1>1, <1>2 DEF Current, Live
<1> QED
  BY <1>1, <1>2, <1>3 DEF Live

\* A row that is inserted as the only current one, or not current, keeps a
\* table fit for the books it was fit for, and fits those the row shows.
LEMMA InsertionFits ==
    ASSUME NEW S \in Table, CurrentIsUnique(S),
           \A j \in Current(S) : S[j].status = Open,
           NEW i \in SessionIds, NextId(S, i),
           NEW r \in SessionRow, r.current => r.status = Open,
           r.current => Current(S) = {},
           NEW T, Put(S, T, i, r),
           NEW b,
           b.status = Open => \/ r.current /\ r.started = b.started
                              \/ \E j \in Current(S) : S[j].started = b.started
    PROVE  Fits(T, b)
<1>1. /\ T \in Table
      /\ i \notin Live(S)
      /\ Live(T) = Live(S) \cup {i}
      /\ Current(T) = IF r.current THEN Current(S) \cup {i} ELSE Current(S)
      /\ T[i] = r
      /\ \A j \in Live(S) : T[j] = S[j]
  BY Insertion
<1>2. Current(S) \subseteq Live(S)
  BY DEF Current
<1>3. CurrentIsUnique(T)
  BY <1>1 DEF CurrentIsUnique
<1>4. \A j \in Current(T) : T[j].status = Open
  BY <1>1, <1>2
<1>5. b.status = Open => \E j \in Current(T) : T[j].started = b.started
  BY <1>1, <1>2
<1> QED
  BY <1>1, <1>3, <1>4, <1>5 DEF Fits

\* The same of a row that replaces an existing one.
LEMMA ReplacementFits ==
    ASSUME NEW S \in Table, CurrentIsUnique(S),
           \A j \in Current(S) : S[j].status = Open,
           NEW i \in Live(S), NEW r \in SessionRow, r.current => r.status = Open,
           r.current => Current(S) \subseteq {i},
           NEW T, Put(S, T, i, r),
           NEW b,
           b.status = Open =>
               \/ r.current /\ r.started = b.started
               \/ \E j \in Current(S) \ {i} : S[j].started = b.started
    PROVE  Fits(T, b)
<1>1. /\ T \in Table
      /\ Live(T) = Live(S)
      /\ Current(T) = IF r.current THEN Current(S) \cup {i} ELSE Current(S) \ {i}
      /\ T[i] = r
      /\ \A j \in Live(S) \ {i} : T[j] = S[j]
  BY Replacement
<1>2. Current(S) \subseteq Live(S)
  BY DEF Current
<1>3. CurrentIsUnique(T)
  BY <1>1 DEF CurrentIsUnique
<1>4. \A j \in Current(T) : T[j].status = Open
  BY <1>1, <1>2
<1>5. b.status = Open => \E j \in Current(T) : T[j].started = b.started
  BY <1>1, <1>2
<1> QED
  BY <1>1, <1>3, <1>4, <1>5 DEF Fits

\* reconcile_book_sessions makes the table fit the book, keeps every session,
\* reopens none, and closes the current one when the book is finished.
LEMMA ReconcileFits ==
    ASSUME sessions \in Table, AtMostOneCurrent, CurrentIsOpen,
           NEW b \in BookRow, Reconcile(b)
    PROVE  /\ Fits(sessions', b)
           /\ Live(sessions) \subseteq Live(sessions')
           /\ StaysClosed
           /\ b.status \in Finished => Current(sessions') = {}
<1> USE StatusesDiffer
<1>0. \A i \in Live(sessions) : sessions[i] \in SessionRow
  BY DEF Live, Table
<1>1. CASE b.status = "want_to_read" /\ sessions' = sessions
  BY <1>1 DEF Fits, AtMostOneCurrent, CurrentIsOpen, StaysClosed, Current
<1>2. CASE ReconcileOpen(b)
  <2>1. PICK i \in SessionIds :
            /\ IF Current(sessions) = {} THEN NextId(sessions, i)
                                         ELSE i \in Current(sessions)
            /\ Put(sessions, sessions', i, OpenRow(b.started))
    BY <1>2 DEF ReconcileOpen, Put
  <2>2. OpenRow(b.started) \in SessionRow
    BY MaxDateAssumption DEF OpenRow, SessionRow, BookRow, Dates, NoDate
  <2>3. OpenRow(b.started).current /\ OpenRow(b.started).started = b.started
        /\ OpenRow(b.started).status = Open
    BY DEF OpenRow
  <2>4. CASE Current(sessions) = {}
    <3>1. Fits(sessions', b)
      BY <2>1, <2>2, <2>3, <2>4, InsertionFits DEF AtMostOneCurrent, CurrentIsOpen
    <3>2. /\ Live(sessions') = Live(sessions) \cup {i}
          /\ \A j \in Live(sessions) : sessions'[j] = sessions[j]
      BY <2>1, <2>2, <2>4, Insertion
    <3>3. StaysClosed
      BY <2>4, <3>2 DEF StaysClosed, Current
    <3> QED
      BY <1>2, <3>1, <3>2, <3>3 DEF ReconcileOpen
  <2>5. CASE Current(sessions) # {}
    <3>1. i \in Live(sessions) /\ Current(sessions) \subseteq {i}
      BY <2>1, <2>5 DEF Current, AtMostOneCurrent, CurrentIsUnique
    <3>2. Fits(sessions', b)
      BY <2>1, <2>2, <2>3, <3>1, ReplacementFits DEF AtMostOneCurrent, CurrentIsOpen
    <3>3. /\ Live(sessions') = Live(sessions)
          /\ \A j \in Live(sessions) \ {i} : sessions'[j] = sessions[j]
      BY <2>1, <2>2, <3>1, Replacement
    <3>4. sessions[i].status = Open
      BY <2>1, <2>5 DEF CurrentIsOpen
    <3>5. StaysClosed
      BY <3>1, <3>3, <3>4 DEF StaysClosed, Current
    <3> QED
      BY <1>2, <3>2, <3>3, <3>5 DEF ReconcileOpen
  <2> QED
    BY <2>4, <2>5
<1>3. CASE ReconcileClose(b)
  <2>1. PICK i \in Current(sessions) :
            sessions' = [sessions EXCEPT ![i].status = b.status,
                                         ![i].finished = b.finished,
                                         ![i].current = FALSE]
    BY <1>3 DEF ReconcileClose
  <2> DEFINE r == [sessions[i] EXCEPT !.status = b.status,
                                      !.finished = b.finished,
                                      !.current = FALSE]
  <2>2. i \in Live(sessions) /\ Current(sessions) \subseteq {i}
    BY DEF Current, AtMostOneCurrent, CurrentIsUnique
  <2>3. b.status \in Finished
    BY <1>3 DEF ReconcileClose
  <2>4. r \in SessionRow /\ r.current = FALSE /\ r.status \in Finished
    BY <1>0, <2>2, <2>3 DEF SessionRow, BookRow
  <2>5. Put(sessions, sessions', i, r)
    BY <2>1 DEF Put
  <2> HIDE DEF r
  <2>6. Fits(sessions', b)
    BY <2>2, <2>3, <2>4, <2>5, ReplacementFits DEF AtMostOneCurrent, CurrentIsOpen
  <2>7. /\ Live(sessions') = Live(sessions)
        /\ Current(sessions') = {}
        /\ sessions'[i] = r
        /\ \A j \in Live(sessions) \ {i} : sessions'[j] = sessions[j]
    BY <2>2, <2>4, <2>5, Replacement
  <2>8. StaysClosed
    BY <2>2, <2>4, <2>7 DEF StaysClosed, Current
  <2> QED
    BY <2>6, <2>7, <2>8
<1>4. CASE ReconcileLatest(b)
  <2> DEFINE same == SameStatus(sessions, b.status)
  <2>1. b.status \in Finished /\ Current(sessions) = {}
    BY <1>4 DEF ReconcileLatest
  <2>2. CASE same # {}
    <3> DEFINE i == Latest(sessions, same)
               r == [sessions[i] EXCEPT !.started = b.started,
                                        !.finished = b.finished]
    <3>1. i \in same
      BY <2>2, LatestExists DEF SameStatus, Table
    <3>2. i \in Live(sessions) /\ sessions[i].status \in Finished
          /\ ~sessions[i].current
      BY <2>1, <3>1 DEF SameStatus, Current
    <3>3. r \in SessionRow /\ ~r.current /\ r.status \in Finished
      BY <1>0, <3>2 DEF SessionRow, BookRow
    <3>4. sessions' = [sessions EXCEPT ![i].started = b.started,
                                       ![i].finished = b.finished]
      BY <1>4, <2>2 DEF ReconcileLatest
    <3>5. Put(sessions, sessions', i, r)
      BY <3>4 DEF Put
    <3> HIDE DEF r, i
    <3>6. Fits(sessions', b)
      BY <2>1, <3>2, <3>3, <3>5, ReplacementFits DEF AtMostOneCurrent, CurrentIsOpen
    <3>7. /\ Live(sessions') = Live(sessions)
          /\ Current(sessions') = {}
          /\ sessions'[i] = r
          /\ \A j \in Live(sessions) \ {i} : sessions'[j] = sessions[j]
      BY <2>1, <3>2, <3>3, <3>5, Replacement
    <3>8. StaysClosed
      BY <2>1, <3>3, <3>7 DEF StaysClosed, Current
    <3> QED
      BY <3>6, <3>7, <3>8
  <2>3. CASE same = {}
    <3>1. PICK i \in SessionIds :
              NextId(sessions, i) /\ Put(sessions, sessions', i, RowOf(b))
      BY <1>4, <2>3 DEF ReconcileLatest, Put
    <3>2. RowOf(b) \in SessionRow /\ ~RowOf(b).current
      BY <2>1 DEF RowOf, SessionRow, BookRow
    <3>3. Fits(sessions', b)
      BY <2>1, <3>1, <3>2, InsertionFits DEF AtMostOneCurrent, CurrentIsOpen
    <3>4. /\ Live(sessions') = Live(sessions) \cup {i}
          /\ Current(sessions') = {}
          /\ \A j \in Live(sessions) : sessions'[j] = sessions[j]
      BY <2>1, <3>1, <3>2, Insertion
    <3>5. StaysClosed
      BY <2>1, <3>4 DEF StaysClosed, Current
    <3> QED
      BY <3>3, <3>4, <3>5
  <2> QED
    BY <2>2, <2>3
<1> QED
  BY <1>1, <1>2, <1>3, <1>4 DEF Reconcile

\* Whatever a payload and the automation fill in, the row that results has
\* valid columns once _validate_dates has passed it.
LEMMA UpdateTypes ==
    ASSUME NEW b \in BookRow, NEW p \in Payload, NEW skip \in BOOLEAN,
           NEW auto \in Automation,
           NEW q, q = Filled(b, p, skip, auto),
           ValidDates(q.started, q.finished)
    PROVE  Updated(b, q) \in BookRow
<1> DEFINE target == GivenStatus(p.status, b.status)
<1>1. MaxDate \in Nat /\ MaxDate > 0
  BY MaxDateAssumption
<1>2. p.started \in InputDates \cup {Keep} /\ p.finished \in InputDates \cup {Keep}
  BY DEF Payload
<1>3. b.started \in Dates /\ b.finished \in Dates /\ b.status \in Status
  BY DEF BookRow
<1>4. q = [status |-> p.status,
           started |-> FilledStart(b, target, p, skip, auto.start),
           finished |-> FilledFinish(b, target, p, auto.finish)]
  BY DEF Filled
<1>5. q.started \in InputDates \cup {Keep}
  BY <1>1, <1>2, <1>4 DEF FilledStart, Given, InputDates, NoDate, Now, Keep
<1>6. q.finished \in InputDates \cup {Keep}
  BY <1>1, <1>2, <1>4 DEF FilledFinish, InputDates, NoDate, Now, Keep
<1>7. Given(q.started, b.started) \in Dates /\ Given(q.finished, b.finished) \in Dates
  BY <1>1, <1>3, <1>5, <1>6 DEF ValidDates, Given, InputDates, Dates, Now, Keep
<1>8. GivenStatus(q.status, b.status) \in Status
  BY <1>3, <1>4 DEF Payload, GivenStatus
<1> QED
  BY <1>7, <1>8 DEF Updated, BookRow

\* recompute_book_mirror leaves valid columns and the status it is given, and
\* the start date of the current session when there is one.
LEMMA MirrorTypes ==
    ASSUME NEW S \in Table, CurrentIsUnique(S), NEW status \in Status
    PROVE  /\ Mirror(S, status) \in BookRow
           /\ Mirror(S, status).status = status
           /\ \A i \in Current(S) : Mirror(S, status).started = S[i].started
<1>1. \A i \in Live(S) : /\ S[i] \in SessionRow
                          /\ S[i].started \in Dates /\ S[i].finished \in Dates
  BY DEF Live, Table, SessionRow
<1>2. NoDate \in Dates
  BY MaxDateAssumption DEF NoDate, Dates
<1>3. CASE Current(S) # {}
  <2> DEFINE i == CHOOSE j \in Current(S) : TRUE
  <2>1. i \in Current(S) /\ i \in Live(S) /\ \A j \in Current(S) : j = i
    BY <1>3 DEF CurrentIsUnique, Current
  <2>2. Mirror(S, status) = [status |-> status, started |-> S[i].started,
                             finished |-> IF S[i].status = Open THEN NoDate
                                          ELSE S[i].finished]
    BY <1>3 DEF Mirror
  <2> HIDE DEF i
  <2> QED
    BY <1>1, <1>2, <2>1, <2>2 DEF BookRow
<1>4. CASE Current(S) = {} /\ Live(S) # {}
  <2> DEFINE i == Latest(S, Live(S))
  <2>1. i \in Live(S)
    BY <1>4, LatestExists DEF Table
  <2>2. Mirror(S, status) = [status |-> status, started |-> S[i].started,
                             finished |-> S[i].finished]
    BY <1>4 DEF Mirror
  <2> HIDE DEF i
  <2> QED
    BY <1>1, <1>4, <2>1, <2>2 DEF BookRow
<1>5. CASE Live(S) = {}
  <2>1. Mirror(S, status) = [status |-> status, started |-> NoDate, finished |-> NoDate]
    BY <1>5 DEF Mirror, Current
  <2> QED
    BY <1>2, <1>5, <2>1 DEF BookRow, Current
<1> QED
  BY <1>3, <1>4, <1>5

-----------------------------------------------------------------------------
(* The inductive invariant: no part of it is inductive by itself, because  *)
(* every request decides by the flags, the dates and the status together.  *)

Consistent ==
    /\ TypeOK
    /\ AtMostOneCurrent
    /\ CurrentIsOpen
    /\ ReadingShowsItsSession
    /\ StartedHasSession
    /\ NothingOutlivesBook
    /\ ProgressHasSession

\* What is proved of every step.
GoodStep == Consistent' /\ StaysClosed /\ OnlyDeleteHidesOpen

\* It is enough that the new table fits the new book and that the log names
\* sessions of it.
LEMMA FitIsConsistent ==
    ASSUME book' \in BookRow, Fits(sessions', book'),
           logged' \subseteq Live(sessions') \cup {NoSession}
    PROVE  Consistent'
<1>1. book' # Absent
  BY RowsExist
<1>2. logged' \in SUBSET (SessionIds \cup {NoSession})
  BY DEF Live
<1>3. TypeOK'
  BY <1>2 DEF TypeOK, Fits, Table
<1>4. AtMostOneCurrent' /\ CurrentIsOpen'
  BY DEF Fits, AtMostOneCurrent, CurrentIsOpen
<1>5. ReadingShowsItsSession' /\ StartedHasSession'
  BY DEF Fits, ReadingShowsItsSession, StartedHasSession
<1>6. NothingOutlivesBook' /\ ProgressHasSession'
  BY <1>1 DEF NothingOutlivesBook, ProgressHasSession
<1> QED
  BY <1>3, <1>4, <1>5, <1>6 DEF Consistent

\* What the invariant says of the tables, in the form the lemmas use.
LEMMA ConsistentTables ==
    ASSUME Consistent
    PROVE  /\ sessions \in Table
           /\ CurrentIsUnique(sessions)
           /\ \A i \in Current(sessions) : sessions[i].status = Open
           /\ logged \subseteq Live(sessions) \cup {NoSession}
           /\ book # Absent => book \in BookRow /\ Fits(sessions, book)
           /\ book = Absent => Live(sessions) = {} /\ logged = {}
BY DEF Consistent, TypeOK, AtMostOneCurrent, CurrentIsOpen, ReadingShowsItsSession,
       StartedHasSession, NothingOutlivesBook, ProgressHasSession, Table, Fits

\* A request on the book's own row that ends in reconcile_book_sessions.
LEMMA ReconciledBook ==
    ASSUME Consistent, book # Absent, NEW new \in BookRow, book' = new,
           Reconcile(new), UNCHANGED logged
    PROVE  GoodStep
<1>1. /\ Fits(sessions', new)
      /\ Live(sessions) \subseteq Live(sessions')
      /\ StaysClosed
      /\ new.status \in Finished => Current(sessions') = {}
  BY ReconcileFits, ConsistentTables DEF Consistent
<1>2. logged' \subseteq Live(sessions') \cup {NoSession}
  BY <1>1, ConsistentTables
<1>3. OnlyDeleteHidesOpen
  BY <1>1 DEF OnlyDeleteHidesOpen, OpenBesideFinished
<1> QED
  BY <1>1, <1>2, <1>3, FitIsConsistent DEF GoodStep

\* create_book: a new book and the session its status calls for.
LEMMA CreateBookStep ==
    ASSUME Consistent, NEW b \in NewBook, CreateBook(b)
    PROVE  GoodStep
<1>1. Live(sessions) = {} /\ logged = {} /\ Current(sessions) = {}
  BY ConsistentTables DEF CreateBook, Current
<1>2. StaysClosed
  BY <1>1 DEF StaysClosed
<1>3. b \in BookRow /\ book' = b
  BY MaxDateAssumption
     DEF CreateBook, NewBook, BookRow, ValidDates, InputDates, Dates, Now
<1>4. Fits(sessions', b) /\ (b.status \in Finished => Current(sessions') = {})
  <2>1. CASE b.status = "want_to_read"
    BY <2>1, <1>1, ConsistentTables, StatusesDiffer
       DEF CreateBook, InitialSession, Fits
  <2>2. CASE b.status # "want_to_read"
    <3>1. PICK i \in SessionIds :
              NextId(sessions, i) /\ Put(sessions, sessions', i, RowOf(b))
      BY <2>2 DEF CreateBook, InitialSession, Put
    <3>2. /\ RowOf(b) \in SessionRow
          /\ RowOf(b).started = b.started
          /\ RowOf(b).current <=> b.status = Open
          /\ RowOf(b).status = b.status
      BY <1>3, <2>2 DEF RowOf, SessionRow, BookRow, Status
    <3>3. Fits(sessions', b)
      BY <1>1, <3>1, <3>2, InsertionFits, ConsistentTables
    <3>4. b.status # Open => Current(sessions') = {}
      BY <1>1, <3>1, <3>2, Insertion, ConsistentTables
    <3> QED
      BY <3>3, <3>4, StatusesDiffer
  <2> QED
    BY <2>1, <2>2
<1>5. logged' = {}
  BY <1>1 DEF CreateBook
<1>6. OnlyDeleteHidesOpen
  BY <1>3, <1>4 DEF OnlyDeleteHidesOpen, OpenBesideFinished
<1> QED
  BY <1>2, <1>3, <1>4, <1>5, <1>6, FitIsConsistent DEF GoodStep

\* update_book, whatever the payload and the automation settings.
LEMMA UpdateBookStep ==
    ASSUME Consistent, NEW p \in Payloads, NEW auto \in AutoSettings,
           UpdateBook(p, auto)
    PROVE  GoodStep
<1> DEFINE q   == Filled(book, p, FALSE, auto)
           new == Updated(book, q)
<1>1. /\ book # Absent
      /\ ValidDates(q.started, q.finished)
      /\ book' = Changed(book, book, new)
      /\ Reconcile(new)
      /\ UNCHANGED logged
  BY DEF UpdateBook, PatchFrom
<1>2. book \in BookRow
  BY <1>1, ConsistentTables
<1>3. p \in Payload /\ auto \in Automation
  BY RequestAssumption
<1>4. new \in BookRow
  BY <1>1, <1>2, <1>3, UpdateTypes
<1> HIDE DEF q, new
<1>5. Changed(book, book, new) = new
  BY <1>4 DEF Changed, BookRow
<1> QED
  BY <1>1, <1>4, <1>5, ReconciledBook

\* transition_status, once it has no conflict to report.
LEMMA TransitionStep ==
    ASSUME Consistent, NEW t \in Transitions, NEW auto \in AutoSettings,
           TransitionStatus(t, auto)
    PROVE  GoodStep
<1> DEFINE p   == TransitionPayload(book, t)
           q   == Filled(book, p, t.skip, auto)
           new == Updated(book, q)
<1>1. /\ book # Absent
      /\ ValidDates(q.started, q.finished)
      /\ book' = new
      /\ Reconcile(new)
      /\ UNCHANGED logged
  BY DEF TransitionStatus
<1>2. book \in BookRow
  BY <1>1, ConsistentTables
<1>3. t \in Transition /\ auto \in Automation
  BY RequestAssumption
<1>4. p \in Payload /\ t.skip \in BOOLEAN
  BY <1>3, MaxDateAssumption
     DEF TransitionPayload, Transition, Payload, InputDates, NoDate, Keep
<1>5. new \in BookRow
  BY <1>1, <1>2, <1>3, <1>4, UpdateTypes
<1> HIDE DEF new
<1> QED
  BY <1>1, <1>5, ReconciledBook

\* delete_book leaves empty tables.
LEMMA DeleteBookStep ==
    ASSUME Consistent, DeleteBook
    PROVE  GoodStep
<1>1. \A i \in SessionIds : sessions'[i] = Absent
  BY DEF DeleteBook
<1>2. Live(sessions') = {} /\ Current(sessions') = {}
  BY <1>1 DEF Live, Current
<1>3. TypeOK'
  BY DEF DeleteBook, TypeOK
<1>4. AtMostOneCurrent' /\ CurrentIsOpen'
  BY <1>2 DEF AtMostOneCurrent, CurrentIsUnique, CurrentIsOpen
<1>5. /\ ReadingShowsItsSession' /\ StartedHasSession'
      /\ NothingOutlivesBook' /\ ProgressHasSession'
  BY <1>2 DEF DeleteBook, ReadingShowsItsSession, StartedHasSession,
              NothingOutlivesBook, ProgressHasSession
<1>6. StaysClosed
  BY <1>1 DEF StaysClosed, Live
<1>7. OnlyDeleteHidesOpen
  BY DEF DeleteBook, OnlyDeleteHidesOpen, OpenBesideFinished
<1> QED
  BY <1>3, <1>4, <1>5, <1>6, <1>7 DEF Consistent, GoodStep

\* create_session adds a closed session beside the book.
LEMMA AddPastSessionStep ==
    ASSUME Consistent, NEW status \in Finished,
           NEW started \in InputDates, NEW finished \in InputDates,
           AddPastSession(status, started, finished)
    PROVE  GoodStep
<1> DEFINE r == [status |-> status, started |-> started, finished |-> finished,
                 current |-> FALSE]
<1>1. PICK i \in SessionIds :
          NextId(sessions, i) /\ Put(sessions, sessions', i, r)
  BY DEF AddPastSession, Put
<1>2. book \in BookRow /\ Fits(sessions, book) /\ UNCHANGED <<book, logged>>
  BY ConsistentTables DEF AddPastSession
<1>3. r \in SessionRow /\ r.current = FALSE
  BY MaxDateAssumption
     DEF AddPastSession, ValidDates, SessionRow, InputDates, Dates, Now
<1> HIDE DEF r
<1>4. Fits(sessions', book')
  BY <1>1, <1>2, <1>3, InsertionFits, ConsistentTables DEF Fits
<1>5. /\ Live(sessions') = Live(sessions) \cup {i}
      /\ Current(sessions') = Current(sessions)
      /\ \A j \in Live(sessions) : sessions'[j] = sessions[j]
  BY <1>1, <1>3, Insertion, ConsistentTables
<1>6. StaysClosed
  BY <1>5, ConsistentTables, StatusesDiffer DEF StaysClosed, Current
<1>7. OnlyDeleteHidesOpen
  BY <1>2, <1>5 DEF OnlyDeleteHidesOpen, OpenBesideFinished
<1>8. logged' \subseteq Live(sessions') \cup {NoSession}
  BY <1>2, <1>5, ConsistentTables
<1> QED
  BY <1>2, <1>4, <1>6, <1>7, <1>8, FitIsConsistent DEF GoodStep

\* update_session edits one row, and the book follows if it is the current one.
LEMMA EditSessionStep ==
    ASSUME Consistent, NEW i \in SessionIds, NEW p \in Payloads, EditSession(i, p)
    PROVE  GoodStep
<1> DEFINE s == sessions[i]
           e == EditedRow(s, p)
<1>1. /\ i \in Live(sessions)
      /\ e.status = Open => s.current
      /\ ValidDates(e.started, e.finished)
      /\ sessions' = [sessions EXCEPT ![i] = e]
      /\ book' = IF s.current THEN Mirror(sessions', e.status) ELSE book
      /\ UNCHANGED logged
  BY DEF EditSession
<1>2. book \in BookRow /\ Fits(sessions, book)
  BY ConsistentTables DEF EditSession
<1>3. p \in Payload /\ p.status # "want_to_read" /\ s \in SessionRow
  BY <1>1, RequestAssumption, ConsistentTables DEF EditSession, Live, Table
<1>4. e \in SessionRow
  <2>1. e.status \in {Open} \cup Finished
    BY <1>3 DEF EditedRow, GivenStatus, Payload, Status, SessionRow
  <2>2. e.started \in InputDates \cup Dates /\ e.finished \in InputDates \cup Dates
    BY <1>3, MaxDateAssumption
       DEF EditedRow, Given, Payload, SessionRow, InputDates, Dates, Now, NoDate, Keep
  <2>3. e.started \in Dates /\ e.finished \in Dates
    BY <1>1, <2>2, MaxDateAssumption DEF ValidDates, InputDates, Dates, Now
  <2>4. e.current \in BOOLEAN
    BY DEF EditedRow
  <2> QED
    BY <2>1, <2>3, <2>4 DEF EditedRow, SessionRow
<1>5. e.current <=> s.current /\ e.status = Open
  BY DEF EditedRow
<1>6. i \in Live(sessions) /\ sessions \in Table /\ Put(sessions, sessions', i, e)
  BY <1>1, ConsistentTables DEF Put
<1> HIDE DEF e, s
<1>7. i \in Current(sessions) <=> s.current
  BY <1>1 DEF Current, s
<1>8. /\ sessions' \in Table
      /\ Live(sessions') = Live(sessions)
      /\ Current(sessions') = IF e.current THEN Current(sessions) \cup {i}
                                           ELSE Current(sessions) \ {i}
      /\ sessions'[i] = e
      /\ \A j \in Live(sessions) \ {i} : sessions'[j] = sessions[j]
  BY <1>4, <1>6, Replacement
<1>9. StaysClosed
  <2>1. ASSUME NEW j \in Live(sessions), sessions[j].status \in Finished
        PROVE  sessions'[j].status \in Finished /\ ~sessions'[j].current
    <3>1. j \notin Current(sessions)
      BY <2>1, ConsistentTables, StatusesDiffer
    <3>2. CASE j = i
      BY <3>1, <3>2, <1>1, <1>4, <1>5, <1>7, <1>8 DEF SessionRow
    <3>3. CASE j # i
      BY <2>1, <3>1, <3>3, <1>8 DEF Current
    <3> QED
      BY <3>2, <3>3
  <2> QED
    BY <2>1 DEF StaysClosed
<1>10. Fits(sessions', book') /\ book' \in BookRow /\ OnlyDeleteHidesOpen
  <2>1. CASE s.current
    <3>1. e.status \in Status /\ Current(sessions) \subseteq {i}
      BY <2>1, <1>4, <1>7, ConsistentTables DEF SessionRow, Status, CurrentIsUnique
    <3>2. CurrentIsUnique(sessions')
      BY <3>1, <1>8 DEF CurrentIsUnique
    <3>3. /\ book' \in BookRow
          /\ book'.status = e.status
          /\ \A j \in Current(sessions') : book'.started = sessions'[j].started
      <4>1. book' = Mirror(sessions', e.status) /\ sessions' \in Table
        BY <2>1, <1>1, <1>8
      <4> QED
        BY <4>1, <3>1, <3>2, MirrorTypes
    <3>4. Fits(sessions', book')
      BY <2>1, <3>1, <3>2, <3>3, <1>1, <1>5, <1>8 DEF Fits
    <3>5. e.status \in Finished => Current(sessions') = {}
      BY <3>1, <1>5, <1>8, StatusesDiffer
    <3> QED
      BY <3>3, <3>4, <3>5 DEF OnlyDeleteHidesOpen, OpenBesideFinished
  <2>2. CASE ~s.current
    <3>1. Current(sessions') = Current(sessions) /\ book' = book
      BY <2>2, <1>1, <1>5, <1>7, <1>8
    <3>2. \A j \in Current(sessions) : sessions'[j] = sessions[j]
      BY <2>2, <1>7, <1>8 DEF Current
    <3> QED
      BY <3>1, <3>2, <1>2, <1>8
         DEF Fits, CurrentIsUnique, OnlyDeleteHidesOpen, OpenBesideFinished
  <2> QED
    BY <2>1, <2>2
<1>11. logged' \subseteq Live(sessions') \cup {NoSession}
  BY <1>1, <1>8, ConsistentTables
<1> QED
  BY <1>9, <1>10, <1>11, FitIsConsistent DEF GoodStep

\* What the removal of a row does to a table.
LEMMA Removal ==
    ASSUME NEW S \in Table, NEW i \in Live(S),
           NEW T, Put(S, T, i, Absent)
    PROVE  /\ T \in Table
           /\ T[i] = Absent
           /\ Live(T) = Live(S) \ {i}
           /\ Current(T) = Current(S) \ {i}
           /\ \A j \in Live(T) : T[j] = S[j]
<1>1. T \in Table /\ T[i] = Absent /\ \A j \in SessionIds \ {i} : T[j] = S[j]
  BY DEF Put, Table, Live
<1>2. Live(T) = Live(S) \ {i}
  BY <1>1 DEF Live
<1>3. \A j \in Live(T) : T[j] = S[j]
  BY <1>1, <1>2 DEF Live
<1>4. Current(T) = Current(S) \ {i}
  BY <1>2, <1>3 DEF Current
<1> QED
  BY <1>1, <1>2, <1>3, <1>4

\* T is S after the promotion, and l the latest row.
LatestPromoted(S, T, l) == l = Latest(S, Live(S)) /\ T = Promoted(S)

\* Promotion flags the latest row when it is open, and nothing else.
LEMMA Promotion ==
    ASSUME NEW S \in Table, Live(S) # {},
           NEW l, NEW T, LatestPromoted(S, T, l)
    PROVE  /\ T \in Table
           /\ l \in Live(S)
           /\ Live(T) = Live(S)
           /\ \A j \in Live(S) : T[j].status = S[j].status
           /\ \A j \in Live(S) \ {l} : T[j] = S[j]
           /\ Current(T) = IF S[l].status = Open THEN Current(S) \cup {l}
                                                 ELSE Current(S)
<1>1. l \in Live(S)
  BY LatestExists DEF Table, LatestPromoted
<1>2. S[l] \in SessionRow
  BY <1>1 DEF Live, Table
<1>3. CASE S[l].status = Open
  <2> DEFINE r == [S[l] EXCEPT !.current = TRUE]
  <2>1. r \in SessionRow /\ r.current /\ r.status = Open
    BY <1>2, <1>3 DEF SessionRow
  <2>2. Put(S, T, l, r)
    BY <1>3 DEF Promoted, Put, LatestPromoted
  <2> HIDE DEF r
  <2>3. /\ T \in Table
        /\ Live(T) = Live(S)
        /\ Current(T) = Current(S) \cup {l}
        /\ T[l] = r
        /\ \A j \in Live(S) \ {l} : T[j] = S[j]
    BY <1>1, <2>1, <2>2, Replacement
  <2> QED
    BY <1>1, <1>3, <2>1, <2>3
<1>4. CASE S[l].status # Open
  BY <1>1, <1>4 DEF Promoted, LatestPromoted
<1> QED
  BY <1>3, <1>4

\* delete_session on the only session resets the book.
LEMMA DeleteOnlySessionStep ==
    ASSUME Consistent, NEW i \in SessionIds, DeleteOnlySession(i)
    PROVE  GoodStep
<1>1. i \in Live(sessions) /\ sessions \in Table /\ Put(sessions, sessions', i, Absent)
  BY ConsistentTables DEF DeleteOnlySession, Put
<1>2. /\ sessions' \in Table
      /\ sessions'[i] = Absent
      /\ Live(sessions') = {}
      /\ Current(sessions') = {}
  <2>1. Live(sessions) = {i} /\ Current(sessions) \subseteq {i}
    BY DEF DeleteOnlySession, Current
  <2> QED
    BY <1>1, <2>1, Removal
<1>3. /\ book' \in BookRow /\ book'.status = "want_to_read" /\ logged' = {}
  BY MaxDateAssumption DEF DeleteOnlySession, BookRow, Status, Dates, NoDate
<1>4. Fits(sessions', book')
  BY <1>2, <1>3, StatusesDiffer DEF Fits, CurrentIsUnique
<1>5. StaysClosed
  BY <1>2 DEF StaysClosed, Live, DeleteOnlySession
<1>6. OnlyDeleteHidesOpen
  BY <1>2 DEF OnlyDeleteHidesOpen, OpenBesideFinished
<1> QED
  BY <1>3, <1>4, <1>5, <1>6, FitIsConsistent DEF GoodStep

\* delete_session with sessions remaining: the promoted table fits the book.
LEMMA DeleteSessionStep ==
    ASSUME Consistent, NEW i \in SessionIds, DeleteSession(i)
    PROVE  GoodStep
<1> DEFINE rest == [sessions EXCEPT ![i] = Absent]
           l    == Latest(rest, Live(rest))
<1>1. /\ book # Absent
      /\ i \in Live(sessions)
      /\ Live(rest) # {}
      /\ sessions' = Promoted(rest)
      /\ CurrentIsUnique(sessions')
      /\ book' = Mirror(sessions', rest[l].status)
      /\ logged' = logged \ {i}
  BY DEF DeleteSession
<1>2. sessions \in Table /\ Put(sessions, rest, i, Absent)
  BY ConsistentTables DEF Put
<1> HIDE DEF rest
<1>3. /\ rest \in Table
      /\ rest[i] = Absent
      /\ Live(rest) = Live(sessions) \ {i}
      /\ Current(rest) = Current(sessions) \ {i}
      /\ \A j \in Live(rest) : rest[j] = sessions[j]
  BY <1>1, <1>2, Removal
<1>4. \A j \in Current(rest) : rest[j].status = Open
  BY <1>3, ConsistentTables DEF Current
<1>5. Live(rest) # {} /\ LatestPromoted(rest, sessions', l)
  BY <1>1 DEF LatestPromoted
<1> HIDE DEF l
<1>6. /\ sessions' \in Table
      /\ l \in Live(rest)
      /\ Live(sessions') = Live(rest)
      /\ \A j \in Live(rest) : sessions'[j].status = rest[j].status
      /\ \A j \in Live(rest) \ {l} : sessions'[j] = rest[j]
      /\ Current(sessions') = IF rest[l].status = Open THEN Current(rest) \cup {l}
                                                       ELSE Current(rest)
  BY <1>3, <1>5, Promotion
<1>7. rest[l].status \in Status
  BY <1>3, <1>6 DEF Table, Live, SessionRow, Status
<1>8. /\ book' \in BookRow
      /\ book'.status = rest[l].status
      /\ \A j \in Current(sessions') : book'.started = sessions'[j].started
  BY <1>1, <1>6, <1>7, MirrorTypes
<1>9. \A j \in Current(sessions') : j \in Live(rest) /\ sessions'[j].status = Open
  BY <1>4, <1>6 DEF Current
<1>10. Fits(sessions', book')
  BY <1>1, <1>6, <1>8, <1>9 DEF Fits
<1>11. StaysClosed
  <2>1. ASSUME NEW j \in Live(rest), sessions[j].status \in Finished
        PROVE  sessions'[j].status \in Finished /\ ~sessions'[j].current
    <3>1. sessions'[j].status \in Finished
      BY <2>1, <1>3, <1>6
    <3>2. j \notin Current(sessions')
      BY <3>1, <1>9, StatusesDiffer
    <3> QED
      BY <3>1, <3>2, <1>6 DEF Current
  <2>2. ASSUME NEW j \in Live(sessions), sessions'[j] # Absent
        PROVE  j \in Live(rest)
    BY <2>2, <1>6 DEF Live
  <2> QED
    BY <2>1, <2>2 DEF StaysClosed
<1>12. OnlyDeleteHidesOpen
  <2>1. sessions'[i] = Absent
    BY <1>1, <1>3, <1>6 DEF Live
  <2> QED
    BY <1>1, <2>1 DEF OnlyDeleteHidesOpen
<1>13. logged' \subseteq Live(sessions') \cup {NoSession}
  BY <1>1, <1>3, <1>6, ConsistentTables
<1> QED
  BY <1>8, <1>10, <1>11, <1>12, <1>13, FitIsConsistent DEF GoodStep

\* start_read_again leaves the new session as the only current one.
LEMMA ReadAgainStep ==
    ASSUME Consistent, NEW started \in InputDates, ReadAgain(started)
    PROVE  GoodStep
<1> DEFINE from == IF started = NoDate THEN Now ELSE started
<1>1. /\ book' = [status |-> Open, started |-> from, finished |-> NoDate]
      /\ UNCHANGED logged
  BY DEF ReadAgain
<1>2. PICK i \in SessionIds :
          /\ NextId(sessions, i)
          /\ sessions' = [j \in SessionIds |->
                IF j = i THEN OpenRow(from)
                ELSE IF j \in Current(sessions)
                THEN [sessions[j] EXCEPT !.current = FALSE]
                ELSE sessions[j]]
  BY DEF ReadAgain
<1>3. from \in Dates /\ NoDate \in Dates
  BY MaxDateAssumption DEF ReadAgain, InputDates, Dates, Now, NoDate
<1> HIDE DEF from
<1>4. /\ OpenRow(from) \in SessionRow /\ OpenRow(from).current
      /\ OpenRow(from).started = from /\ OpenRow(from).status = Open
  BY <1>3 DEF OpenRow, SessionRow
<1>5. book' \in BookRow
  BY <1>1, <1>3 DEF BookRow, Status
<1>6. i \notin Live(sessions)
  BY <1>2 DEF NextId, SessionIds
<1>7. ASSUME NEW j \in Live(sessions)
      PROVE  /\ sessions'[j] \in SessionRow
             /\ ~sessions'[j].current
             /\ sessions'[j].status = sessions[j].status
  <2>1. j \in SessionIds /\ j # i /\ sessions[j] \in SessionRow
    BY <1>6, ConsistentTables DEF Live, Table
  <2>2. CASE j \in Current(sessions)
    BY <1>2, <2>1, <2>2 DEF SessionRow
  <2>3. CASE j \notin Current(sessions)
    BY <1>2, <2>1, <2>3 DEF SessionRow, Current
  <2> QED
    BY <2>2, <2>3
<1>8. sessions'[i] = OpenRow(from)
  BY <1>2
<1>9. \A j \in SessionIds \ (Live(sessions) \cup {i}) : sessions'[j] = Absent
  BY <1>2 DEF Live, Current
<1>10. sessions' \in Table
  <2>1. \A j \in SessionIds : sessions'[j] \in SessionRow \cup {Absent}
    BY <1>4, <1>7, <1>8, <1>9
  <2> QED
    BY <1>2, <2>1 DEF Table
<1>11. Live(sessions') = Live(sessions) \cup {i} /\ Current(sessions') = {i}
  <2>1. Live(sessions') = Live(sessions) \cup {i}
    BY <1>4, <1>7, <1>8, <1>9, RowsExist DEF Live
  <2> QED
    BY <1>4, <1>7, <1>8, <2>1 DEF Current
<1>12. Fits(sessions', book')
  BY <1>1, <1>4, <1>8, <1>10, <1>11 DEF Fits, CurrentIsUnique
<1>13. StaysClosed
  BY <1>7 DEF StaysClosed
<1>14. OnlyDeleteHidesOpen
  BY <1>1, StatusesDiffer DEF OnlyDeleteHidesOpen, OpenBesideFinished
<1>15. logged' \subseteq Live(sessions') \cup {NoSession}
  BY <1>1, <1>11, ConsistentTables
<1> QED
  BY <1>5, <1>12, <1>13, <1>14, <1>15, FitIsConsistent DEF GoodStep

\* The requests on the progress log change neither the book nor its sessions.
LEMMA ProgressStep ==
    ASSUME Consistent, UNCHANGED <<book, sessions>>,
           logged' \subseteq Live(sessions) \cup {NoSession},
           book = Absent => logged' = {}
    PROVE  GoodStep
<1>1. Live(sessions') = Live(sessions) /\ Current(sessions') = Current(sessions)
  BY DEF Live, Current
<1>2. StaysClosed
  BY ConsistentTables, StatusesDiffer DEF StaysClosed, Current
<1>3. OnlyDeleteHidesOpen
  BY <1>1 DEF OnlyDeleteHidesOpen, OpenBesideFinished
<1>4. ASSUME book = Absent PROVE Consistent'
  BY <1>1, <1>4
     DEF Consistent, TypeOK, AtMostOneCurrent, CurrentIsUnique, CurrentIsOpen,
         ReadingShowsItsSession, StartedHasSession, NothingOutlivesBook,
         ProgressHasSession
<1>5. ASSUME book # Absent PROVE Consistent'
  <2>1. book' \in BookRow /\ Fits(sessions', book')
    BY <1>5, ConsistentTables
  <2> QED
    BY <1>1, <2>1, FitIsConsistent
<1> QED
  BY <1>2, <1>3, <1>4, <1>5 DEF GoodStep

\* create_progress_entry names an existing session.
LEMMA LogProgressStep ==
    ASSUME Consistent, NEW owner \in Owners, LogProgress(owner)
    PROVE  GoodStep
<1>1. DefaultOwner \in Live(sessions) \cup {NoSession}
  BY LatestExists, ConsistentTables DEF DefaultOwner, Current, Table
<1> QED
  BY <1>1, ProgressStep, ConsistentTables DEF LogProgress

\* delete_progress_entry only shortens the log.
LEMMA RemoveProgressStep ==
    ASSUME Consistent, NEW owner \in SessionIds \cup {NoSession}, RemoveProgress(owner)
    PROVE  GoodStep
BY ProgressStep, ConsistentTables DEF RemoveProgress

\* Nothing has happened yet.
LEMMA InitConsistent == Init => Consistent
<1> SUFFICES ASSUME Init PROVE Consistent
  OBVIOUS
<1>1. Live(sessions) = {} /\ Current(sessions) = {}
  BY DEF Init, Live, Current
<1> QED
  BY <1>1
     DEF Init, Consistent, TypeOK, AtMostOneCurrent, CurrentIsUnique, CurrentIsOpen,
         ReadingShowsItsSession, StartedHasSession, NothingOutlivesBook,
         ProgressHasSession

\* Every step keeps the invariant and is good.
LEMMA StepIsGood ==
    ASSUME Consistent, [Next]_vars
    PROVE  GoodStep
<1>1. ASSUME BookRequest PROVE GoodStep
  BY <1>1, CreateBookStep, UpdateBookStep, TransitionStep, DeleteBookStep DEF BookRequest
<1>2. ASSUME SessionRequest PROVE GoodStep
  BY <1>2, AddPastSessionStep, EditSessionStep, DeleteOnlySessionStep,
     DeleteSessionStep, ReadAgainStep DEF SessionRequest
<1>3. ASSUME ProgressRequest PROVE GoodStep
  BY <1>3, LogProgressStep, RemoveProgressStep DEF ProgressRequest
<1>4. ASSUME UNCHANGED vars PROVE GoodStep
  BY <1>4, ProgressStep, ConsistentTables DEF vars
<1> QED
  BY <1>1, <1>2, <1>3, <1>4 DEF Next

-----------------------------------------------------------------------------
(* The theorems. *)

\* The invariant holds in every reachable state.
THEOREM ConsistentInvariant == Spec => []Consistent
<1>1. Init => Consistent
  BY InitConsistent
<1>2. Consistent /\ [Next]_vars => Consistent'
  BY StepIsGood DEF GoodStep
<1> QED
  BY <1>1, <1>2, PTL DEF Spec

\* Every reachable row has valid columns: no date in the future gets past the
\* validation of any request, whatever the automation fills in.
THEOREM TypeCorrect == Spec => []TypeOK
<1>1. Consistent => TypeOK
  BY DEF Consistent
<1> QED
  BY <1>1, ConsistentInvariant, PTL

\* No sequence of requests gives a book two current sessions, or leaves the
\* flag on a session that is not being read.
THEOREM CurrentSession == Spec => [](AtMostOneCurrent /\ CurrentIsOpen)
<1>1. Consistent => AtMostOneCurrent /\ CurrentIsOpen
  BY DEF Consistent
<1> QED
  BY <1>1, ConsistentInvariant, PTL

\* A book that is currently_reading shows its current session, and a started
\* book has a session, whatever was edited, deleted or read again before.
THEOREM BookShowsItsSessions ==
    Spec => [](ReadingShowsItsSession /\ StartedHasSession)
<1>1. Consistent => ReadingShowsItsSession /\ StartedHasSession
  BY DEF Consistent
<1> QED
  BY <1>1, ConsistentInvariant, PTL

\* Deleting a book or a session leaves nothing that refers to it.
THEOREM NothingDangles == Spec => [](NothingOutlivesBook /\ ProgressHasSession)
<1>1. Consistent => NothingOutlivesBook /\ ProgressHasSession
  BY DEF Consistent
<1> QED
  BY <1>1, ConsistentInvariant, PTL

\* No request reopens a finished read.
THEOREM FinishedReadsStayClosed == Spec => FinishedStaysClosed
<1>1. Consistent /\ [Next]_vars => [StaysClosed]_vars
  BY StepIsGood DEF GoodStep
<1> QED
  BY <1>1, ConsistentInvariant, PTL DEF Spec, FinishedStaysClosed

\* Only the deletion of a session can hide an open session behind a finished
\* book.
THEOREM OnlyDeletionHidesOpen == Spec => OpenHiddenOnlyByDelete
<1>1. Consistent /\ [Next]_vars => [OnlyDeleteHidesOpen]_vars
  BY StepIsGood DEF GoodStep
<1> QED
  BY <1>1, ConsistentInvariant, PTL DEF Spec, OpenHiddenOnlyByDelete

\* The session a book shows as its current one is being read.
THEOREM CurrentIsOpenAlways == Spec => []CurrentIsOpen
BY CurrentSession, PTL

\* A book that was started keeps a session, whichever of them are deleted.
THEOREM StartedBookHasSession == Spec => []StartedHasSession
BY BookShowsItsSessions, PTL

\* Every progress entry names a session that is there.
THEOREM ProgressNamesSession == Spec => []ProgressHasSession
BY NothingDangles, PTL

=============================================================================
