--------------------------- MODULE CatalogRequests ---------------------------
(***************************************************************************)
(* The requests that change a user's catalog, beside something else that   *)
(* may hold SQLite's write lock.  A request first reads, outside of any    *)
(* transaction (its driver begins one with the first write), and then      *)
(* writes and commits: Ask and Write.  The handlers create_book,           *)
(* import_book and update_book are coroutines of the one event loop;       *)
(* delete_book and batch_tags run in threads.  A coroutine that meets the  *)
(* lock waits for it inside the database driver and so stops the loop.     *)
(***************************************************************************)
EXTENDS Catalog

CONSTANTS
    Requests,       \* every request is made once
    Isbns,          \* the ISBNs a client may send
    Labelings,      \* the sets of tags and authors it may send
    None

VARIABLES
    db,             \* the committed catalog
    lock,           \* who is inside a write transaction, or None
    loop,           \* the coroutine that stops the event loop, or None
    req,            \* the requests
    late            \* history: blemishes left by requests that were overtaken, and
                    \* the labels of such links

Coroutines == {"create", "import_one", "patch"}
Threads == {"delete", "batch"}

\* update_book with a further changed column writes the row before it looks up
\* tags ("own"), without one it looks them up first ("clean").
Idle == [op |-> "none", pc |-> "idle", books |-> {}, isbn |-> NoIsbn, add |-> {},
         remove |-> {}, own |-> FALSE, seen |-> Empty, stale |-> FALSE]

Answered == {"ok", "refused", "locked"}

Blemishes(d) ==
    {k \in d.links : ~LinkWhole(d, k)} \cup {l \in d.labels : ~LabelUsed(d, l)}

\* A commit of d; the requests that have read before it are overtaken.  By is
\* the request that commits, None for an import.  A label whose link names no book
\* may lose it to a new book with that id.
Overtaken(d) ==
    [q \in Requests |-> IF req[q].pc = "write" /\ d # db
                        THEN [req[q] EXCEPT !.stale = TRUE] ELSE req[q]]
Suspect(d) == {l \in d.labels : \E k \in late \cap db.links : k.kind = l.kind /\ k.label = l.id}
Remember(d, by) ==
    late' = (late \cup Suspect(d)
                  \cup IF by \in Requests /\ req[by].stale THEN Blemishes(d) ELSE {})
                \cap (d.links \cup d.labels)

Answer(r, how) == [req EXCEPT ![r] = [Idle EXCEPT !.pc = how]]
CommitAnswer(r, result) ==
    \E d \in {result} :
        /\ db' = d
        /\ Remember(d, r)
        /\ req' = [Overtaken(d) EXCEPT ![r] = [Idle EXCEPT !.pc = "ok"]]
Fail(r) == req' = Answer(r, "refused") /\ UNCHANGED <<db, late>>

-----------------------------------------------------------------------------

Asks(r, new) == req' = [req EXCEPT ![r] = [new EXCEPT !.pc = "write"]]

\* create_book and import_book; the second asks for the ISBN first.
AskCreate(r) ==
    \E isbn \in Isbns, names \in Labelings :
        Asks(r, [Idle EXCEPT !.op = "create", !.isbn = isbn, !.add = names])
AskImport(r) ==
    \E isbn \in Isbns, names \in Labelings :
        IF IsbnTaken(db, isbn) THEN req' = Answer(r, "refused")
        ELSE Asks(r, [Idle EXCEPT !.op = "import_one", !.isbn = isbn, !.add = names])

\* update_book that sets the tags of a book.
AskPatch(r) ==
    \E b \in Ids(db.books), names \in Labelings, own \in BOOLEAN :
        Asks(r, [Idle EXCEPT !.op = "patch", !.books = {b}, !.add = OfKind(names, "tag"),
                             !.own = own, !.seen = IF own THEN Empty ELSE db])

AskDelete(r) ==
    \E b \in Ids(db.books) :
        Asks(r, [Idle EXCEPT !.op = "delete", !.books = {b}, !.seen = db])

\* batch_tags: at least one name, none both added and removed, all books there.
AskBatch(r) ==
    \E books \in (SUBSET Ids(db.books)) \ {{}},
       add \in SUBSET OfKind(Names, "tag"), remove \in SUBSET OfKind(Names, "tag") :
        /\ add \cup remove # {}
        /\ add \cap remove = {}
        /\ Asks(r, [Idle EXCEPT !.op = "batch", !.books = books, !.add = add,
                                !.remove = remove, !.seen = db])

Ask(r) ==
    /\ req[r].pc = "idle"
    /\ \/ loop = None /\ (AskCreate(r) \/ AskImport(r) \/ AskPatch(r))
       \/ AskDelete(r)
       \/ AskBatch(r)
    /\ UNCHANGED <<db, lock, loop, late>>

-----------------------------------------------------------------------------

\* Mutant: the answer to the question asked before the cover is relied upon.
WriteNewUnchecked(r) ==
    /\ req[r].op \in {"create", "import_one"}
    /\ IF req[r].op = "create" /\ IsbnTaken(db, req[r].isbn) THEN Fail(r)
       ELSE CommitAnswer(r, AddLabelled(db, req[r].isbn, <<r, 0>>, req[r].add))

\* The unique constraint decides, whatever import_book has seen before.
WriteNew(r) ==
    /\ req[r].op \in {"create", "import_one"}
    /\ IF IsbnTaken(db, req[r].isbn) THEN Fail(r)
       ELSE CommitAnswer(r, AddLabelled(db, req[r].isbn, <<r, 0>>, req[r].add))

BookOf(r) == CHOOSE b \in req[r].books : TRUE

\* With an UPDATE of its own the row must be there, and the tags are looked up
\* inside the transaction.
WriteOwnPatch(r) ==
    /\ req[r].op = "patch" /\ req[r].own
    /\ IF BookOf(r) \notin Ids(db.books) THEN Fail(r)
       ELSE CommitAnswer(r, CleanupOrphanTags(SyncBookTags(db, BookOf(r), req[r].add)))

\* The rows that the names had when they were looked up, and the names without.
SeenLabels(r, names) == LabelsNamed(req[r].seen, names)
Missing(r, names) == names \ {l.name : l \in req[r].seen.labels}

\* Without one, tags and links are those it has seen: a row that appeared since
\* breaks a unique constraint, one that vanished is linked all the same.  When
\* there is nothing to write, the orphans are those it has seen, too.
WriteCleanPatch(r) ==
    LET b == BookOf(r)
        fresh == AddLabels(db, Missing(r, req[r].add))
        target == {Link(b, l) : l \in SeenLabels(r, req[r].add)
                                     \cup LabelsNamed(fresh, Missing(r, req[r].add))}
        old == {k \in LinksOf(req[r].seen, b) : k.kind = "tag"}
        linked == [fresh EXCEPT !.links = (@ \ (old \ target)) \cup target]
    IN  /\ req[r].op = "patch" /\ ~req[r].own
        /\ IF \/ LabelsNamed(db, Missing(r, req[r].add)) # {}
              \/ (target \ old) \cap db.links # {}
           THEN Fail(r)
           ELSE IF target = old
           THEN CommitAnswer(r, [db EXCEPT !.labels = @ \ Orphans(req[r].seen, "tag")])
           ELSE CommitAnswer(r, CleanupOrphanTags(linked))

\* Mutant: deleting a book forgets the authors it leaves without books.
WriteDeleteTagsOnly(r) ==
    /\ req[r].op = "delete"
    /\ CommitAnswer(r, CleanupOrphanTags(
          [db EXCEPT !.links = @ \ LinksOf(req[r].seen, BookOf(r)),
                     !.books = {x \in @ : x.id # BookOf(r)}]))

\* delete_book removes the links it has read, the book, and what is orphaned.
WriteDelete(r) ==
    LET b == BookOf(r)
        bare == [db EXCEPT !.links = @ \ LinksOf(req[r].seen, b),
                           !.books = {x \in @ : x.id # b}]
    IN  /\ req[r].op = "delete"
        /\ CommitAnswer(r, CleanupOrphanAuthors(CleanupOrphanTags(bare)))

\* apply_batch_tags takes the links it has seen out, as the product of their
\* books and tags, puts the target in, and drops the removed tags without books.
Pairs(books, labels) == {Link(b, l) : b \in books, l \in labels}
Without(links, seen) ==
    {k \in links : ~\E x, y \in seen :
        k.book = x.book /\ k.kind = y.kind /\ k.label = y.label}
WriteBatch(r) ==
    /\ req[r].op = "batch"
    /\ \E fresh \in {AddLabels(db, Missing(r, req[r].add))} :
       LET added == Pairs(req[r].books, SeenLabels(r, req[r].add)
                          \cup LabelsNamed(fresh, Missing(r, req[r].add)))
           removed == SeenLabels(r, req[r].remove)
           seen == req[r].seen.links \cap (added \cup Pairs(req[r].books, removed))
           target == (seen \cup added) \ Pairs(req[r].books, removed)
           left == Without(db.links, seen)
       IN  IF LabelsNamed(db, Missing(r, req[r].add)) # {} \/ target \cap left # {}
           THEN Fail(r)
           ELSE \E linked \in {[fresh EXCEPT !.links = left \cup target]} :
                CommitAnswer(r, [linked EXCEPT !.labels =
                    {l \in @ : LabelUsed(linked, l)
                               \/ ~\E u \in removed : u.kind = l.kind /\ u.id = l.id}])

Write(r) ==
    /\ req[r].pc = "write"
    /\ lock = None
    /\ req[r].op \in Coroutines => loop \in {None, r}
    /\ loop' = IF loop = r THEN None ELSE loop
    /\ WriteNew(r) \/ WriteOwnPatch(r) \/ WriteCleanPatch(r) \/ WriteDelete(r) \/ WriteBatch(r)
    /\ UNCHANGED lock

\* A coroutine meets the lock: nothing else runs on the loop until it has it.
StopLoop(r) ==
    /\ req[r].pc = "write" /\ req[r].op \in Coroutines
    /\ lock # None /\ loop = None
    /\ loop' = r
    /\ UNCHANGED <<db, lock, req, late>>

\* Mutant: the driver waits for the lock without a timeout.
WaitOn(r) ==
    /\ req[r].pc = "write"
    /\ lock # None
    /\ UNCHANGED <<db, lock, loop, req, late>>

\* The busy timeout of the driver: "database is locked", an internal error.
GiveUp(r) ==
    /\ req[r].pc = "write"
    /\ lock # None
    /\ req[r].op \in Coroutines => loop = r
    /\ loop' = IF loop = r THEN None ELSE loop
    /\ req' = Answer(r, "locked")
    /\ UNCHANGED <<db, lock, late>>
=============================================================================
