------------------------------- MODULE Catalog -------------------------------
(***************************************************************************)
(* One user's books with their tags and authors, as a value: a catalog is  *)
(* a record [books, labels, links], and the operators are the helpers the  *)
(* request handlers and the file import run inside a transaction.  Tags    *)
(* (services/tags.py) and authors (services/authors.py) are two tables of  *)
(* the same shape; a label is a row of one of them, its kind says which.   *)
(* SQLite gives a new row the largest id plus one, so the id of a deleted  *)
(* row comes back, and it does not enforce the foreign keys of the links.  *)
(***************************************************************************)
EXTENDS Naturals, FiniteSets, FiniteSetsExt

CONSTANTS
    Names,          \* the names of tags and authors
    KindOf          \* Names -> {"tag", "author"}: the table of a name

Kinds == {"tag", "author"}

ASSUME NamesAssumption == IsFiniteSet(Names) /\ KindOf \in [Names -> Kinds]

NoIsbn == "none"    \* books without an ISBN

Ids(rows) == {x.id : x \in rows}
NewId(rows) == IF rows = {} THEN 1 ELSE Max(Ids(rows)) + 1

Empty == [books |-> {}, labels |-> {}, links |-> {}]

-----------------------------------------------------------------------------

\* The unique constraint on user and ISBN refuses a book; several may have none.
IsbnTaken(d, isbn) == isbn # NoIsbn /\ \E b \in d.books : b.isbn = isbn

\* session.add(book) and flush; src says, for the properties, where it came from.
AddBook(d, isbn, src) ==
    [d EXCEPT !.books = @ \cup {[id |-> NewId(d.books), isbn |-> isbn, src |-> src]}]

Labels(d, kind) == {l \in d.labels : l.kind = kind}
LabelsNamed(d, names) == {l \in d.labels : l.name \in names}
LinksOf(d, b) == {k \in d.links : k.book = b}
Link(b, l) == [book |-> b, kind |-> l.kind, label |-> l.id]

OfKind(names, kind) == {n \in names : KindOf[n] = kind}

\* One row after the other, in some order, gets the next id of its table.
Order(names) == CHOOSE rank \in Bijection(names, 1..Cardinality(names)) : TRUE
NewLabels(d, kind, names) ==
    {[kind |-> kind, name |-> n,
      id |-> NewId(Labels(d, kind)) + Order(names)[n] - 1] : n \in names}

\* Mutant: the rows of the names are not looked up.
AddLabelsAlways(d, names) ==
    [d EXCEPT !.labels = @ \cup UNION {NewLabels(d, kind, OfKind(names, kind)) : kind \in Kinds}]

\* The names without a row get one.
AddLabels(d, names) ==
    LET fresh == names \ {l.name : l \in d.labels}
    IN  [d EXCEPT !.labels = @ \cup
            UNION {NewLabels(d, kind, OfKind(fresh, kind)) : kind \in Kinds}]

\* sync_book_tags and sync_book_authors: the links of one kind of a book become
\* those of the given names, rows being made as needed.  The links of no other
\* book change, and no label goes.
SyncBookLabels(d, b, kind, names) ==
    LET full == AddLabels(d, names) IN
    [full EXCEPT !.links = {k \in @ : k.book # b \/ k.kind # kind} \cup
                           {Link(b, l) : l \in LabelsNamed(full, names)}]
SyncBookTags(d, b, names) == SyncBookLabels(d, b, "tag", OfKind(names, "tag"))
SyncBookAuthors(d, b, names) == SyncBookLabels(d, b, "author", OfKind(names, "author"))

\* The labels no link names.
Orphans(d, kind) ==
    {l \in Labels(d, kind) : ~\E k \in d.links : k.kind = kind /\ k.label = l.id}
CleanupOrphanTags(d) == [d EXCEPT !.labels = @ \ Orphans(d, "tag")]
CleanupOrphanAuthors(d) == [d EXCEPT !.labels = @ \ Orphans(d, "author")]

\* A new book with its labels: create_book, import_book and a row of a file.
AddLabelled(d, isbn, src, names) ==
    LET b == NewId(d.books)
    IN  SyncBookAuthors(SyncBookTags(AddBook(d, isbn, src), b, names), b, names)

\* Every link names a book and a label, and every label is in use.
LinkWhole(d, k) ==
    /\ k.book \in Ids(d.books)
    /\ k.label \in Ids(Labels(d, k.kind))
LabelUsed(d, l) == \E k \in d.links : k.kind = l.kind /\ k.label = l.id

\* The tables and their unique columns; the books are of what the set books says.
Label == [kind : Kinds, id : Nat, name : Names]
LinkRow == [book : Nat, kind : Kinds, label : Nat]
Tables(d, books) ==
    /\ d \in [books : SUBSET books, labels : SUBSET Label, links : SUBSET LinkRow]
    /\ IsFiniteSet(d.books) /\ IsFiniteSet(d.labels)
    /\ \A b, c \in d.books : b.id = c.id => b = c
    /\ \A l \in d.labels : l.kind = KindOf[l.name]
    /\ \A l, m \in d.labels :
          l.name = m.name \/ (l.kind = m.kind /\ l.id = m.id) => l = m

\* The unique constraint on the ISBNs of a user's books.
IsbnsDiffer(d) ==
    \A b, c \in d.books : b.isbn = c.isbn /\ b.isbn # NoIsbn => b = c
=============================================================================
