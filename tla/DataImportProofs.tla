--------------------------- MODULE DataImportProofs ---------------------------
(***************************************************************************)
(* The catalog and the import of files for any library, files, names and   *)
(* requests: the unique columns, the links, the verdict of the validation, *)
(* and the contract that the streams implement step by step.               *)
(***************************************************************************)
EXTENDS DataImport, FiniteSetTheorems, FunctionTheorems, WellFoundedInduction, TLAPS

Active == {"row", "download", "store", "sent"}

FilesFit == \A i \in Imports : file[i] \in Seq(FileRow) /\ Len(file[i]) \in 1..MaxRows

\* A request that has looked something up, and was not overtaken, has seen the
\* catalog there is.
Looks(q) == q.op \in {"delete", "batch"} \/ (q.op = "patch" /\ ~q.own)
SeenFits == \A r \in Requests :
    req[r].pc = "write" /\ ~req[r].stale /\ Looks(req[r]) => req[r].seen = db

\* What the clients may ask for.
AskFits(q) ==
    /\ q.op \in {"patch", "batch"} => q.add \subseteq OfKind(Names, "tag")
    /\ q.op = "patch" => q.books # {}
    /\ q.op = "patch" /\ ~q.own => q.books \subseteq Ids(q.seen.books)
    /\ q.op = "batch" => /\ q.books \subseteq Ids(q.seen.books) /\ q.books # {}
                         /\ q.remove \subseteq OfKind(Names, "tag")
                         /\ q.add \cap q.remove = {}
AsksFit == \A r \in Requests : req[r].pc = "write" => AskFits(req[r])

\* The transaction of an import has no blemish that its commit does not excuse.
Sound(d) == Blemishes(d) \subseteq late \cup Suspect(d)
WorkSound == Sound(work)

\* Of an import that is not to be seen yet the library has no book.
Unseen(i) == \A b \in db.books : \A k \in DOMAIN file[i] : b.src # <<i, k>>
StreamFits(i) ==
    /\ imp[i].pc \in {"idle", "checked"} => imp[i].done = 0 /\ imp[i].mode = "none" /\ Unseen(i)
    /\ imp[i].pc \in Active =>
          /\ imp[i].mode \in Modes
          /\ imp[i].done <= Len(file[i])
          /\ imp[i].pc # "sent" => imp[i].done < Len(file[i])
          /\ imp[i].pc = "sent" => imp[i].done > 0
          /\ imp[i].mode = "rollback_all" => Unseen(i) /\ (imp[i].done > 0 => lock = i)
StreamsFit == \A i \in Imports : StreamFits(i)

\* The holder of the lock has stored all of its rows so far, and nothing else.
HolderFits == lock # None =>
    /\ imp[lock].pc \in Active /\ imp[lock].mode = "rollback_all"
    /\ db.books \subseteq work.books
    /\ \A b \in work.books \ db.books : \E k \in DOMAIN file[lock] : b.src = <<lock, k>>
    /\ \A k \in 1..imp[lock].done : \E b \in work.books : b.src = <<lock, k>>

\* A verdict is one about the file, and so is every failure.
VerdictFits(i) ==
    /\ imp[i].pc = "idle" => ~imp[i].valid
    /\ imp[i].valid => 
          /\ \A k \in DOMAIN file[i] : ~RowInvalid(file[i][k])
          /\ \A k \in DOMAIN file[i] : RowWarned(file[i][k], imp[i].known) => k \in imp[i].warned
    /\ \A f \in imp[i].failed :
          /\ f.row \in DOMAIN file[i]
          /\ f.why = "refused" => RowRefused(file[i][f.row])
          /\ f.why = "duplicate" => NoBlankIsbn(file[i][f.row])
VerdictsFit == \A i \in Imports : VerdictFits(i)

Inv ==
    /\ TypeOK /\ FilesFit
    /\ SeenFits /\ AsksFit
    /\ CatalogSound /\ WorkSound
    /\ IsbnOnce
    /\ StreamsFit /\ HolderFits /\ VerdictsFit

-----------------------------------------------------------------------------
(* The ids of a table.                                                     *)

\* A finite set of numbers has a greatest: else the sets of the numbers above one
\* of them would descend for ever.
LEMMA FiniteHasMax ==
    ASSUME NEW S \in SUBSET Nat, IsFiniteSet(S), S # {}
    PROVE  \E x \in S : \A y \in S : x >= y
<1> DEFINE Above(x) == {y \in S : y > x}
           T == {Above(x) : x \in S}
<1>1. IsWellFoundedOn(StrictSubsetOrdering(S), FiniteSubsetsOf(S))
  BY FS_StrictSubsetOrderingWellFounded
<1>2. T \subseteq FiniteSubsetsOf(S)
  <2>1. \A x \in S : Above(x) \in SUBSET S /\ IsFiniteSet(Above(x))
    BY FS_Subset
  <2> QED
    BY <2>1 DEF FiniteSubsetsOf
<1>3. PICK A \in T : \A B \in T : <<B, A>> \notin StrictSubsetOrdering(S)
  <2> HIDE DEF T
  <2>1. T # {}
    BY DEF T
  <2> QED
    BY <1>1, <1>2, <2>1, WFMin
<1>4. PICK x \in S : A = Above(x)
  OBVIOUS
<1>5. ASSUME NEW y \in S, y > x
      PROVE  FALSE
  <2>0. x \in Nat /\ y \in Nat /\ S \subseteq Nat
    OBVIOUS
  <2>1. Above(y) \in T
    OBVIOUS
  <2>2. \A z \in Nat : z > y => z > x
    BY <2>0, <1>5
  <2>3. Above(y) \subseteq A
    BY <2>0, <2>2, <1>4
  <2>4. y \in A /\ y \notin Above(y)
    BY <2>0, <1>4, <1>5
  <2>5. <<Above(y), A>> \in StrictSubsetOrdering(S)
    BY <2>3, <2>4, <1>4 DEF StrictSubsetOrdering
  <2> QED
    BY <2>1, <2>5, <1>3
<1> QED
  BY <1>5

\* The next id is above every id in use.
LEMMA NewIdIsNew ==
    ASSUME NEW rows, IsFiniteSet(rows), \A x \in rows : x.id \in Nat
    PROVE  NewId(rows) \in Nat /\ \A x \in rows : x.id < NewId(rows)
<1>1. CASE rows = {}
  BY <1>1 DEF NewId
<1>2. CASE rows # {}
  <2> DEFINE f == [x \in rows |-> x.id]
  <2>1. f \in Surjection(rows, Ids(rows))
    BY DEF Surjection, Ids
  <2>2. IsFiniteSet(Ids(rows))
    BY <2>1, FS_Surjection
  <2>3. Ids(rows) \subseteq Nat /\ Ids(rows) # {}
    BY <1>2 DEF Ids
  <2>4. PICK m \in Ids(rows) : \A y \in Ids(rows) : m >= y
    BY <2>2, <2>3, FiniteHasMax
  <2>5. Max(Ids(rows)) \in Ids(rows) /\ \A y \in Ids(rows) : Max(Ids(rows)) >= y
    BY <2>4 DEF Max
  <2>6. Max(Ids(rows)) \in Nat
    BY <2>3, <2>5
  <2>7. NewId(rows) = Max(Ids(rows)) + 1
    BY <1>2 DEF NewId
  <2>8. \A x \in rows : x.id \in Ids(rows)
    BY DEF Ids
  <2> QED
    BY <2>3, <2>5, <2>6, <2>7, <2>8
<1> QED
  BY <1>1, <1>2

\* Names are numbered from 1, each with a number of its own.
LEMMA OrderNumbers ==
    ASSUME NEW names, IsFiniteSet(names)
    PROVE  /\ \A n \in names : Order(names)[n] \in Nat \ {0}
           /\ \A m, n \in names : Order(names)[m] = Order(names)[n] => m = n
<1>1. Cardinality(names) \in Nat /\ ExistsBijection(1..Cardinality(names), names)
  BY FS_CardinalityType
<1>2. ExistsBijection(names, 1..Cardinality(names))
  BY <1>1, Fun_ExistsBijSymmetric
<1>3. Order(names) \in Bijection(names, 1..Cardinality(names))
  BY <1>2 DEF Order, ExistsBijection
<1> QED
  BY <1>1, <1>3 DEF Bijection, Injection, Surjection, IsInjective

-----------------------------------------------------------------------------
(* The helpers on a catalog.                                               *)

\* The columns of a catalog.
LEMMA CatalogFields ==
    ASSUME NEW d, Tables(d, Book)
    PROVE  /\ d.books \subseteq Book /\ d.labels \subseteq Label /\ d.links \subseteq LinkRow
           /\ IsFiniteSet(d.books) /\ IsFiniteSet(d.labels)
           /\ \A b \in d.books : b.id \in Nat
           /\ \A l \in d.labels : l.kind \in Kinds /\ l.id \in Nat /\ l.name \in Names
                                  /\ l.kind = KindOf[l.name]
           /\ \A k \in d.links : k.kind \in Kinds /\ k.book \in Nat /\ k.label \in Nat
           /\ \A b, c \in d.books : b.id = c.id => b = c
           /\ \A l, m \in d.labels : l.name = m.name => l = m
           /\ \A l, m \in d.labels : l.kind = m.kind /\ l.id = m.id => l = m
BY DEF Tables, Book, Label, LinkRow

\* A label is no link.
LEMMA LabelsAreNoLinks == Label \cap LinkRow = {}
<1>1. ASSUME NEW x, x \in Label, x \in LinkRow PROVE FALSE
  <2>1. DOMAIN x = {"kind", "id", "name"}
    BY <1>1 DEF Label
  <2>2. DOMAIN x = {"book", "kind", "label"}
    BY <1>1 DEF LinkRow
  <2> QED
    BY <2>1, <2>2
<1> QED
  BY <1>1

LEMMA EmptyCatalog ==
    /\ Tables(Empty, Book) /\ Blemishes(Empty) = {} /\ IsbnsDiffer(Empty)
    /\ Empty.books = {} /\ Empty.labels = {} /\ Empty.links = {}
BY FS_EmptySet DEF Empty, Tables, Blemishes, IsbnsDiffer

\* The new rows of a table have ids above the others, and each has its own.
LEMMA NewLabelsFit ==
    ASSUME NEW d, Tables(d, Book), NEW kind \in Kinds, NEW names \in SUBSET OfKind(Names, kind)
    PROVE  /\ NewLabels(d, kind, names) \subseteq Label
           /\ IsFiniteSet(NewLabels(d, kind, names))
           /\ \A l \in NewLabels(d, kind, names) :
                 /\ l.kind = kind /\ l.name \in names /\ l.kind = KindOf[l.name]
                 /\ \A m \in Labels(d, kind) : l.id > m.id
           /\ \A l, m \in NewLabels(d, kind, names) :
                 l.name = m.name \/ l.id = m.id => l = m
           /\ \A n \in names : \E l \in NewLabels(d, kind, names) : l.name = n
<1>1. IsFiniteSet(names) /\ names \subseteq Names /\ \A n \in names : KindOf[n] = kind
  BY NamesAssumption, FS_Subset DEF OfKind
<1>2. IsFiniteSet(Labels(d, kind)) /\ \A l \in Labels(d, kind) : l.id \in Nat
  BY CatalogFields, FS_Subset DEF Labels
<1> DEFINE top == NewId(Labels(d, kind))
           new(n) == [kind |-> kind, name |-> n, id |-> top + Order(names)[n] - 1]
<1>3. top \in Nat /\ \A x \in Labels(d, kind) : x.id < top
  BY <1>2, NewIdIsNew
<1>4. \A n \in names : Order(names)[n] \in Nat \ {0}
  BY <1>1, OrderNumbers
<1>5. \A m, n \in names : Order(names)[m] = Order(names)[n] => m = n
  BY <1>1, OrderNumbers
<1>6. NewLabels(d, kind, names) = {new(n) : n \in names}
  BY DEF NewLabels
<1>7. IsFiniteSet(NewLabels(d, kind, names))
  <2> DEFINE f == [n \in names |-> new(n)]
  <2>1. f \in Surjection(names, {new(n) : n \in names})
    BY DEF Surjection
  <2> QED
    BY <2>1, <1>1, <1>6, FS_Surjection
<1> HIDE DEF top
<1>8. \A n \in names : new(n).id \in Nat /\ new(n).id >= top
  BY <1>3, <1>4
<1>9. \A m, n \in names : new(m).id = new(n).id => m = n
  BY <1>3, <1>4, <1>5
<1>10. \A n \in names : new(n) \in Label
  BY <1>1, <1>8 DEF Label
<1>11. \A n \in names : \A m \in Labels(d, kind) : new(n).id > m.id
  BY <1>2, <1>3, <1>8
<1>12. \A n \in names : new(n).kind = kind /\ new(n).name = n
  OBVIOUS
<1>13. \A l \in NewLabels(d, kind, names) : l.name \in names /\ l = new(l.name)
  BY <1>6, <1>12
<1>14. \A n \in names : new(n) \in NewLabels(d, kind, names)
  BY <1>6
<1> HIDE DEF new
<1>15. ASSUME NEW l \in NewLabels(d, kind, names)
      PROVE  /\ l \in Label /\ l.kind = kind /\ l.name \in names /\ l.kind = KindOf[l.name]
             /\ \A m \in Labels(d, kind) : l.id > m.id
  BY <1>1, <1>10, <1>11, <1>12, <1>13
<1>16. \A l, m \in NewLabels(d, kind, names) : l.name = m.name \/ l.id = m.id => l = m
  BY <1>9, <1>13
<1>17. \A n \in names : \E l \in NewLabels(d, kind, names) : l.name = n
  BY <1>12, <1>14
<1> QED
  BY <1>7, <1>15, <1>16, <1>17

\* What AddLabels does to a catalog.
LEMMA AddLabelsEffect ==
    ASSUME NEW d, Tables(d, Book), NEW names \in SUBSET Names
    PROVE  LET e == AddLabels(d, names) IN
           /\ Tables(e, Book)
           /\ e.books = d.books /\ e.links = d.links /\ d.labels \subseteq e.labels
           /\ \A l \in e.labels \ d.labels : l.name \in names
           /\ \A n \in names : \E l \in e.labels : l.name = n
<1> DEFINE fresh == names \ {l.name : l \in d.labels}
           news(kind) == NewLabels(d, kind, OfKind(fresh, kind))
           added == news("tag") \cup news("author")
           e == AddLabels(d, names)
<1>1. UNION {news(kind) : kind \in Kinds} = added
  BY DEF Kinds
<1>2. e = [d EXCEPT !.labels = @ \cup added]
  BY <1>1 DEF AddLabels
<1>3. e.books = d.books /\ e.links = d.links /\ e.labels = d.labels \cup added
      /\ e \in [books : SUBSET d.books, labels : {d.labels \cup added}, links : SUBSET d.links]
  BY <1>2 DEF Tables
<1>4. \A kind \in Kinds : OfKind(fresh, kind) \in SUBSET OfKind(Names, kind)
  BY DEF OfKind
<1>5. \A kind \in Kinds : \A n \in OfKind(fresh, kind) : n \in fresh /\ KindOf[n] = kind
  BY DEF OfKind
<1>6. \A n \in fresh : KindOf[n] \in Kinds /\ n \in OfKind(fresh, KindOf[n])
  BY NamesAssumption DEF OfKind
<1> HIDE DEF fresh
<1>7. ASSUME NEW kind \in Kinds
      PROVE  /\ news(kind) \subseteq Label /\ IsFiniteSet(news(kind))
             /\ \A l \in news(kind) :
                   /\ l.kind = kind /\ l.name \in fresh /\ l.kind = KindOf[l.name]
                   /\ \A m \in Labels(d, kind) : l.id > m.id
             /\ \A l, m \in news(kind) : l.name = m.name \/ l.id = m.id => l = m
             /\ \A n \in OfKind(fresh, kind) : \E l \in news(kind) : l.name = n
  <2> DEFINE own == OfKind(fresh, kind)
  <2>1. own \in SUBSET OfKind(Names, kind) /\ \A n \in own : n \in fresh
    BY <1>4, <1>5
  <2> HIDE DEF own
  <2>2. /\ NewLabels(d, kind, own) \subseteq Label /\ IsFiniteSet(NewLabels(d, kind, own))
        /\ \A l \in NewLabels(d, kind, own) :
              /\ l.kind = kind /\ l.name \in own /\ l.kind = KindOf[l.name]
              /\ \A m \in Labels(d, kind) : l.id > m.id
        /\ \A l, m \in NewLabels(d, kind, own) : l.name = m.name \/ l.id = m.id => l = m
        /\ \A n \in own : \E l \in NewLabels(d, kind, own) : l.name = n
    BY <2>1, NewLabelsFit
  <2>3. news(kind) = NewLabels(d, kind, own)
    BY DEF own
  <2> HIDE DEF news
  <2> QED
    BY <2>1, <2>2, <2>3 DEF own
<1>8. added \subseteq Label /\ IsFiniteSet(added)
  BY <1>7, FS_Union DEF Kinds
<1>9. \A l \in added : l \in news(l.kind) /\ l.kind \in Kinds
  BY <1>7 DEF Kinds
<1> HIDE DEF news, added
<1>10. \A l \in added : l.name \in fresh /\ l.kind = KindOf[l.name]
  BY <1>7, <1>9
<1>11. ASSUME NEW l \in added, NEW m \in d.labels
       PROVE  l.name # m.name /\ (l.kind = m.kind => l.id # m.id)
  <2>1. l.name # m.name
    BY <1>10 DEF fresh
  <2>2. ASSUME l.kind = m.kind PROVE l.id # m.id
    <3>1. m \in Labels(d, l.kind)
      BY <2>2 DEF Labels
    <3>2. l.id > m.id /\ l.id \in Nat /\ m.id \in Nat
      BY <1>7, <1>8, <1>9, <3>1, CatalogFields DEF Label
    <3> QED
      BY <3>2
  <2> QED
    BY <2>1, <2>2
<1>12. \A l, m \in added : l.name = m.name \/ (l.kind = m.kind /\ l.id = m.id) => l = m
  <2>1. \A l, m \in added : l.name = m.name => l.kind = m.kind
    BY <1>10
  <2> QED
    BY <2>1, <1>7, <1>9
<1>13. IsFiniteSet(e.books) /\ IsFiniteSet(e.labels)
  <2>1. IsFiniteSet(d.labels \cup added)
    BY <1>8, CatalogFields, FS_Union
  <2> QED
    BY <2>1, <1>3, CatalogFields
<1>14. \A l, m \in e.labels : l.name = m.name \/ (l.kind = m.kind /\ l.id = m.id) => l = m
  BY <1>3, <1>11, <1>12, CatalogFields
<1>15. Tables(e, Book)
  <2>1. e \in [books : SUBSET Book, labels : SUBSET Label, links : SUBSET LinkRow]
    BY <1>3, <1>8, CatalogFields
  <2>2. \A b, c \in e.books : b.id = c.id => b = c
    BY <1>3, CatalogFields
  <2>3. \A l \in e.labels : l.kind = KindOf[l.name]
    BY <1>3, <1>10, CatalogFields
  <2> HIDE DEF e
  <2> QED
    BY <2>1, <2>2, <2>3, <1>13, <1>14 DEF Tables
<1>16. \A l \in e.labels \ d.labels : l.name \in names
  BY <1>3, <1>10 DEF fresh
<1>17. ASSUME NEW n \in names PROVE \E l \in e.labels : l.name = n
  <2>1. CASE n \in fresh
    <3>1. KindOf[n] \in Kinds /\ n \in OfKind(fresh, KindOf[n])
      BY <2>1, <1>6
    <3>2. PICK l \in news(KindOf[n]) : l.name = n
      BY <3>1, <1>7
    <3>3. l \in added
      BY <3>1, <3>2 DEF added, Kinds
    <3> QED
      BY <3>2, <3>3, <1>3
  <2>2. CASE n \notin fresh
    BY <2>2, <1>3 DEF fresh
  <2> QED
    BY <2>1, <2>2
<1> QED
  BY <1>3, <1>15, <1>16, <1>17

\* What a new row does to the books.
LEMMA AddBookEffect ==
    ASSUME NEW d, Tables(d, Book), NEW isbn \in Isbns \cup Texts,
           NEW src \in (Imports \cup Requests \cup {None}) \X Nat
    PROVE  LET e == AddBook(d, isbn, src)
               x == [id |-> NewId(d.books), isbn |-> isbn, src |-> src] IN
           /\ Tables(e, Book) /\ x \in Book
           /\ NewId(d.books) \in Nat /\ NewId(d.books) \notin Ids(d.books)
           /\ e.books = d.books \cup {x} /\ e.labels = d.labels /\ e.links = d.links
<1> DEFINE e == AddBook(d, isbn, src)
           x == [id |-> NewId(d.books), isbn |-> isbn, src |-> src]
<1>1. NewId(d.books) \in Nat /\ \A b \in d.books : b.id < NewId(d.books)
  BY CatalogFields, NewIdIsNew
<1>2. x \in Book /\ x.id = NewId(d.books)
  BY <1>1 DEF Book
<1>3. e = [d EXCEPT !.books = @ \cup {x}]
  BY DEF AddBook
<1> HIDE DEF x
<1>4. e.books = d.books \cup {x} /\ e.labels = d.labels /\ e.links = d.links
  BY <1>3 DEF Tables
<1>5. e \in [books : SUBSET Book, labels : SUBSET Label, links : SUBSET LinkRow]
  BY <1>2, <1>3 DEF Tables
<1>6. IsFiniteSet(e.books)
  <2>1. IsFiniteSet(d.books \cup {x})
    BY CatalogFields, FS_AddElement
  <2> QED
    BY <2>1, <1>4
<1>7. \A b, c \in e.books : b.id = c.id => b = c
  <2>1. \A b \in d.books : b.id # x.id
    BY <1>1, <1>2, CatalogFields
  <2> QED
    BY <2>1, <1>4, CatalogFields
<1>8. Tables(e, Book)
  <2> HIDE DEF e
  <2> QED
    BY <1>4, <1>5, <1>6, <1>7 DEF Tables
<1>9. NewId(d.books) \notin Ids(d.books)
  BY <1>1, CatalogFields DEF Ids
<1> QED
  BY <1>1, <1>2, <1>4, <1>8, <1>9 DEF x

\* What sync_book_tags and sync_book_authors do.
LEMMA SyncEffect ==
    ASSUME NEW d, Tables(d, Book), NEW b \in Nat, NEW kind \in Kinds,
           NEW names \in SUBSET Names
    PROVE  LET full == AddLabels(d, names)
               e == SyncBookLabels(d, b, kind, names) IN
           /\ Tables(e, Book)
           /\ e.books = d.books /\ e.labels = full.labels /\ d.labels \subseteq e.labels
           /\ \A l \in e.labels \ d.labels : l.name \in names
           /\ \A n \in names : \E l \in e.labels : l.name = n
           /\ e.links = {k \in d.links : k.book # b \/ k.kind # kind}
                        \cup {Link(b, l) : l \in LabelsNamed(e, names)}
<1> DEFINE full == AddLabels(d, names)
           e == SyncBookLabels(d, b, kind, names)
           new == {Link(b, l) : l \in LabelsNamed(full, names)}
<1>1. /\ Tables(full, Book)
      /\ full.books = d.books /\ full.links = d.links /\ d.labels \subseteq full.labels
      /\ \A l \in full.labels \ d.labels : l.name \in names
      /\ \A n \in names : \E l \in full.labels : l.name = n
  BY AddLabelsEffect
<1>2. e = [full EXCEPT !.links = {k \in @ : k.book # b \/ k.kind # kind} \cup new]
  BY DEF SyncBookLabels
<1>3. new \subseteq LinkRow
  <2> HIDE DEF full
  <2>1. \A l \in LabelsNamed(full, names) : l.kind \in Kinds /\ l.id \in Nat
    BY <1>1, CatalogFields DEF LabelsNamed
  <2> QED
    BY <2>1 DEF Link, LinkRow
<1> HIDE DEF full, new
<1>4. /\ e.books = full.books /\ e.labels = full.labels
      /\ e.links = {k \in full.links : k.book # b \/ k.kind # kind} \cup new
      /\ e \in [books : SUBSET Book, labels : SUBSET Label, links : SUBSET LinkRow]
  BY <1>1, <1>2, <1>3 DEF Tables
<1>5. LabelsNamed(e, names) = LabelsNamed(full, names)
  BY <1>4 DEF LabelsNamed
<1>6. Tables(e, Book)
  <2> HIDE DEF e
  <2> QED
    BY <1>1, <1>4 DEF Tables
<1> QED
  BY <1>1, <1>4, <1>5, <1>6 DEF new, full

\* The names that a new book gets its labels by.
LEMMA NamesByKind ==
    ASSUME NEW names \in SUBSET Names
    PROVE  /\ OfKind(names, "tag") \subseteq Names /\ OfKind(names, "author") \subseteq Names
           /\ names = OfKind(names, "tag") \cup OfKind(names, "author")
           /\ \A n \in OfKind(names, "tag") : KindOf[n] = "tag"
           /\ \A n \in OfKind(names, "author") : KindOf[n] = "author"
           /\ "tag" \in Kinds /\ "author" \in Kinds
BY NamesAssumption DEF OfKind, Kinds

\* What a new book with its labels does to a catalog.  All of the links that are of
\* its id are its own.
LEMMA AddLabelledEffect ==
    ASSUME NEW d, Tables(d, Book), NEW isbn \in Isbns \cup Texts,
           NEW src \in (Imports \cup Requests \cup {None}) \X Nat, NEW names \in SUBSET Names
    PROVE  LET e == AddLabelled(d, isbn, src, names)
               b == NewId(d.books)
               x == [id |-> b, isbn |-> isbn, src |-> src] IN
           /\ Tables(e, Book) /\ b \in Nat /\ b \notin Ids(d.books)
           /\ e.books = d.books \cup {x} /\ d.labels \subseteq e.labels
           /\ \A l \in e.labels \ d.labels : l.name \in names
           /\ e.links = {k \in d.links : k.book # b} \cup {Link(b, l) : l \in LabelsNamed(e, names)}
<1> DEFINE b == NewId(d.books)
           x == [id |-> b, isbn |-> isbn, src |-> src]
           d1 == AddBook(d, isbn, src)
           d2 == SyncBookTags(d1, b, names)
           e == AddLabelled(d, isbn, src, names)
           tags == OfKind(names, "tag")
           authors == OfKind(names, "author")
<1>1. e = SyncBookAuthors(d2, b, names)
  BY DEF AddLabelled
<1>2. /\ Tables(d1, Book) /\ b \in Nat /\ b \notin Ids(d.books)
      /\ d1.books = d.books \cup {x} /\ d1.labels = d.labels /\ d1.links = d.links
  BY AddBookEffect
<1>3. /\ tags \in SUBSET Names /\ authors \in SUBSET Names /\ names = tags \cup authors
      /\ \A n \in tags : KindOf[n] = "tag"
      /\ \A n \in authors : KindOf[n] = "author"
      /\ "tag" \in Kinds /\ "author" \in Kinds
  BY NamesByKind
<1>4. d2 = SyncBookLabels(d1, b, "tag", tags)
  BY DEF SyncBookTags
<1>5. e = SyncBookLabels(d2, b, "author", authors)
  BY <1>1 DEF SyncBookAuthors
<1> HIDE DEF b, x, d1, d2, e, tags, authors
<1>6. /\ Tables(d2, Book) /\ d2.books = d1.books /\ d1.labels \subseteq d2.labels
      /\ \A l \in d2.labels \ d1.labels : l.name \in tags
      /\ d2.links = {k \in d1.links : k.book # b \/ k.kind # "tag"}
                    \cup {Link(b, l) : l \in LabelsNamed(d2, tags)}
  BY <1>2, <1>3, <1>4, SyncEffect
<1>7. /\ Tables(e, Book) /\ e.books = d2.books /\ d2.labels \subseteq e.labels
      /\ \A l \in e.labels \ d2.labels : l.name \in authors
      /\ e.links = {k \in d2.links : k.book # b \/ k.kind # "author"}
                   \cup {Link(b, l) : l \in LabelsNamed(e, authors)}
  BY <1>2, <1>3, <1>5, <1>6, SyncEffect
<1>8. LabelsNamed(d2, tags) = LabelsNamed(e, tags)
  <2>1. \A l \in e.labels \ d2.labels : l.name \notin tags
    BY <1>3, <1>7
  <2> QED
    BY <2>1, <1>7 DEF LabelsNamed
<1>9. LabelsNamed(e, names) = LabelsNamed(e, tags) \cup LabelsNamed(e, authors)
  BY <1>3 DEF LabelsNamed
<1>10. \A l \in LabelsNamed(e, tags) : l.kind = "tag"
  BY <1>3, <1>7, CatalogFields DEF LabelsNamed
<1>11. \A l : Link(b, l).kind = l.kind /\ Link(b, l).book = b
  BY DEF Link
<1>12. \A k \in d.links : k.kind \in Kinds
  BY CatalogFields
<1>13. e.links = {k \in d.links : k.book # b} \cup {Link(b, l) : l \in LabelsNamed(e, names)}
  <2> DEFINE T == {Link(b, l) : l \in LabelsNamed(e, tags)}
             A == {Link(b, l) : l \in LabelsNamed(e, authors)}
  <2>1. {Link(b, l) : l \in LabelsNamed(e, names)} = T \cup A
    BY <1>9
  <2>2. \A k \in T : k.kind = "tag" /\ k.book = b
    BY <1>10, <1>11
  <2>3. e.links = {k \in d2.links : k.book # b \/ k.kind # "author"} \cup A
    BY <1>7
  <2>4. d2.links = {k \in d.links : k.book # b \/ k.kind # "tag"} \cup T
    BY <1>2, <1>6, <1>8
  <2> HIDE DEF T, A
  <2>5. {k \in d2.links : k.book # b \/ k.kind # "author"} = {k \in d.links : k.book # b} \cup T
    BY <2>2, <2>4, <1>12 DEF Kinds
  <2> QED
    BY <2>1, <2>3, <2>5
<1>14. \A l \in e.labels \ d.labels : l.name \in names
  BY <1>2, <1>3, <1>6, <1>7
<1> QED
  BY <1>2, <1>6, <1>7, <1>13, <1>14 DEF b, x, e

-----------------------------------------------------------------------------
(* Blemishes.                                                              *)

LEMMA BlemishIs ==
    ASSUME NEW d, NEW x
    PROVE  x \in Blemishes(d) <=> \/ x \in d.links /\ ~LinkWhole(d, x)
                                  \/ x \in d.labels /\ ~LabelUsed(d, x)
BY DEF Blemishes

\* A new book with its labels adds no blemish.  It may take links from labels, by
\* its id; these links named no book before.
LEMMA AddLabelledSound ==
    ASSUME NEW d, Tables(d, Book), NEW isbn \in Isbns \cup Texts,
           NEW src \in (Imports \cup Requests \cup {None}) \X Nat, NEW names \in SUBSET Names,
           Tables(db, Book), late \subseteq db.links \cup db.labels, Sound(d)
    PROVE  Sound(AddLabelled(d, isbn, src, names))
<1> DEFINE e == AddLabelled(d, isbn, src, names)
           b == NewId(d.books)
           x == [id |-> b, isbn |-> isbn, src |-> src]
<1>1. /\ Tables(e, Book) /\ b \in Nat /\ b \notin Ids(d.books)
      /\ e.books = d.books \cup {x} /\ d.labels \subseteq e.labels
      /\ \A l \in e.labels \ d.labels : l.name \in names
      /\ e.links = {k \in d.links : k.book # b} \cup {Link(b, l) : l \in LabelsNamed(e, names)}
  BY AddLabelledEffect
<1>2. x.id = b
  OBVIOUS
<1> HIDE DEF e, b, x
<1>3. \A l : Link(b, l).kind = l.kind /\ Link(b, l).book = b /\ Link(b, l).label = l.id
  BY DEF Link
<1>4. d.links \cap late \subseteq db.links
  <2>1. d.links \subseteq LinkRow /\ db.labels \subseteq Label
    BY CatalogFields
  <2> QED
    BY <2>1, LabelsAreNoLinks
<1>5. \A k \in d.links : ~LinkWhole(d, k) => k \in late /\ k \in db.links
  <2>1. ASSUME NEW k \in d.links, ~LinkWhole(d, k) PROVE k \in late
    <3>1. k \in late \/ k \in Suspect(d)
      BY <2>1, BlemishIs DEF Sound
    <3>2. k \in LinkRow /\ Suspect(d) \subseteq Label
      BY CatalogFields DEF Suspect
    <3> QED
      BY <3>1, <3>2, LabelsAreNoLinks
  <2> QED
    BY <2>1, <1>4
<1>6. ASSUME NEW k \in e.links, ~LinkWhole(e, k)
      PROVE  k \in late
  <2>1. CASE k \in d.links
    <3>1. ~LinkWhole(d, k)
      BY <1>1, <1>6 DEF LinkWhole, Ids, Labels
    <3> QED
      BY <2>1, <3>1, <1>5
  <2>2. CASE k \notin d.links
    <3>1. PICK l \in LabelsNamed(e, names) : k = Link(b, l)
      BY <2>2, <1>1
    <3>2. b \in Ids(e.books)
      BY <1>1, <1>2 DEF Ids
    <3>3. l.id \in Ids(Labels(e, l.kind))
      BY DEF LabelsNamed, Labels, Ids
    <3> QED
      BY <3>1, <3>2, <3>3, <1>3, <1>6 DEF LinkWhole
  <2> QED
    BY <2>1, <2>2
<1>7. ASSUME NEW l \in e.labels, ~LabelUsed(e, l)
      PROVE  l \in late \cup Suspect(e)
  <2>1. l.name \notin names
    <3>1. SUFFICES ASSUME l.name \in names PROVE FALSE
      OBVIOUS
    <3>2. Link(b, l) \in e.links
      BY <3>1, <1>1 DEF LabelsNamed
    <3> QED
      BY <3>2, <1>3, <1>7 DEF LabelUsed
  <2>2. l \in d.labels
    BY <2>1, <1>1
  <2>3. CASE LabelUsed(d, l)
    <3>1. PICK k \in d.links : k.kind = l.kind /\ k.label = l.id
      BY <2>3 DEF LabelUsed
    <3>2. k.book = b
      BY <3>1, <1>1, <1>7 DEF LabelUsed
    <3>3. ~LinkWhole(d, k)
      BY <3>2, <1>1 DEF LinkWhole
    <3>4. k \in late \cap db.links
      BY <3>3, <1>5
    <3> QED
      BY <3>1, <3>4 DEF Suspect
  <2>4. CASE ~LabelUsed(d, l)
    <3>1. l \in late \cup Suspect(d)
      BY <2>2, <2>4, BlemishIs DEF Sound
    <3> QED
      BY <3>1 DEF Suspect
  <2> QED
    BY <2>3, <2>4
<1>8. Blemishes(e) \subseteq late \cup Suspect(e)
  BY <1>6, <1>7, BlemishIs
<1> QED
  BY <1>8 DEF Sound, e

\* Removing the labels without a link of one kind breaks no link.
LEMMA CleanupEffect ==
    ASSUME NEW d, Tables(d, Book), NEW kind \in Kinds,
           NEW e, e = [d EXCEPT !.labels = @ \ Orphans(d, kind)]
    PROVE  /\ Tables(e, Book) /\ e.books = d.books /\ e.links = d.links
           /\ e.labels = {l \in d.labels : l.kind # kind \/ LabelUsed(d, l)}
           /\ \A k \in d.links : LinkWhole(d, k) => LinkWhole(e, k)
           /\ \A l : LabelUsed(e, l) <=> LabelUsed(d, l)
<1>1. /\ e.books = d.books /\ e.links = d.links /\ e.labels = d.labels \ Orphans(d, kind)
      /\ e \in [books : SUBSET Book, labels : SUBSET Label, links : SUBSET LinkRow]
  BY DEF Tables
<1>2. e.labels = {l \in d.labels : l.kind # kind \/ LabelUsed(d, l)}
  BY <1>1 DEF Orphans, Labels, LabelUsed
<1>3. Tables(e, Book)
  <2>1. IsFiniteSet(e.labels)
    BY <1>1, CatalogFields, FS_Subset
  <2> QED
    BY <2>1, <1>1 DEF Tables
<1>4. ASSUME NEW k \in d.links, LinkWhole(d, k)
      PROVE  LinkWhole(e, k)
  <2>1. PICK l \in d.labels : l.kind = k.kind /\ l.id = k.label
    BY <1>4 DEF LinkWhole, Labels, Ids
  <2>2. l \in e.labels
    BY <2>1, <1>2 DEF LabelUsed
  <2> QED
    BY <2>1, <2>2, <1>1, <1>4 DEF LinkWhole, Labels, Ids
<1>5. \A l : LabelUsed(e, l) <=> LabelUsed(d, l)
  BY <1>1 DEF LabelUsed
<1> QED
  BY <1>1, <1>2, <1>3, <1>4, <1>5

LEMMA CleanupTagsEffect ==
    ASSUME NEW d, Tables(d, Book)
    PROVE  LET e == CleanupOrphanTags(d) IN
           /\ Tables(e, Book) /\ e.books = d.books /\ e.links = d.links
           /\ e.labels = {l \in d.labels : l.kind # "tag" \/ LabelUsed(d, l)}
           /\ \A k \in d.links : LinkWhole(d, k) => LinkWhole(e, k)
           /\ \A l : LabelUsed(e, l) <=> LabelUsed(d, l)
BY CleanupEffect DEF CleanupOrphanTags, Kinds

LEMMA CleanupAuthorsEffect ==
    ASSUME NEW d, Tables(d, Book)
    PROVE  LET e == CleanupOrphanAuthors(d) IN
           /\ Tables(e, Book) /\ e.books = d.books /\ e.links = d.links
           /\ e.labels = {l \in d.labels : l.kind # "author" \/ LabelUsed(d, l)}
           /\ \A k \in d.links : LinkWhole(d, k) => LinkWhole(e, k)
           /\ \A l : LabelUsed(e, l) <=> LabelUsed(d, l)
BY CleanupEffect DEF CleanupOrphanAuthors, Kinds

\* A result whose links and labels were no better before is as sound as the library.
LEMMA NoNewBlemish ==
    ASSUME CatalogSound, NEW e,
           \A k \in e.links : LinkWhole(e, k) \/ (k \in db.links /\ ~LinkWhole(db, k)),
           \A l \in e.labels : LabelUsed(e, l) \/ (l \in db.labels /\ ~LabelUsed(db, l))
    PROVE  Blemishes(e) \subseteq late
BY BlemishIs DEF CatalogSound

-----------------------------------------------------------------------------
(* What the requests write.                                                *)

\* The library a request leaves: it is sound if the request was not overtaken, and
\* has one book more, one less, or the same.
Result(r, d) ==
    /\ Tables(d, Book) /\ IsbnsDiffer(d)
    /\ ~req[r].stale => Sound(d)
    /\ \/ d.books \subseteq db.books
       \/ \E x : d.books = db.books \cup {x} /\ x.src = <<r, 0>>
    /\ \A x, y \in db.books \ d.books : x = y
Answers(r) == Fail(r) \/ \E d : Result(r, d) /\ CommitAnswer(r, d)

Standing == TypeOK /\ SeenFits /\ AsksFit /\ CatalogSound /\ IsbnOnce

LEMMA RequestFields ==
    ASSUME Standing, NEW r \in Requests
    PROVE  /\ req[r].isbn \in Isbns /\ req[r].add \subseteq Names /\ req[r].remove \subseteq Names
           /\ Tables(req[r].seen, Book) /\ req[r].books \subseteq Nat
           /\ Tables(db, Book) /\ late \subseteq db.links \cup db.labels
           /\ IsbnsDiffer(db) /\ Sound(db)
           /\ <<r, 0>> \in (Imports \cup Requests \cup {None}) \X Nat
BY DEF Standing, TypeOK, RequestRecord, IsbnOnce, CatalogSound, Sound

LEMMA AddLabelledDiffers ==
    ASSUME NEW d, Tables(d, Book), NEW isbn \in Isbns \cup Texts,
           NEW src \in (Imports \cup Requests \cup {None}) \X Nat, NEW names \in SUBSET Names,
           IsbnsDiffer(d), ~IsbnTaken(d, isbn)
    PROVE  IsbnsDiffer(AddLabelled(d, isbn, src, names))
<1> DEFINE e == AddLabelled(d, isbn, src, names)
           x == [id |-> NewId(d.books), isbn |-> isbn, src |-> src]
<1>1. e.books = d.books \cup {x}
  BY AddLabelledEffect
<1>2. x.isbn = isbn
  OBVIOUS
<1> HIDE DEF e, x
<1>3. \A b, c \in e.books : b.isbn = c.isbn /\ b.isbn # NoIsbn => b = c
  BY <1>1, <1>2 DEF IsbnsDiffer, IsbnTaken
<1> QED
  BY <1>3 DEF IsbnsDiffer, e

LEMMA WriteNewAnswers ==
    ASSUME Standing, NEW r \in Requests, WriteNew(r)
    PROVE  Answers(r)
<1> DEFINE d == AddLabelled(db, req[r].isbn, <<r, 0>>, req[r].add)
           x == [id |-> NewId(db.books), isbn |-> req[r].isbn, src |-> <<r, 0>>]
<1>1. CASE IsbnTaken(db, req[r].isbn)
  BY <1>1 DEF WriteNew, Answers
<1>2. CASE ~IsbnTaken(db, req[r].isbn)
  <2>1. CommitAnswer(r, d)
    BY <1>2 DEF WriteNew
  <2>2. Tables(d, Book) /\ d.books = db.books \cup {x}
    BY RequestFields, AddLabelledEffect
  <2>3. Sound(d)
    BY RequestFields, AddLabelledSound
  <2>4. IsbnsDiffer(d)
    BY <1>2, RequestFields, AddLabelledDiffers
  <2>5. x.src = <<r, 0>>
    OBVIOUS
  <2> HIDE DEF d, x
  <2> QED
    BY <2>1, <2>2, <2>3, <2>4, <2>5 DEF Answers, Result
<1> QED
  BY <1>1, <1>2

\* Catalogs with other links or fewer labels.
LEMMA Relinked ==
    ASSUME NEW d, Tables(d, Book), NEW links \in SUBSET LinkRow,
           NEW e, e = [d EXCEPT !.links = links]
    PROVE  Tables(e, Book) /\ e.books = d.books /\ e.labels = d.labels /\ e.links = links
<1>1. /\ e.books = d.books /\ e.labels = d.labels /\ e.links = links
      /\ e \in [books : SUBSET Book, labels : SUBSET Label, links : SUBSET LinkRow]
  BY DEF Tables
<1> QED
  BY <1>1 DEF Tables

LEMMA Relabelled ==
    ASSUME NEW d, Tables(d, Book), NEW labels \in SUBSET d.labels,
           NEW e, e = [d EXCEPT !.labels = labels]
    PROVE  Tables(e, Book) /\ e.books = d.books /\ e.labels = labels /\ e.links = d.links
<1>1. /\ e.books = d.books /\ e.labels = labels /\ e.links = d.links
      /\ e \in [books : SUBSET Book, labels : SUBSET Label, links : SUBSET LinkRow]
  BY DEF Tables
<1>2. IsFiniteSet(e.labels)
  BY <1>1, CatalogFields, FS_Subset
<1> QED
  BY <1>1, <1>2 DEF Tables

\* With the books of before, or fewer, nothing else is to be shown of them.
LEMMA SameBooks ==
    ASSUME Standing, NEW r \in Requests, NEW d, Tables(d, Book), d.books \subseteq db.books,
           \A x, y \in db.books \ d.books : x = y,
           ~req[r].stale => Blemishes(d) \subseteq late
    PROVE  Result(r, d)
BY RequestFields DEF Result, IsbnsDiffer, Sound

LEMMA WriteOwnPatchAnswers ==
    ASSUME Standing, NEW r \in Requests, WriteOwnPatch(r)
    PROVE  Answers(r)
<1> DEFINE b == BookOf(r)
           tags == OfKind(req[r].add, "tag")
           d == SyncBookTags(db, b, req[r].add)
           e == CleanupOrphanTags(d)
<1>1. CASE b \notin Ids(db.books)
  BY <1>1 DEF WriteOwnPatch, Answers
<1>2. CASE b \in Ids(db.books)
  <2>1. CommitAnswer(r, e)
    BY <1>2 DEF WriteOwnPatch
  <2>0. Tables(db, Book) /\ \A x \in db.books : x.id \in Nat
    BY RequestFields, CatalogFields
  <2>2. b \in Nat
    <3> HIDE DEF b
    <3> QED
      BY <1>2, <2>0 DEF Ids
  <2>3. tags \in SUBSET Names /\ "tag" \in Kinds /\ \A n \in tags : KindOf[n] = "tag"
    BY RequestFields, NamesByKind
  <2>4. d = SyncBookLabels(db, b, "tag", tags)
    BY DEF SyncBookTags
  <2> HIDE DEF b, tags, d
  <2>5. /\ Tables(d, Book) /\ d.books = db.books /\ db.labels \subseteq d.labels
        /\ \A l \in d.labels \ db.labels : l.name \in tags
        /\ d.links = {k \in db.links : k.book # b \/ k.kind # "tag"}
                     \cup {Link(b, l) : l \in LabelsNamed(d, tags)}
    BY <2>0, <2>2, <2>3, <2>4, SyncEffect
  <2>6. /\ Tables(e, Book) /\ e.books = d.books /\ e.links = d.links
        /\ e.labels = {l \in d.labels : l.kind # "tag" \/ LabelUsed(d, l)}
        /\ \A k \in d.links : LinkWhole(d, k) => LinkWhole(e, k)
        /\ \A l : LabelUsed(e, l) <=> LabelUsed(d, l)
    BY <2>5, CleanupTagsEffect
  <2> HIDE DEF e
  <2>7. ASSUME NEW k \in e.links
        PROVE  LinkWhole(e, k) \/ (k \in db.links /\ ~LinkWhole(db, k))
    <3>1. CASE k \in db.links
      <4>1. LinkWhole(db, k) => LinkWhole(d, k)
        BY <2>5 DEF LinkWhole, Ids, Labels
      <4> QED
        BY <3>1, <4>1, <2>6
    <3>2. CASE k \notin db.links
      <4>1. PICK l \in LabelsNamed(d, tags) : k = Link(b, l)
        BY <3>2, <2>5, <2>6
      <4>2. LinkWhole(d, k)
        BY <4>1, <1>2, <2>5 DEF LinkWhole, Ids, Labels, LabelsNamed, Link, b
      <4> QED
        BY <4>2, <2>6
    <3> QED
      BY <3>1, <3>2
  <2>8. ASSUME NEW l \in e.labels
        PROVE  LabelUsed(e, l) \/ (l \in db.labels /\ ~LabelUsed(db, l))
    <3>1. CASE l.kind = "tag"
      BY <3>1, <2>6
    <3>2. CASE l.kind # "tag"
      <4>1. l.name \notin tags
        BY <3>2, <2>3, <2>5, <2>6, CatalogFields
      <4>2. l \in db.labels
        BY <4>1, <2>5, <2>6
      <4>3. LabelUsed(db, l) => LabelUsed(e, l)
        BY <3>2, <2>5, <2>6 DEF LabelUsed
      <4> QED
        BY <4>2, <4>3
    <3> QED
      BY <3>1, <3>2
  <2>9. Blemishes(e) \subseteq late
    BY <2>7, <2>8, NoNewBlemish DEF Standing
  <2>10. Result(r, e)
    BY <2>5, <2>6, <2>9, SameBooks
  <2> QED
    BY <2>1, <2>10 DEF Answers
<1> QED
  BY <1>1, <1>2

\* What a request that is not overtaken has seen is what there is.
LEMMA SeenIsThere ==
    ASSUME Standing, NEW r \in Requests, req[r].pc = "write", ~req[r].stale, Looks(req[r])
    PROVE  req[r].seen = db
BY DEF Standing, SeenFits

\* The request on one book.
LEMMA OneBook ==
    ASSUME Standing, NEW r \in Requests, req[r].pc = "write", req[r].op = "patch"
    PROVE  BookOf(r) \in req[r].books /\ BookOf(r) \in Nat
<1>1. req[r].books # {} /\ req[r].books \subseteq Nat
  BY RequestFields DEF Standing, AsksFit, AskFits
<1>2. BookOf(r) \in req[r].books
  BY <1>1 DEF BookOf
<1> QED
  BY <1>1, <1>2

\* The new rows that a request makes of the names it has missed.
LEMMA MissingAdded ==
    ASSUME Standing, NEW r \in Requests
    PROVE  LET m == Missing(r, req[r].add)
               fresh == AddLabels(db, m) IN
           /\ m \in SUBSET Names
           /\ Tables(fresh, Book) /\ fresh.books = db.books /\ fresh.links = db.links
           /\ db.labels \subseteq fresh.labels
           /\ \A l \in fresh.labels \ db.labels : l.name \in m
           /\ \A n \in m : \E l \in fresh.labels : l.name = n
<1> DEFINE m == Missing(r, req[r].add)
<1>1. m \in SUBSET Names
  BY RequestFields DEF Missing
<1>2. Tables(db, Book)
  BY RequestFields
<1> HIDE DEF m
<1>3. LET fresh == AddLabels(db, m) IN
           /\ Tables(fresh, Book) /\ fresh.books = db.books /\ fresh.links = db.links
           /\ db.labels \subseteq fresh.labels
           /\ \A l \in fresh.labels \ db.labels : l.name \in m
           /\ \A n \in m : \E l \in fresh.labels : l.name = n
  BY <1>1, <1>2, AddLabelsEffect
<1> QED
  BY <1>1, <1>3 DEF m

LEMMA WriteCleanPatchAnswers ==
    ASSUME Standing, NEW r \in Requests, req[r].pc = "write", WriteCleanPatch(r)
    PROVE  Answers(r)
<1> DEFINE b == BookOf(r)
           q == req[r]
           m == Missing(r, q.add)
           fresh == AddLabels(db, m)
           rows == SeenLabels(r, q.add) \cup LabelsNamed(fresh, m)
           target == {Link(b, l) : l \in rows}
           old == {k \in LinksOf(q.seen, b) : k.kind = "tag"}
           linked == [fresh EXCEPT !.links = (@ \ (old \ target)) \cup target]
           nothing == [db EXCEPT !.labels = @ \ Orphans(q.seen, "tag")]
           e == CleanupOrphanTags(linked)
<1>1. \/ Fail(r)
      \/ target = old /\ CommitAnswer(r, nothing)
      \/ CommitAnswer(r, e)
  BY DEF WriteCleanPatch
<1>2. q.op = "patch" /\ ~q.own /\ Looks(q)
  BY DEF WriteCleanPatch, Looks
<1>3. b \in q.books /\ b \in Nat
  BY <1>2, OneBook
<1>4. q.books \subseteq Ids(q.seen.books) /\ \A n \in q.add : n \in Names /\ KindOf[n] = "tag"
  BY <1>2 DEF Standing, AsksFit, AskFits, OfKind
<1>5. Tables(db, Book) /\ Tables(q.seen, Book)
  BY RequestFields
<1>6. /\ m \in SUBSET Names
      /\ Tables(fresh, Book) /\ fresh.books = db.books /\ fresh.links = db.links
      /\ db.labels \subseteq fresh.labels
      /\ \A l \in fresh.labels \ db.labels : l.name \in m
  BY MissingAdded
<1>7. m \subseteq q.add
  BY DEF Missing
<1>8. ~q.stale => q.seen = db
  BY <1>2, SeenIsThere
<1> HIDE DEF b, q, m, fresh
<1>9. rows \subseteq Label
  BY <1>5, <1>6, CatalogFields DEF SeenLabels, LabelsNamed, q
<1>10. CASE target = old /\ CommitAnswer(r, nothing)
  <2>1. /\ Tables(nothing, Book) /\ nothing.books = db.books
    BY <1>5, Relabelled
  <2>2. ~q.stale => Blemishes(nothing) \subseteq late
    <3>1. SUFFICES ASSUME ~q.stale PROVE Blemishes(nothing) \subseteq late
      OBVIOUS
    <3>2. nothing = CleanupOrphanTags(db)
      BY <1>8, <3>1 DEF CleanupOrphanTags
    <3> HIDE DEF nothing
    <3>3. /\ nothing.books = db.books /\ nothing.links = db.links
          /\ nothing.labels = {l \in db.labels : l.kind # "tag" \/ LabelUsed(db, l)}
          /\ \A k \in db.links : LinkWhole(db, k) => LinkWhole(nothing, k)
          /\ \A l : LabelUsed(nothing, l) <=> LabelUsed(db, l)
      BY <1>5, <3>2, CleanupTagsEffect
    <3> QED
      BY <3>3, NoNewBlemish DEF Standing
  <2> HIDE DEF nothing
  <2>3. Result(r, nothing)
    BY <2>1, <2>2, SameBooks DEF q
  <2> QED
    BY <1>10, <2>3 DEF Answers
<1>11. CASE CommitAnswer(r, e)
  <2> DEFINE links == (db.links \ (old \ target)) \cup target
  <2>1. target \subseteq LinkRow
    BY <1>3, <1>9 DEF Link, LinkRow, Label
  <2> HIDE DEF target, old, rows
  <2>2. links \in SUBSET LinkRow
    BY <2>1, <1>5, CatalogFields
  <2>3. linked = [fresh EXCEPT !.links = links]
    BY <1>6
  <2> HIDE DEF linked, links
  <2>4. Tables(linked, Book) /\ linked.books = db.books /\ linked.labels = fresh.labels
        /\ linked.links = links
    BY <2>2, <2>3, <1>6, Relinked
  <2>5. /\ Tables(e, Book) /\ e.books = linked.books /\ e.links = linked.links
        /\ e.labels = {l \in linked.labels : l.kind # "tag" \/ LabelUsed(linked, l)}
        /\ \A k \in linked.links : LinkWhole(linked, k) => LinkWhole(e, k)
        /\ \A l : LabelUsed(e, l) <=> LabelUsed(linked, l)
    BY <2>4, CleanupTagsEffect
  <2> HIDE DEF e
  <2>6. ~q.stale => Blemishes(e) \subseteq late
    <3>1. SUFFICES ASSUME ~q.stale PROVE Blemishes(e) \subseteq late
      OBVIOUS
    <3>2. b \in Ids(db.books) /\ q.seen = db
      BY <1>3, <1>4, <1>8, <3>1
    <3>3. rows \subseteq fresh.labels
      BY <3>2, <1>6 DEF rows, SeenLabels, LabelsNamed, q
    <3>4. ASSUME NEW k \in e.links
          PROVE  LinkWhole(e, k) \/ (k \in db.links /\ ~LinkWhole(db, k))
      <4>1. CASE k \in target
        <5>1. LinkWhole(linked, k)
          BY <4>1, <3>2, <3>3, <2>4 DEF target, LinkWhole, Ids, Labels, Link
        <5> QED
          BY <5>1, <2>5
      <4>2. CASE k \notin target
        <5>1. k \in db.links
          BY <4>2, <2>4, <2>5 DEF links
        <5>2. LinkWhole(db, k) => LinkWhole(linked, k)
          BY <1>6, <2>4 DEF LinkWhole, Ids, Labels
        <5> QED
          BY <5>1, <5>2, <2>5
      <4> QED
        BY <4>1, <4>2
    <3>5. ASSUME NEW l \in e.labels
          PROVE  LabelUsed(e, l) \/ (l \in db.labels /\ ~LabelUsed(db, l))
      <4>1. CASE l.kind = "tag"
        BY <4>1, <2>5
      <4>2. CASE l.kind # "tag"
        <5>1. l \in fresh.labels /\ KindOf[l.name] # "tag"
          BY <4>2, <1>6, <2>4, <2>5, CatalogFields
        <5>2. l \in db.labels
          BY <5>1, <1>4, <1>6, <1>7
        <5>3. LabelUsed(db, l) => LabelUsed(e, l)
          <6>1. \A k \in old : k.kind = "tag"
            BY DEF old
          <6> QED
            BY <6>1, <4>2, <2>4, <2>5 DEF LabelUsed, links
        <5> QED
          BY <5>2, <5>3
      <4> QED
        BY <4>1, <4>2
    <3> QED
      BY <3>4, <3>5, NoNewBlemish DEF Standing
  <2>7. Result(r, e)
    BY <2>4, <2>5, <2>6, SameBooks DEF q
  <2> QED
    BY <1>11, <2>7 DEF Answers
<1> QED
  BY <1>1, <1>10, <1>11 DEF Answers

LEMMA WriteDeleteAnswers ==
    ASSUME Standing, NEW r \in Requests, req[r].pc = "write", WriteDelete(r)
    PROVE  Answers(r)
<1> DEFINE b == BookOf(r)
           q == req[r]
           books == {x \in db.books : x.id # b}
           links == db.links \ LinksOf(q.seen, b)
           bare == [db EXCEPT !.links = @ \ LinksOf(q.seen, b), !.books = {x \in @ : x.id # b}]
           c == CleanupOrphanTags(bare)
           e == CleanupOrphanAuthors(c)
<1>1. CommitAnswer(r, e) /\ Looks(q)
  BY DEF WriteDelete, Looks
<1>2. Tables(db, Book)
  BY RequestFields
<1>3. bare = [db EXCEPT !.links = links, !.books = books]
  OBVIOUS
<1>4. Tables(bare, Book) /\ bare.books = books /\ bare.labels = db.labels /\ bare.links = links
  <2>1. books \in SUBSET db.books /\ links \in SUBSET db.links
    OBVIOUS
  <2> HIDE DEF bare, books, links
  <2>2. /\ bare.books = books /\ bare.labels = db.labels /\ bare.links = links
        /\ bare \in [books : SUBSET Book, labels : SUBSET Label, links : SUBSET LinkRow]
    BY <1>2, <1>3, <2>1 DEF Tables
  <2>3. IsFiniteSet(bare.books)
    BY <1>2, <2>1, <2>2, CatalogFields, FS_Subset
  <2> QED
    BY <1>2, <2>1, <2>2, <2>3 DEF Tables
<1> HIDE DEF bare, b, q
<1>5. /\ Tables(c, Book) /\ c.books = bare.books /\ c.links = bare.links
      /\ c.labels = {l \in bare.labels : l.kind # "tag" \/ LabelUsed(bare, l)}
      /\ \A k \in bare.links : LinkWhole(bare, k) => LinkWhole(c, k)
      /\ \A l : LabelUsed(c, l) <=> LabelUsed(bare, l)
  BY <1>4, CleanupTagsEffect
<1> HIDE DEF c
<1>6. /\ Tables(e, Book) /\ e.books = c.books /\ e.links = c.links
      /\ e.labels = {l \in c.labels : l.kind # "author" \/ LabelUsed(c, l)}
      /\ \A k \in c.links : LinkWhole(c, k) => LinkWhole(e, k)
      /\ \A l : LabelUsed(e, l) <=> LabelUsed(c, l)
  BY <1>5, CleanupAuthorsEffect
<1> HIDE DEF e
<1>7. ~q.stale => Blemishes(e) \subseteq late
  <2>1. SUFFICES ASSUME ~q.stale PROVE Blemishes(e) \subseteq late
    OBVIOUS
  <2>2. q.seen = db
    BY <1>1, <2>1, SeenIsThere DEF q
  <2>3. ASSUME NEW k \in e.links
        PROVE  LinkWhole(e, k) \/ (k \in db.links /\ ~LinkWhole(db, k))
    <3>1. k \in bare.links /\ k \in db.links /\ k.book # b
      BY <1>4, <1>5, <1>6, <2>2 DEF LinksOf
    <3>2. LinkWhole(db, k) => LinkWhole(bare, k)
      BY <3>1, <1>4 DEF LinkWhole, Ids, Labels
    <3>3. LinkWhole(bare, k) => LinkWhole(e, k)
      BY <3>1, <1>5, <1>6
    <3> QED
      BY <3>1, <3>2, <3>3
  <2>4. \A l \in e.labels : l.kind \in {"tag", "author"}
    BY <1>6, CatalogFields DEF Kinds
  <2>5. \A l \in e.labels : LabelUsed(e, l)
    BY <2>4, <1>5, <1>6
  <2> QED
    BY <2>3, <2>5, NoNewBlemish DEF Standing
<1>8. \A x, y \in db.books \ e.books : x = y
  <2>1. \A x \in db.books \ e.books : x.id = b
    BY <1>4, <1>5, <1>6
  <2> QED
    BY <2>1, <1>2, CatalogFields
<1>9. Result(r, e)
  BY <1>4, <1>5, <1>6, <1>7, <1>8, SameBooks DEF q
<1> QED
  BY <1>1, <1>9 DEF Answers

LEMMA WriteBatchAnswers ==
    ASSUME Standing, NEW r \in Requests, req[r].pc = "write", WriteBatch(r)
    PROVE  Answers(r)
<1> DEFINE q == req[r]
           m == Missing(r, q.add)
           fresh == AddLabels(db, m)
           rows == SeenLabels(r, q.add) \cup LabelsNamed(fresh, m)
           added == Pairs(q.books, rows)
           removed == SeenLabels(r, q.remove)
           gone == Pairs(q.books, removed)
           seen == q.seen.links \cap (added \cup gone)
           target == (seen \cup added) \ gone
           left == Without(db.links, seen)
           linked == [fresh EXCEPT !.links = left \cup target]
           kept == {l \in linked.labels :
                      LabelUsed(linked, l) \/ ~\E u \in removed : u.kind = l.kind /\ u.id = l.id}
           e == [linked EXCEPT !.labels = kept]
<1>1. Fail(r) \/ CommitAnswer(r, e)
  BY DEF WriteBatch
<1>2. Looks(q) /\ q.books \subseteq Nat /\ q.books \subseteq Ids(q.seen.books)
      /\ q.add \cap q.remove = {} /\ q.remove \subseteq Names
  BY RequestFields DEF WriteBatch, Looks, Standing, AsksFit, AskFits
<1>3. Tables(db, Book) /\ Tables(q.seen, Book)
  BY RequestFields
<1>4. /\ m \in SUBSET Names
      /\ Tables(fresh, Book) /\ fresh.books = db.books /\ fresh.links = db.links
      /\ db.labels \subseteq fresh.labels
      /\ \A l \in fresh.labels \ db.labels : l.name \in m
      /\ \A n \in m : \E l \in fresh.labels : l.name = n
  BY MissingAdded
<1>5. m \subseteq q.add
  BY DEF Missing
<1>6. ~q.stale => q.seen = db
  BY <1>2, SeenIsThere
<1> HIDE DEF q, m, fresh
<1>7. rows \subseteq Label
  BY <1>3, <1>4, CatalogFields DEF SeenLabels, LabelsNamed, q
<1>8. left \subseteq db.links
  BY DEF Without
<1>9. target \subseteq LinkRow
  <2>1. added \subseteq LinkRow
    BY <1>2, <1>7 DEF Pairs, Link, LinkRow, Label
  <2>2. seen \subseteq LinkRow
    BY <1>3, CatalogFields
  <2> QED
    BY <2>1, <2>2
<1>10. \A u \in removed : u.name \in q.remove
  BY DEF SeenLabels, LabelsNamed, q
<1> HIDE DEF rows, added, removed, gone, seen, target, left, linked
<1>11. left \cup target \in SUBSET LinkRow
  BY <1>3, <1>8, <1>9, CatalogFields
<1>12. Tables(linked, Book) /\ linked.books = db.books /\ linked.labels = fresh.labels
       /\ linked.links = left \cup target
  <2>1. linked = [fresh EXCEPT !.links = left \cup target]
    BY DEF linked
  <2> QED
    BY <1>4, <1>11, <2>1, Relinked
<1>13. Tables(e, Book) /\ e.books = db.books /\ e.labels = kept /\ e.links = left \cup target
  <2>1. kept \in SUBSET linked.labels
    OBVIOUS
  <2> HIDE DEF kept
  <2> QED
    BY <2>1, <1>12, Relabelled
<1>14. kept = {l \in fresh.labels :
                 LabelUsed(e, l) \/ ~\E u \in removed : u.kind = l.kind /\ u.id = l.id}
  <2>1. \A l : LabelUsed(e, l) <=> LabelUsed(linked, l)
    BY <1>12, <1>13 DEF LabelUsed
  <2> QED
    BY <2>1, <1>12
<1> HIDE DEF e, kept
<1>15. ~q.stale => Blemishes(e) \subseteq late
  <2>1. SUFFICES ASSUME ~q.stale PROVE Blemishes(e) \subseteq late
    OBVIOUS
  <2>2. q.seen = db /\ q.books \subseteq Ids(db.books)
    BY <1>2, <1>6, <2>1
  <2>3. rows \subseteq fresh.labels /\ removed \subseteq db.labels
    BY <2>2, <1>4 DEF rows, removed, SeenLabels, LabelsNamed, q
  <2>4. \A l \in rows : l.name \in q.add
    BY <1>5 DEF rows, SeenLabels, LabelsNamed, q
  <2>5. \A l \in rows, u \in removed : ~(l.kind = u.kind /\ l.id = u.id)
    <3>1. \A l \in rows, u \in removed : l # u /\ l \in fresh.labels /\ u \in fresh.labels
      BY <1>2, <1>4, <1>10, <2>3, <2>4
    <3> QED
      BY <3>1, <1>4, CatalogFields
  <2>6. \A x, l : Link(x, l).book = x /\ Link(x, l).kind = l.kind /\ Link(x, l).label = l.id
    BY DEF Link
  <2>7. added \cap gone = {}
    <3>1. \A k \in added : \E l \in rows : k.kind = l.kind /\ k.label = l.id
      BY <2>6 DEF added, Pairs
    <3>2. \A k \in gone : \E u \in removed : k.kind = u.kind /\ k.label = u.id
      BY <2>6 DEF gone, Pairs
    <3> QED
      BY <3>1, <3>2, <2>5
  <2>8. target = added
    BY <2>7 DEF target, seen
  <2>9. ASSUME NEW k \in db.links, k \notin left
        PROVE  k \in added \/ \E u \in removed : k.kind = u.kind /\ k.label = u.id
    <3>1. PICK x, y \in seen : k.book = x.book /\ k.kind = y.kind /\ k.label = y.label
      BY <2>9 DEF left, Without
    <3>2. x.book \in q.books
      BY <3>1, <2>6 DEF seen, added, gone, Pairs
    <3>3. CASE y \in gone
      BY <3>1, <3>3, <2>6 DEF gone, Pairs
    <3>4. CASE y \in added
      <4>1. PICK l \in rows : y.kind = l.kind /\ y.label = l.id
        BY <3>4, <2>6 DEF added, Pairs
      <4>2. Link(x.book, l) \in added
        BY <3>2 DEF added, Pairs
      <4>3. k \in LinkRow
        BY <1>3, CatalogFields
      <4>4. k = [book |-> k.book, kind |-> k.kind, label |-> k.label]
        BY <4>3 DEF LinkRow
      <4>5. Link(x.book, l) = [book |-> x.book, kind |-> l.kind, label |-> l.id]
        BY DEF Link
      <4>6. k = Link(x.book, l)
        BY <3>1, <4>1, <4>4, <4>5
      <4> QED
        BY <4>2, <4>6
    <3> QED
      BY <3>3, <3>4 DEF seen
  <2>10. ASSUME NEW k \in e.links
         PROVE  LinkWhole(e, k) \/ (k \in db.links /\ ~LinkWhole(db, k))
    <3>1. ASSUME NEW l \in fresh.labels, l.kind = k.kind, l.id = k.label
          PROVE  l \in e.labels
      BY <3>1, <1>13, <1>14 DEF LabelUsed
    <3>2. CASE k \in added
      <4>1. PICK x \in q.books, l \in rows : k = Link(x, l)
        BY <3>2 DEF added, Pairs
      <4>2. l \in e.labels
        BY <4>1, <3>1, <2>3, <2>6
      <4>3. k.book \in Ids(e.books)
        BY <4>1, <2>2, <2>6, <1>13
      <4> QED
        BY <4>1, <4>2, <4>3, <2>6 DEF LinkWhole, Labels, Ids
    <3>3. CASE k \notin added
      <4>1. k \in db.links
        BY <3>3, <2>8, <1>8, <1>13
      <4>2. ASSUME LinkWhole(db, k) PROVE LinkWhole(e, k)
        <5>1. PICK l \in db.labels : l.kind = k.kind /\ l.id = k.label
          BY <4>2 DEF LinkWhole, Labels, Ids
        <5>2. l \in e.labels
          BY <5>1, <3>1, <1>4
        <5> QED
          BY <4>2, <5>1, <5>2, <1>13 DEF LinkWhole, Labels, Ids
      <4> QED
        BY <4>1, <4>2
    <3> QED
      BY <3>2, <3>3
  <2>11. ASSUME NEW l \in e.labels
         PROVE  LabelUsed(e, l) \/ (l \in db.labels /\ ~LabelUsed(db, l))
    <3>1. SUFFICES ASSUME ~LabelUsed(e, l) PROVE l \in db.labels /\ ~LabelUsed(db, l)
      OBVIOUS
    <3>2. l \in fresh.labels /\ ~\E u \in removed : u.kind = l.kind /\ u.id = l.id
      BY <3>1, <1>13, <1>14
    <3>3. \A k \in added : ~(k.kind = l.kind /\ k.label = l.id)
      BY <3>1, <1>13, <2>8 DEF LabelUsed
    <3>4. l \in db.labels
      <4>1. SUFFICES ASSUME l \notin db.labels PROVE FALSE
        OBVIOUS
      <4>2. l \in rows
        BY <4>1, <3>2, <1>4 DEF rows, LabelsNamed
      <4>3. q.books # {}
        BY DEF q, Standing, AsksFit, AskFits, WriteBatch
      <4>4. PICK x \in q.books : TRUE
        BY <4>3
      <4>5. Link(x, l) \in added
        BY <4>2 DEF added, Pairs
      <4> QED
        BY <4>5, <3>3, <2>6
    <3>5. ASSUME NEW k \in db.links, k.kind = l.kind, k.label = l.id PROVE FALSE
      <4>1. k \notin left
        BY <3>1, <3>5, <1>13 DEF LabelUsed
      <4>2. k \notin added
        BY <3>3, <3>5
      <4>3. PICK u \in removed : k.kind = u.kind /\ k.label = u.id
        BY <4>1, <4>2, <2>9
      <4> QED
        BY <4>3, <3>2, <3>5
    <3> QED
      BY <3>4, <3>5 DEF LabelUsed
  <2> QED
    BY <2>10, <2>11, NoNewBlemish DEF Standing
<1>16. Result(r, e)
  BY <1>13, <1>15, SameBooks DEF q
<1> QED
  BY <1>1, <1>16 DEF Answers

\* Whatever a request writes: it is refused, or its result is good.
LEMMA WriteAnswers ==
    ASSUME Standing, NEW r \in Requests, Write(r)
    PROVE  Answers(r) /\ lock = None /\ lock' = None /\ req[r].pc = "write"
           /\ loop' = (IF loop = r THEN None ELSE loop)
BY WriteNewAnswers, WriteOwnPatchAnswers, WriteCleanPatchAnswers, WriteDeleteAnswers, WriteBatchAnswers
   DEF Write

-----------------------------------------------------------------------------
(* The streams.                                                            *)

LEMMA InvStanding == Inv => Standing
BY DEF Inv, Standing

LEMMA ImportFields ==
    ASSUME Inv, NEW i \in Imports
    PROVE  /\ imp \in [Imports -> ImportRecord] /\ imp[i] \in ImportRecord
           /\ imp[i].pc \in {"idle", "checked", "row", "download", "store", "sent"} \cup Ended
           /\ imp[i].mode \in Modes \cup {"none"} /\ imp[i].done \in Nat
           /\ imp[i].valid \in BOOLEAN /\ imp[i].known \subseteq Isbns \cup Texts
           /\ imp[i].warned \subseteq Nat
           /\ imp[i].failed \subseteq [row : Nat, why : {"refused", "duplicate"}]
           /\ i # None /\ i \notin Requests
           /\ file[i] \in Seq(FileRow) /\ Len(file[i]) \in 1..MaxRows
           /\ StreamFits(i) /\ VerdictFits(i)
BY ActorsAssumption DEF Inv, TypeOK, ImportRecord, FilesFit, StreamsFit, VerdictsFit

\* The row at hand.
LEMMA RowAtHand ==
    ASSUME Inv, NEW i \in Imports, imp[i].pc \in {"row", "download", "store"}
    PROVE  /\ Row(i) \in FileRow /\ Row(i) = file[i][imp[i].done + 1]
           /\ imp[i].done + 1 \in DOMAIN file[i]
           /\ Row(i).isbn \in Texts /\ Row(i).labels \subseteq Names
<1>1. imp[i].done \in Nat /\ imp[i].done < Len(file[i]) /\ file[i] \in Seq(FileRow)
      /\ Len(file[i]) \in Nat
  BY ImportFields, FilesAssumption DEF StreamFits, Active
<1>2. imp[i].done + 1 \in 1..Len(file[i])
  BY <1>1
<1>3. DOMAIN file[i] = 1..Len(file[i])
  BY <1>1
<1>4. file[i][imp[i].done + 1] \in FileRow
  BY <1>1, <1>2
<1> QED
  BY <1>2, <1>3, <1>4 DEF Row, FileRow

\* The catalog that the stream of i works on.
LEMMA ViewFits ==
    ASSUME Inv, NEW i \in Imports
    PROVE  Tables(View(i), Book) /\ IsbnsDiffer(View(i)) /\ Sound(View(i))
BY DEF View, Inv, TypeOK, IsbnOnce, WorkSound, CatalogSound, Sound

\* What it makes of it with a row that it may store.
LEMMA StoredFits ==
    ASSUME Inv, NEW i \in Imports, imp[i].pc = "store", ~IsbnTaken(View(i), Row(i).isbn)
    PROVE  /\ Tables(Stored(i), Book) /\ IsbnsDiffer(Stored(i)) /\ Sound(Stored(i))
           /\ \E x : x.src = <<i, imp[i].done + 1>> /\ Stored(i).books = View(i).books \cup {x}
<1> DEFINE src == <<i, imp[i].done + 1>>
           isbn == Row(i).isbn
           names == Row(i).labels
           x == [id |-> NewId(View(i).books), isbn |-> isbn, src |-> src]
<1>1. isbn \in Isbns \cup Texts /\ names \in SUBSET Names
  BY RowAtHand
<1>2. src \in (Imports \cup Requests \cup {None}) \X Nat
  BY ImportFields
<1>3. Tables(View(i), Book) /\ IsbnsDiffer(View(i)) /\ Sound(View(i))
  BY ViewFits
<1>4. Stored(i) = AddLabelled(View(i), isbn, src, names)
  BY DEF Stored
<1>5. x.src = src
  OBVIOUS
<1>6. ~IsbnTaken(View(i), isbn)
  OBVIOUS
<1>7. Tables(db, Book) /\ late \subseteq db.links \cup db.labels
  BY DEF Inv, TypeOK
<1>8. Tables(Stored(i), Book) /\ Stored(i).books = View(i).books \cup {x}
  <2> HIDE DEF src, isbn, names
  <2> QED
    BY <1>1, <1>2, <1>3, <1>4, AddLabelledEffect
<1> HIDE DEF src, isbn, names, x
<1>9. IsbnsDiffer(Stored(i))
  BY <1>1, <1>2, <1>3, <1>4, <1>6, AddLabelledDiffers
<1>10. Sound(Stored(i))
  BY <1>1, <1>2, <1>3, <1>4, <1>7, AddLabelledSound
<1> QED
  BY <1>5, <1>8, <1>9, <1>10 DEF src

\* What a step that goes to another point of the stream does.
LEMMA Moved ==
    ASSUME Inv, NEW i \in Imports, NEW pc, To(i, pc),
           pc \in {"idle", "checked", "row", "download", "store", "sent"} \cup Ended
    PROVE  /\ imp' \in [Imports -> ImportRecord]
           /\ \A j \in Imports \ {i} : imp'[j] = imp[j]
           /\ imp'[i].pc = pc /\ imp'[i].mode = imp[i].mode /\ imp'[i].done = imp[i].done
           /\ imp'[i].valid = imp[i].valid /\ imp'[i].known = imp[i].known
           /\ imp'[i].warned = imp[i].warned /\ imp'[i].failed = imp[i].failed
BY ImportFields DEF To, ImportRecord

LEMMA CheckedEffect ==
    ASSUME Inv, NEW i \in Imports, Validate(i)
    PROVE  /\ imp' \in [Imports -> ImportRecord]
           /\ \A j \in Imports \ {i} : imp'[j] = imp[j]
           /\ imp'[i].pc = "checked" /\ imp'[i].mode = imp[i].mode /\ imp'[i].done = imp[i].done
           /\ imp'[i].valid = (\A k \in DOMAIN file[i] : ~RowInvalid(file[i][k]))
           /\ imp'[i].known = IsbnsIn(db)
           /\ imp'[i].warned = {k \in DOMAIN file[i] : RowWarned(file[i][k], IsbnsIn(db))}
           /\ imp'[i].failed = imp[i].failed
<1> DEFINE valid == \A k \in DOMAIN file[i] : ~RowInvalid(file[i][k])
           warned == {k \in DOMAIN file[i] : RowWarned(file[i][k], IsbnsIn(db))}
<1>1. imp' = [imp EXCEPT ![i].pc = "checked", ![i].valid = valid, ![i].known = IsbnsIn(db),
                         ![i].warned = warned]
  BY DEF Validate
<1>2. valid \in BOOLEAN
  OBVIOUS
<1>3. warned \subseteq Nat
  BY ImportFields
<1>4. IsbnsIn(db) \subseteq Isbns \cup Texts
  BY DEF Inv, TypeOK, Tables, Book, IsbnsIn
<1> HIDE DEF valid, warned
<1> DEFINE x == [imp[i] EXCEPT !.pc = "checked", !.valid = valid, !.known = IsbnsIn(db),
                               !.warned = warned]
<1>5. imp' = [imp EXCEPT ![i] = x]
  BY <1>1, ImportFields
<1>6. /\ x.pc = "checked" /\ x.mode = imp[i].mode /\ x.done = imp[i].done
      /\ x.valid = valid /\ x.known = IsbnsIn(db) /\ x.warned = warned
      /\ x.failed = imp[i].failed
  BY ImportFields DEF ImportRecord
<1>7. x \in ImportRecord
  BY <1>2, <1>3, <1>4, ImportFields DEF ImportRecord
<1> HIDE DEF x
<1>8. /\ imp' \in [Imports -> ImportRecord] /\ imp'[i] = x
      /\ \A j \in Imports \ {i} : imp'[j] = imp[j]
  BY <1>5, <1>7, ImportFields
<1> QED
  BY <1>6, <1>8 DEF valid, warned

LEMMA ExecuteEffect ==
    ASSUME Inv, NEW i \in Imports, Execute(i)
    PROVE  /\ imp' \in [Imports -> ImportRecord]
           /\ \A j \in Imports \ {i} : imp'[j] = imp[j]
           /\ imp[i].pc \in {"idle", "checked"} /\ imp'[i].done = imp[i].done
           /\ \/ imp'[i].pc = "error" /\ imp'[i].mode = imp[i].mode
              \/ imp'[i].pc = "row" /\ imp'[i].mode \in Modes
           /\ imp'[i].valid = imp[i].valid /\ imp'[i].known = imp[i].known
           /\ imp'[i].warned = imp[i].warned /\ imp'[i].failed = imp[i].failed
<1>1. PICK m \in Modes :
         imp' = IF temp[i] = "removed" THEN [imp EXCEPT ![i].pc = "error"]
                ELSE [imp EXCEPT ![i].mode = m, ![i].pc = "row"]
  BY DEF Execute
<1>2. imp[i].pc \in {"idle", "checked"}
  BY DEF Execute
<1>3. CASE temp[i] = "removed"
  <2>1. To(i, "error")
    BY <1>1, <1>3 DEF To
  <2> QED
    BY <1>2, <2>1, Moved DEF Ended
<1>4. CASE temp[i] # "removed"
  BY <1>1, <1>2, <1>4, ImportFields DEF ImportRecord
<1> QED
  BY <1>3, <1>4

\* The failure of a row.
LEMMA FailRowEffect ==
    ASSUME Inv, NEW i \in Imports, NEW why \in {"refused", "duplicate"}, FailRow(i, why)
    PROVE  /\ imp' \in [Imports -> ImportRecord]
           /\ \A j \in Imports \ {i} : imp'[j] = imp[j]
           /\ imp'[i].mode = imp[i].mode
           /\ \/ imp[i].mode = "rollback_all" /\ imp'[i].pc = "error" /\ imp'[i].done = imp[i].done
              \/ /\ imp[i].mode # "rollback_all" /\ imp'[i].pc = "sent"
                 /\ imp'[i].done = imp[i].done + 1
           /\ imp'[i].valid = imp[i].valid /\ imp'[i].known = imp[i].known
           /\ imp'[i].warned = imp[i].warned
           /\ imp'[i].failed = imp[i].failed \cup {[row |-> imp[i].done + 1, why |-> why]}
           /\ Rollback(i)
<1> DEFINE failed == imp[i].failed \cup {[row |-> imp[i].done + 1, why |-> why]}
           x == IF imp[i].mode = "rollback_all"
                THEN [imp[i] EXCEPT !.pc = "error", !.failed = failed]
                ELSE [imp[i] EXCEPT !.pc = "sent", !.failed = failed, !.done = imp[i].done + 1]
<1>1. imp' = [imp EXCEPT ![i] = x] /\ Rollback(i)
  BY DEF FailRow
<1>2. failed \subseteq [row : Nat, why : {"refused", "duplicate"}]
  BY ImportFields
<1> HIDE DEF failed
<1>3. x \in ImportRecord
  <2>1. "error" \in Ended /\ imp[i] \in ImportRecord /\ imp[i].done + 1 \in Nat
    BY ImportFields DEF Ended
  <2>2. [imp[i] EXCEPT !.pc = "error", !.failed = failed] \in ImportRecord
    BY <1>2, <2>1 DEF ImportRecord
  <2>3. [imp[i] EXCEPT !.pc = "sent", !.failed = failed, !.done = imp[i].done + 1]
        \in ImportRecord
    BY <1>2, <2>1 DEF ImportRecord
  <2> QED
    BY <2>2, <2>3
<1>4. /\ x.mode = imp[i].mode /\ x.valid = imp[i].valid /\ x.known = imp[i].known
      /\ x.warned = imp[i].warned /\ x.failed = failed
      /\ \/ imp[i].mode = "rollback_all" /\ x.pc = "error" /\ x.done = imp[i].done
         \/ imp[i].mode # "rollback_all" /\ x.pc = "sent" /\ x.done = imp[i].done + 1
  BY ImportFields DEF ImportRecord
<1> HIDE DEF x
<1>5. /\ imp' \in [Imports -> ImportRecord] /\ imp'[i] = x
      /\ \A j \in Imports \ {i} : imp'[j] = imp[j]
  BY <1>1, <1>3, ImportFields
<1> QED
  BY <1>1, <1>4, <1>5 DEF failed

LEMMA StoredEffect ==
    ASSUME Inv, NEW i \in Imports,
           imp' = [imp EXCEPT ![i].pc = "sent", ![i].done = @ + 1]
    PROVE  /\ imp' \in [Imports -> ImportRecord]
           /\ \A j \in Imports \ {i} : imp'[j] = imp[j]
           /\ imp'[i].pc = "sent" /\ imp'[i].mode = imp[i].mode /\ imp'[i].done = imp[i].done + 1
           /\ imp'[i].valid = imp[i].valid /\ imp'[i].known = imp[i].known
           /\ imp'[i].warned = imp[i].warned /\ imp'[i].failed = imp[i].failed
BY ImportFields DEF ImportRecord

LEMMA StopEffect ==
    ASSUME Inv, Stop
    PROVE  /\ imp' \in [Imports -> ImportRecord]
           /\ \A j \in Imports :
                 /\ imp'[j].pc \in Ended
                 /\ imp[j].pc \in Ended => imp'[j].pc = imp[j].pc
                 /\ imp[j].pc \notin Ended => imp'[j].pc = "gone"
                 /\ imp'[j].mode = imp[j].mode
                 /\ imp'[j].done = imp[j].done /\ imp'[j].valid = imp[j].valid
                 /\ imp'[j].known = imp[j].known /\ imp'[j].warned = imp[j].warned
                 /\ imp'[j].failed = imp[j].failed
<1>1. ASSUME NEW j \in Imports
      PROVE  LET x == IF imp[j].pc \in Ended THEN imp[j] ELSE [imp[j] EXCEPT !.pc = "gone"] IN
             /\ x \in ImportRecord /\ x.pc \in Ended /\ x.mode = imp[j].mode
             /\ imp[j].pc \in Ended => x.pc = imp[j].pc
             /\ imp[j].pc \notin Ended => x.pc = "gone"
             /\ x.done = imp[j].done /\ x.valid = imp[j].valid
             /\ x.known = imp[j].known /\ x.warned = imp[j].warned
             /\ x.failed = imp[j].failed
  BY ImportFields DEF ImportRecord, Ended
<1> QED
  BY <1>1 DEF Stop

-----------------------------------------------------------------------------
(* What a step does to the catalog, the lock, the loop and the requests.   *)

\* A commit, which ends the transaction, or none.
Commits(d, by) ==
    /\ db' = d /\ Remember(d, by) /\ lock' = None
    /\ Tables(d, Book) /\ IsbnsDiffer(d)
    /\ Sound(d) \/ (by \in Requests /\ req[by].stale)
CatalogStep == UNCHANGED <<db, late>> \/ \E d, by : Commits(d, by)

LockStep ==
    \/ UNCHANGED <<lock, work>>
    \/ lock' = None /\ work' = Empty
    \/ /\ lock' \in Imports /\ loop' = None /\ work' # Empty /\ UNCHANGED <<db, late>>
       /\ Tables(work', Book) /\ IsbnsDiffer(work') /\ Sound(work')

LoopStep ==
    \/ loop' = None
    \/ lock' = lock /\ loop' = loop
    \/ lock' = lock /\ loop' \in Imports \cup Requests /\ lock \notin {None, loop'}

RequestStep(q) ==
    \/ req'[q] = req[q] /\ (req[q].pc = "write" => db' = db)
    \/ req'[q] = [req[q] EXCEPT !.stale = TRUE]
    \/ req'[q] \in RequestRecord /\ Tables(req'[q].seen, Book) /\ req'[q].pc # "write"
    \/ /\ req'[q] \in RequestRecord /\ Tables(req'[q].seen, Book) /\ AskFits(req'[q])
       /\ Looks(req'[q]) => req'[q].seen = db
       /\ db' = db
RequestsStep ==
    /\ DOMAIN req' = Requests /\ req' = [q \in Requests |-> req'[q]]
    /\ \A q \in Requests : RequestStep(q)

Steady == CatalogStep /\ LockStep /\ LoopStep /\ RequestsStep

LEMMA CatalogKept ==
    ASSUME Inv, CatalogStep
    PROVE  /\ Tables(db, Book)' /\ (late \subseteq db.links \cup db.labels)'
           /\ IsbnsDiffer(db)' /\ CatalogSound'
<1>1. CASE UNCHANGED <<db, late>>
  BY <1>1 DEF Inv, TypeOK, IsbnOnce, IsbnsDiffer, CatalogSound, Blemishes, LinkWhole, LabelUsed,
              Labels, Tables
<1>2. CASE \E d, by : Commits(d, by)
  <2>1. PICK d, by : Commits(d, by)
    BY <1>2
  <2>2. Tables(db', Book) /\ IsbnsDiffer(db') /\ late' \subseteq db'.links \cup db'.labels
    BY <2>1 DEF Commits, Remember
  <2>3. Blemishes(d) \subseteq late'
    <3>1. Blemishes(d) \subseteq d.links \cup d.labels
      BY BlemishIs
    <3>2. CASE Sound(d)
      BY <2>1, <3>1, <3>2 DEF Commits, Remember, Sound
    <3>3. CASE by \in Requests /\ req[by].stale
      BY <2>1, <3>1, <3>3 DEF Commits, Remember
    <3> QED
      BY <2>1, <3>2, <3>3 DEF Commits
  <2> QED
    BY <2>1, <2>2, <2>3 DEF Commits, CatalogSound
<1> QED
  BY <1>1, <1>2 DEF CatalogStep

LEMMA WorkKept ==
    ASSUME Inv, CatalogStep, LockStep
    PROVE  /\ Tables(work, Book)' /\ IsbnsDiffer(work)' /\ WorkSound'
           /\ lock' \in Imports \cup {None} /\ (lock' = None <=> work' = Empty)
<1>1. Tables(work, Book) /\ IsbnsDiffer(work) /\ Sound(work) /\ lock \in Imports \cup {None}
      /\ (lock = None <=> work = Empty)
  BY DEF Inv, TypeOK, IsbnOnce, WorkSound
<1>2. CASE work' = Empty /\ lock' = None
  <2>1. Blemishes(Empty)' = {}
    BY EmptyCatalog DEF Blemishes, LinkWhole, LabelUsed, Labels, Ids, Empty
  <2>2. Sound(work)'
    BY <1>2, <2>1 DEF Sound
  <2> QED
    BY <1>2, <2>2, EmptyCatalog DEF WorkSound
<1>3. CASE UNCHANGED <<lock, work>> /\ lock # None
  <2>1. UNCHANGED <<db, late>>
    BY <1>3 DEF CatalogStep, Commits
  <2>2. Sound(work)'
    BY <1>1, <1>3, <2>1 DEF Sound, Suspect, Blemishes, LinkWhole, LabelUsed, Labels
  <2> QED
    BY <1>1, <1>3, <2>2 DEF WorkSound
<1>4. CASE /\ lock' \in Imports /\ work' # Empty /\ UNCHANGED <<db, late>>
           /\ Tables(work', Book) /\ IsbnsDiffer(work') /\ Sound(work')
  <2>1. Sound(work)'
    BY <1>4 DEF Sound, Suspect, Blemishes, LinkWhole, LabelUsed, Labels
  <2> QED
    BY <1>4, <2>1, ActorsAssumption DEF WorkSound
<1> QED
  BY <1>1, <1>2, <1>3, <1>4 DEF LockStep

LEMMA LoopKept ==
    ASSUME Inv, LoopStep
    PROVE  /\ loop' \in Imports \cup Requests \cup {None}
           /\ loop' # None => lock' \notin {None, loop'}
BY DEF Inv, TypeOK, LoopStep

LEMMA RequestsKept ==
    ASSUME Inv, CatalogStep, RequestsStep
    PROVE  /\ req' \in [Requests -> RequestRecord]
           /\ \A q \in Requests : Tables(req'[q].seen, Book)
           /\ SeenFits' /\ AsksFit'
<1>1. req \in [Requests -> RequestRecord] /\ (\A q \in Requests : Tables(req[q].seen, Book))
      /\ SeenFits /\ AsksFit
  BY DEF Inv, TypeOK
<1>2. ASSUME NEW q \in Requests
      PROVE  /\ req'[q] \in RequestRecord /\ Tables(req'[q].seen, Book)
             /\ req'[q].pc = "write" /\ ~req'[q].stale /\ Looks(req'[q]) => req'[q].seen = db'
             /\ req'[q].pc = "write" => AskFits(req'[q])
  <2>1. CASE req'[q] = req[q] /\ (req[q].pc = "write" => db' = db)
    BY <1>1, <2>1 DEF SeenFits, AsksFit
  <2>2. CASE req'[q] = [req[q] EXCEPT !.stale = TRUE]
    <3>1. req[q] \in RequestRecord
      BY <1>1
    <3>2. /\ req'[q] \in RequestRecord /\ req'[q].stale
          /\ req'[q].op = req[q].op /\ req'[q].pc = req[q].pc /\ req'[q].books = req[q].books
          /\ req'[q].add = req[q].add /\ req'[q].remove = req[q].remove
          /\ req'[q].own = req[q].own /\ req'[q].seen = req[q].seen
      BY <2>2, <3>1 DEF RequestRecord
    <3> QED
      BY <1>1, <3>2 DEF AsksFit, AskFits
  <2>3. CASE req'[q] \in RequestRecord /\ Tables(req'[q].seen, Book) /\ req'[q].pc # "write"
    BY <2>3
  <2>4. CASE /\ req'[q] \in RequestRecord /\ Tables(req'[q].seen, Book) /\ AskFits(req'[q])
             /\ Looks(req'[q]) => req'[q].seen = db
             /\ db' = db
    BY <2>4
  <2> QED
    BY <2>1, <2>2, <2>3, <2>4 DEF RequestsStep, RequestStep
<1>3. req' \in [Requests -> RequestRecord]
  BY <1>2 DEF RequestsStep
<1> QED
  BY <1>2, <1>3 DEF SeenFits, AsksFit, Looks, AskFits

\* The parts of the invariant that do not speak of the streams.
Common == FilesFit /\ SeenFits /\ AsksFit /\ CatalogSound /\ WorkSound /\ IsbnOnce

LEMMA SteadyKeeps ==
    ASSUME Inv, Steady, file' = file, imp' \in [Imports -> ImportRecord],
           temp' \in [Imports -> {"none", "there", "removed"}], stopped' \in BOOLEAN
    PROVE  TypeOK' /\ Common'
<1>1. FilesFit'
  BY DEF Inv, FilesFit
<1> QED
  BY <1>1, CatalogKept, WorkKept, LoopKept, RequestsKept DEF Steady, TypeOK, Common, IsbnOnce

-----------------------------------------------------------------------------
(* What the parts that each kind of step touches become.                   *)

LEMMA RequestsUnchanged ==
    ASSUME Inv, UNCHANGED <<db, req>>
    PROVE  RequestsStep
<1>1. req' \in [Requests -> RequestRecord]
  BY DEF Inv, TypeOK
<1>2. DOMAIN req' = Requests /\ req' = [q \in Requests |-> req'[q]]
  BY <1>1
<1>3. \A q \in Requests : RequestStep(q)
  BY DEF RequestStep
<1> QED
  BY <1>2, <1>3 DEF RequestsStep

LEMMA IdleFits ==
    ASSUME NEW how \in Answered
    PROVE  LET q == [Idle EXCEPT !.pc = how] IN
           q \in RequestRecord /\ Tables(q.seen, Book) /\ q.pc # "write"
<1>1. Tables(Empty, Book) /\ NoIsbn \in Isbns
  BY EmptyCatalog, RequestsAssumption
<1>2. Empty \in [books : SUBSET Book, labels : SUBSET Label, links : SUBSET LinkRow]
  BY <1>1 DEF Tables
<1>3. Idle \in RequestRecord /\ Idle.seen = Empty
  BY <1>1, <1>2 DEF Idle, RequestRecord
<1> QED
  BY <1>1, <1>3 DEF RequestRecord, Answered

LEMMA OvertakenFits ==
    ASSUME Inv, NEW d, db' = d, req' = Overtaken(d)
    PROVE  RequestsStep
<1>1. \A q \in Requests : RequestStep(q)
  BY DEF RequestStep, Overtaken
<1>2. DOMAIN req' = Requests /\ req' = [q \in Requests |-> req'[q]]
  BY DEF Overtaken
<1> QED
  BY <1>1, <1>2 DEF RequestsStep

LEMMA AnswerFits ==
    ASSUME Inv, NEW r \in Requests, NEW how \in Answered, req' = Answer(r, how), db' = db
    PROVE  RequestsStep
<1>1. req \in [Requests -> RequestRecord]
  BY DEF Inv, TypeOK
<1> DEFINE x == [Idle EXCEPT !.pc = how]
<1>2. x \in RequestRecord /\ Tables(x.seen, Book) /\ x.pc # "write"
  BY IdleFits
<1>3. req' = [req EXCEPT ![r] = x]
  BY DEF Answer
<1> HIDE DEF x
<1>4. DOMAIN req' = Requests /\ req' = [q \in Requests |-> req'[q]]
  BY <1>1, <1>3
<1>5. req'[r] = x /\ \A q \in Requests \ {r} : req'[q] = req[q]
  BY <1>1, <1>3
<1>6. \A q \in Requests : RequestStep(q)
  BY <1>2, <1>5 DEF RequestStep
<1> QED
  BY <1>4, <1>6 DEF RequestsStep

\* A question that asks for what a client may, about the catalog of now.
LEMMA AskedFits ==
    ASSUME Inv, NEW r \in Requests, db' = db, NEW q \in RequestRecord, Asks(r, q),
           Tables(q.seen, Book), AskFits(q), Looks(q) => q.seen = db
    PROVE  RequestsStep
<1> DEFINE x == [q EXCEPT !.pc = "write"]
<1>1. req \in [Requests -> RequestRecord]
  BY DEF Inv, TypeOK
<1>2. req' = [req EXCEPT ![r] = x]
  BY DEF Asks
<1>3. /\ x.op = q.op /\ x.books = q.books /\ x.add = q.add /\ x.remove = q.remove
      /\ x.own = q.own /\ x.seen = q.seen
  BY DEF RequestRecord
<1>4. x \in RequestRecord
  BY DEF RequestRecord
<1> HIDE DEF x
<1>5. Tables(x.seen, Book) /\ AskFits(x) /\ (Looks(x) => x.seen = db)
  BY <1>3 DEF AskFits, Looks
<1>6. DOMAIN req' = Requests /\ req' = [p \in Requests |-> req'[p]]
  BY <1>1, <1>2
<1>7. req'[r] = x /\ \A p \in Requests \ {r} : req'[p] = req[p]
  BY <1>1, <1>2
<1>8. \A p \in Requests : RequestStep(p)
  BY <1>4, <1>5, <1>7 DEF RequestStep
<1> QED
  BY <1>6, <1>8 DEF RequestsStep

LEMMA IdleIs ==
    /\ Idle \in RequestRecord /\ Tables(Idle.seen, Book) /\ Tables(Empty, Book)
    /\ Idle.books = {} /\ Idle.isbn = NoIsbn /\ Idle.add = {} /\ Idle.remove = {}
    /\ Idle.own = FALSE /\ Idle.stale = FALSE /\ Idle.seen = Empty
    /\ Empty \in [books : SUBSET Book, labels : SUBSET Label, links : SUBSET LinkRow]
<1>1. Tables(Empty, Book) /\ NoIsbn \in Isbns
  BY EmptyCatalog, RequestsAssumption
<1>2. Empty \in [books : SUBSET Book, labels : SUBSET Label, links : SUBSET LinkRow]
  BY <1>1 DEF Tables
<1> QED
  BY <1>1, <1>2 DEF Idle, RequestRecord

LEMMA AskNewSteady ==
    ASSUME Inv, NEW r \in Requests, db' = db, NEW op \in {"create", "import_one"},
           NEW isbn \in Isbns, NEW names \in Labelings,
           Asks(r, [Idle EXCEPT !.op = op, !.isbn = isbn, !.add = names])
    PROVE  RequestsStep
<1> DEFINE q == [Idle EXCEPT !.op = op, !.isbn = isbn, !.add = names]
<1>1. names \in SUBSET Names
  BY RequestsAssumption
<1>2. q.op = op /\ q.seen = Empty
  BY IdleIs DEF RequestRecord
<1>3. q \in RequestRecord
  BY <1>1, IdleIs DEF RequestRecord, Coroutines
<1> HIDE DEF q
<1>4. AskFits(q) /\ ~Looks(q)
  BY <1>2 DEF AskFits, Looks
<1>5. Asks(r, q)
  BY DEF q
<1>6. Tables(q.seen, Book)
  BY <1>2, IdleIs
<1> QED
  BY <1>3, <1>4, <1>5, <1>6, AskedFits

LEMMA AskSteady ==
    ASSUME Inv, NEW r \in Requests, Ask(r)
    PROVE  RequestsStep
<1>1. db' = db
  BY DEF Ask
<1>2. Labelings \subseteq SUBSET Names
  BY RequestsAssumption
<1>3. /\ Ids(db.books) \subseteq Nat /\ Tables(db, Book)
      /\ db \in [books : SUBSET Book, labels : SUBSET Label, links : SUBSET LinkRow]
  BY CatalogFields DEF Inv, TypeOK, Ids, Tables
<1>4. \A names \in SUBSET Names : OfKind(names, "tag") \subseteq Names
                                  /\ OfKind(names, "tag") \subseteq OfKind(Names, "tag")
  BY DEF OfKind
<1>5. CASE AskCreate(r)
  <2>1. PICK isbn \in Isbns, names \in Labelings :
           Asks(r, [Idle EXCEPT !.op = "create", !.isbn = isbn, !.add = names])
    BY <1>5 DEF AskCreate
  <2> QED
    BY <1>1, <2>1, AskNewSteady
<1>6. CASE AskImport(r)
  <2>1. PICK isbn \in Isbns, names \in Labelings :
           \/ req' = Answer(r, "refused")
           \/ Asks(r, [Idle EXCEPT !.op = "import_one", !.isbn = isbn, !.add = names])
    BY <1>6 DEF AskImport
  <2>2. CASE Asks(r, [Idle EXCEPT !.op = "import_one", !.isbn = isbn, !.add = names])
    BY <1>1, <2>2, AskNewSteady
  <2>3. CASE req' = Answer(r, "refused")
    BY <1>1, <2>3, AnswerFits DEF Answered
  <2> QED
    BY <2>1, <2>2, <2>3
<1>7. CASE AskPatch(r)
  <2>1. PICK b \in Ids(db.books), names \in Labelings, own \in BOOLEAN :
           Asks(r, [Idle EXCEPT !.op = "patch", !.books = {b}, !.add = OfKind(names, "tag"),
                                !.own = own, !.seen = IF own THEN Empty ELSE db])
    BY <1>7 DEF AskPatch
  <2> DEFINE seen == IF own THEN Empty ELSE db
             add == OfKind(names, "tag")
             books == {b}
  <2>2. /\ add \in SUBSET Names /\ add \subseteq OfKind(Names, "tag")
        /\ books \in SUBSET Nat /\ books # {} /\ books \subseteq Ids(db.books)
    BY <1>2, <1>3, <1>4
  <2>3. /\ ~own => seen = db
        /\ seen \in [books : SUBSET Book, labels : SUBSET Label, links : SUBSET LinkRow]
        /\ Tables(seen, Book)
    BY <1>3, IdleIs
  <2> DEFINE q == [Idle EXCEPT !.op = "patch", !.books = books, !.add = add, !.own = own,
                               !.seen = seen]
  <2>4. Asks(r, q)
    BY <2>1
  <2> HIDE DEF seen, add, books
  <2>5. q.op = "patch" /\ q.books = books /\ q.add = add /\ q.own = own /\ q.seen = seen
    BY IdleIs DEF RequestRecord
  <2>6. q \in RequestRecord
    BY <2>2, <2>3, IdleIs DEF RequestRecord, Coroutines
  <2> HIDE DEF q
  <2>7. AskFits(q) /\ (Looks(q) => q.seen = db) /\ Tables(q.seen, Book)
    BY <2>2, <2>3, <2>5 DEF AskFits, Looks
  <2> QED
    BY <1>1, <2>4, <2>6, <2>7, AskedFits
<1>8. CASE AskDelete(r)
  <2>1. PICK b \in Ids(db.books) :
           Asks(r, [Idle EXCEPT !.op = "delete", !.books = {b}, !.seen = db])
    BY <1>8 DEF AskDelete
  <2> DEFINE q == [Idle EXCEPT !.op = "delete", !.books = {b}, !.seen = db]
  <2>2. q.op = "delete" /\ q.seen = db
    BY IdleIs DEF RequestRecord
  <2>3. q \in RequestRecord
    BY <1>3, IdleIs DEF RequestRecord, Threads
  <2>4. Asks(r, q)
    BY <2>1
  <2> HIDE DEF q
  <2>5. AskFits(q) /\ Tables(q.seen, Book)
    BY <1>3, <2>2 DEF AskFits
  <2> QED
    BY <1>1, <2>2, <2>3, <2>4, <2>5, AskedFits
<1>9. CASE AskBatch(r)
  <2>1. PICK books \in (SUBSET Ids(db.books)) \ {{}},
             add \in SUBSET OfKind(Names, "tag"), remove \in SUBSET OfKind(Names, "tag") :
           /\ add \cap remove = {}
           /\ Asks(r, [Idle EXCEPT !.op = "batch", !.books = books, !.add = add,
                                   !.remove = remove, !.seen = db])
    BY <1>9 DEF AskBatch
  <2>2. books \in SUBSET Nat /\ books # {} /\ books \subseteq Ids(db.books)
    BY <1>3
  <2>3. add \in SUBSET Names /\ remove \in SUBSET Names
    BY DEF OfKind
  <2> DEFINE q == [Idle EXCEPT !.op = "batch", !.books = books, !.add = add,
                               !.remove = remove, !.seen = db]
  <2>4. /\ q.op = "batch" /\ q.books = books /\ q.add = add /\ q.remove = remove
        /\ q.seen = db
    BY IdleIs DEF RequestRecord
  <2>5. q \in RequestRecord
    BY <1>3, <2>2, <2>3, IdleIs DEF RequestRecord, Threads
  <2>6. Asks(r, q)
    BY <2>1
  <2> HIDE DEF q
  <2>7. AskFits(q) /\ Tables(q.seen, Book)
    BY <1>3, <2>1, <2>2, <2>4 DEF AskFits
  <2> QED
    BY <1>1, <2>4, <2>5, <2>6, <2>7, AskedFits
<1> QED
  BY <1>5, <1>6, <1>7, <1>8, <1>9 DEF Ask

\* A request that writes.
LEMMA WriteSteady ==
    ASSUME Inv, NEW r \in Requests, Write(r), UNCHANGED work
    PROVE  Steady
<1>1. Standing
  BY InvStanding
<1>2. /\ Answers(r) /\ lock = None /\ lock' = None /\ req[r].pc = "write"
      /\ loop' = (IF loop = r THEN None ELSE loop)
  BY <1>1, WriteAnswers
<1>3. LockStep /\ LoopStep
  BY <1>2 DEF LockStep, LoopStep
<1>4. CASE Fail(r)
  BY <1>3, <1>4, AnswerFits DEF Fail, Steady, CatalogStep, Answered
<1>5. CASE \E d : Result(r, d) /\ CommitAnswer(r, d)
  <2>1. PICK d : Result(r, d) /\ CommitAnswer(r, d)
    BY <1>5
  <2>2. /\ db' = d /\ Remember(d, r)
        /\ req' = [Overtaken(d) EXCEPT ![r] = [Idle EXCEPT !.pc = "ok"]]
    BY <2>1 DEF CommitAnswer
  <2>3. Commits(d, r)
    BY <1>2, <2>1, <2>2 DEF Commits, Result
  <2> DEFINE x == [Idle EXCEPT !.pc = "ok"]
  <2>4. x \in RequestRecord /\ Tables(x.seen, Book) /\ x.pc # "write"
    BY IdleFits DEF Answered
  <2> HIDE DEF x
  <2>5. req' = [q \in Requests |-> IF q = r THEN x ELSE Overtaken(d)[q]]
    BY <2>2 DEF x, Overtaken
  <2>6. DOMAIN req' = Requests /\ req' = [q \in Requests |-> req'[q]]
    BY <2>5
  <2>7. ASSUME NEW q \in Requests PROVE RequestStep(q)
    <3>1. CASE q = r
      BY <2>4, <2>5, <3>1 DEF RequestStep
    <3>2. CASE q # r
      BY <2>2, <2>5, <3>2 DEF RequestStep, Overtaken
    <3> QED
      BY <3>1, <3>2
  <2>8. CatalogStep /\ RequestsStep
    BY <2>3, <2>6, <2>7 DEF CatalogStep, RequestsStep
  <2> QED
    BY <2>8, <1>3 DEF Steady
<1> QED
  BY <1>2, <1>4, <1>5 DEF Answers

LEMMA RequestSteady ==
    ASSUME Inv, NEW r \in Requests, Ask(r) \/ Write(r) \/ StopLoop(r) \/ GiveUp(r), UNCHANGED work
    PROVE  Steady
<1>1. CASE Ask(r)
  BY <1>1, AskSteady DEF Ask, Steady, CatalogStep, LockStep, LoopStep
<1>2. CASE StopLoop(r)
  <2>1. RequestsStep
    BY <1>2, RequestsUnchanged DEF StopLoop
  <2>2. r # lock
    BY ActorsAssumption DEF Inv, TypeOK
  <2> QED
    BY <1>2, <2>1, <2>2 DEF StopLoop, Steady, CatalogStep, LockStep, LoopStep
<1>3. CASE GiveUp(r)
  BY <1>3, AnswerFits DEF GiveUp, Answered, Steady, CatalogStep, LockStep, LoopStep
<1> QED
  BY <1>1, <1>2, <1>3, WriteSteady

-----------------------------------------------------------------------------
(* What a step makes of the streams.                                       *)

Streams == StreamsFit /\ HolderFits /\ VerdictsFit

\* No book of the import of j appears in the library.
NoNewOf(j) == \A b \in db'.books \ db.books : \A k \in DOMAIN file[j] : b.src # <<j, k>>

LEMMA StreamKept ==
    ASSUME Inv, NEW j \in Imports, imp'[j] = imp[j], file' = file, NoNewOf(j),
           lock = j => lock' = j
    PROVE  StreamFits(j)' /\ VerdictFits(j)'
<1>1. StreamFits(j) /\ VerdictFits(j)
  BY ImportFields
<1>2. Unseen(j) => Unseen(j)'
  BY DEF Unseen, NoNewOf
<1>3. VerdictFits(j)'
  BY <1>1 DEF VerdictFits
<1>4. StreamFits(j)'
  BY <1>1, <1>2 DEF StreamFits
<1> QED
  BY <1>3, <1>4

LEMMA VerdictKept ==
    ASSUME Inv, NEW j \in Imports, file' = file, imp'[j].valid = imp[j].valid,
           imp'[j].known = imp[j].known, imp'[j].warned = imp[j].warned,
           imp'[j].failed = imp[j].failed, imp'[j].pc = "idle" => imp[j].pc = "idle"
    PROVE  VerdictFits(j)'
<1>1. VerdictFits(j)
  BY ImportFields
<1> QED
  BY <1>1 DEF VerdictFits

\* A step of one import leaves the others as they are.
LEMMA OneStream ==
    ASSUME Inv, NEW i \in Imports, file' = file,
           \A j \in Imports \ {i} : imp'[j] = imp[j] /\ NoNewOf(j) /\ (lock = j => lock' = j),
           StreamFits(i)', VerdictFits(i)'
    PROVE  StreamsFit' /\ VerdictsFit'
<1>1. \A j \in Imports : StreamFits(j)' /\ VerdictFits(j)'
  BY StreamKept
<1> QED
  BY <1>1 DEF StreamsFit, VerdictsFit

LEMMA HolderOther ==
    ASSUME Inv, NEW i \in Imports, file' = file, \A j \in Imports \ {i} : imp'[j] = imp[j],
           lock' = None \/ (lock # i /\ UNCHANGED <<lock, work, db>>)
    PROVE  HolderFits'
<1>1. HolderFits /\ lock \in Imports \cup {None}
  BY DEF Inv, TypeOK
<1>2. CASE lock' = None
  BY <1>2 DEF HolderFits
<1>3. CASE lock # i /\ lock # None /\ UNCHANGED <<lock, work, db>>
  BY <1>1, <1>3 DEF HolderFits
<1> QED
  BY <1>2, <1>3

\* An import that comes to its end and leaves the library alone.
LEMMA EndedStreams ==
    ASSUME Inv, NEW i \in Imports, NEW pc \in Ended, To(i, pc), UNCHANGED <<db, file>>,
           Rollback(i)
    PROVE  Streams'
<1>1. /\ \A j \in Imports \ {i} : imp'[j] = imp[j]
      /\ imp'[i].pc = pc /\ imp'[i].valid = imp[i].valid /\ imp'[i].known = imp[i].known
      /\ imp'[i].warned = imp[i].warned /\ imp'[i].failed = imp[i].failed
  BY Moved
<1>2. StreamFits(i)'
  BY <1>1 DEF StreamFits, Active, Ended
<1>3. VerdictFits(i)'
  BY <1>1, VerdictKept DEF Ended
<1>4. \A j \in Imports \ {i} : NoNewOf(j) /\ (lock = j => lock' = j)
  BY DEF NoNewOf, Rollback
<1>5. lock' = None \/ (lock # i /\ UNCHANGED <<lock, work, db>>)
  BY DEF Rollback
<1> QED
  BY <1>1, <1>2, <1>3, <1>4, <1>5, OneStream, HolderOther DEF Streams

\* An import that goes on with the row at hand, or to the next one.
LEMMA GoesOn ==
    ASSUME Inv, NEW i \in Imports, NEW pc \in {"row", "download", "store"}, To(i, pc),
           UNCHANGED <<db, lock, work, file>>, imp[i].pc \in Active, imp[i].done < Len(file[i])
    PROVE  Streams'
<1>1. /\ \A j \in Imports \ {i} : imp'[j] = imp[j]
      /\ imp'[i].pc = pc /\ imp'[i].valid = imp[i].valid /\ imp'[i].known = imp[i].known
      /\ imp'[i].warned = imp[i].warned /\ imp'[i].failed = imp[i].failed
      /\ imp'[i].mode = imp[i].mode /\ imp'[i].done = imp[i].done
  BY Moved
<1>2. StreamFits(i) /\ HolderFits /\ lock \in Imports \cup {None}
  BY ImportFields DEF Inv, TypeOK
<1>3. Unseen(i) => Unseen(i)'
  BY DEF Unseen
<1>4. StreamFits(i)'
  BY <1>1, <1>2, <1>3, ImportFields DEF StreamFits, Active
<1>5. VerdictFits(i)'
  BY <1>1, VerdictKept
<1>6. \A j \in Imports \ {i} : NoNewOf(j) /\ (lock = j => lock' = j)
  BY DEF NoNewOf
<1>7. HolderFits'
  <2>1. CASE lock = i
    BY <1>1, <1>2, <2>1 DEF HolderFits, Active
  <2>2. CASE lock # i
    BY <1>1, <2>2, HolderOther
  <2> QED
    BY <2>1, <2>2
<1> QED
  BY <1>1, <1>4, <1>5, <1>6, <1>7, OneStream DEF Streams

\* A row fails.
LEMMA FailedStreams ==
    ASSUME Inv, NEW i \in Imports, NEW why \in {"refused", "duplicate"}, FailRow(i, why),
           imp[i].pc \in {"row", "store"}, UNCHANGED <<db, file>>,
           why = "refused" => RowRefused(Row(i)),
           why = "duplicate" => NoBlankIsbn(Row(i))
    PROVE  Streams'
<1>1. /\ \A j \in Imports \ {i} : imp'[j] = imp[j]
      /\ imp'[i].mode = imp[i].mode
      /\ \/ imp[i].mode = "rollback_all" /\ imp'[i].pc = "error" /\ imp'[i].done = imp[i].done
         \/ /\ imp[i].mode # "rollback_all" /\ imp'[i].pc = "sent"
            /\ imp'[i].done = imp[i].done + 1
      /\ imp'[i].valid = imp[i].valid /\ imp'[i].known = imp[i].known
      /\ imp'[i].warned = imp[i].warned
      /\ imp'[i].failed = imp[i].failed \cup {[row |-> imp[i].done + 1, why |-> why]}
      /\ Rollback(i)
  BY FailRowEffect
<1>2. StreamFits(i) /\ VerdictFits(i) /\ imp[i].done \in Nat /\ Len(file[i]) \in Nat
      /\ imp[i].done < Len(file[i]) /\ imp[i].mode \in Modes
  BY ImportFields, FilesAssumption DEF StreamFits, Active
<1>3. imp[i].mode # "rollback_all" => lock # i
  BY ActorsAssumption DEF Inv, HolderFits
<1>4. StreamFits(i)'
  BY <1>1, <1>2 DEF StreamFits, Active, Ended
<1>5. VerdictFits(i)'
  <2>1. Row(i) = file[i][imp[i].done + 1] /\ imp[i].done + 1 \in DOMAIN file[i]
    BY RowAtHand
  <2> DEFINE g == [row |-> imp[i].done + 1, why |-> why]
  <2>2. /\ g.row \in DOMAIN file[i]
        /\ g.why = "refused" => RowRefused(file[i][g.row])
        /\ g.why = "duplicate" => NoBlankIsbn(file[i][g.row])
    BY <2>1
  <2>3. imp'[i].failed = imp[i].failed \cup {g} /\ imp'[i].pc # "idle"
    BY <1>1
  <2> HIDE DEF g
  <2> QED
    BY <1>1, <1>2, <2>2, <2>3 DEF VerdictFits
<1>6. \A j \in Imports \ {i} : NoNewOf(j) /\ (lock = j => lock' = j)
  BY <1>1 DEF NoNewOf, Rollback
<1>7. lock' = None \/ (lock # i /\ UNCHANGED <<lock, work, db>>)
  BY <1>1 DEF Rollback
<1> QED
  BY <1>1, <1>4, <1>5, <1>6, <1>7, OneStream, HolderOther DEF Streams

LEMMA RollbackSteady ==
    ASSUME Inv, NEW i \in Imports, Rollback(i), loop' = None, UNCHANGED <<db, req, late>>
    PROVE  Steady
BY RequestsUnchanged DEF Rollback, Steady, CatalogStep, LockStep, LoopStep

LEMMA StillSteady ==
    ASSUME Inv, UNCHANGED <<db, lock, loop, req, late, work>>
    PROVE  Steady
BY RequestsUnchanged DEF Steady, CatalogStep, LockStep, LoopStep

\* Nothing happens to the library, the lock and the imports.
LEMMA SameStreams ==
    ASSUME Inv, UNCHANGED <<db, lock, work, file, imp>>
    PROVE  Streams'
<1>1. \A j \in Imports : StreamFits(j)' /\ VerdictFits(j)'
  BY StreamKept DEF NoNewOf
<1>2. HolderFits'
  BY DEF Inv, HolderFits
<1> QED
  BY <1>1, <1>2 DEF Streams, StreamsFit, VerdictsFit

-----------------------------------------------------------------------------
(* One lemma per step of an import.                                        *)

LEMMA ByParts ==
    ASSUME Inv, Steady, Streams', file' = file, imp' \in [Imports -> ImportRecord],
           temp' \in [Imports -> {"none", "there", "removed"}], stopped' \in BOOLEAN
    PROVE  Inv'
BY SteadyKeeps DEF Streams, Common, Inv

LEMMA FieldsKept ==
    ASSUME Inv
    PROVE  /\ temp \in [Imports -> {"none", "there", "removed"}] /\ stopped \in BOOLEAN
           /\ imp \in [Imports -> ImportRecord]
           /\ lock \in Imports \cup {None} /\ None \notin Imports
BY ActorsAssumption DEF Inv, TypeOK

LEMMA ParseKeeps ==
    ASSUME Inv, NEW i \in Imports, Parse(i) \/ CleanTemp(i)
    PROVE  Inv'
<1>1. UNCHANGED <<db, lock, loop, req, late, work, file, imp, stopped>>
  BY DEF Parse, CleanTemp
<1>2. temp' \in [Imports -> {"none", "there", "removed"}]
  BY FieldsKept DEF Parse, CleanTemp
<1>3. Steady /\ Streams'
  BY <1>1, StillSteady, SameStreams
<1> QED
  BY <1>1, <1>2, <1>3, FieldsKept, ByParts

LEMMA ValidateKeeps ==
    ASSUME Inv, NEW i \in Imports, Validate(i)
    PROVE  Inv'
<1>1. UNCHANGED <<db, lock, loop, req, late, work, file, temp, stopped>> /\ imp[i].pc = "idle"
  BY DEF Validate
<1>2. /\ imp' \in [Imports -> ImportRecord]
      /\ \A j \in Imports \ {i} : imp'[j] = imp[j]
      /\ imp'[i].pc = "checked" /\ imp'[i].mode = imp[i].mode /\ imp'[i].done = imp[i].done
      /\ imp'[i].valid = (\A k \in DOMAIN file[i] : ~RowInvalid(file[i][k]))
      /\ imp'[i].known = IsbnsIn(db)
      /\ imp'[i].warned = {k \in DOMAIN file[i] : RowWarned(file[i][k], IsbnsIn(db))}
      /\ imp'[i].failed = imp[i].failed
  BY CheckedEffect
<1>3. StreamFits(i) /\ VerdictFits(i) /\ HolderFits
  BY ImportFields DEF Inv
<1>4. Unseen(i)'
  BY <1>1, <1>3 DEF StreamFits, Unseen
<1>5. StreamFits(i)'
  BY <1>1, <1>2, <1>3, <1>4 DEF StreamFits, Active
<1>6. VerdictFits(i)'
  BY <1>1, <1>2, <1>3 DEF VerdictFits
<1>7. lock # i
  BY <1>1, FieldsKept DEF Inv, HolderFits, Active
<1>8. StreamsFit' /\ VerdictsFit'
  BY <1>1, <1>2, <1>5, <1>6, OneStream DEF NoNewOf
<1>9. HolderFits'
  BY <1>1, <1>2, <1>7, HolderOther
<1> QED
  BY <1>1, <1>2, <1>8, <1>9, StillSteady, FieldsKept, ByParts DEF Streams

LEMMA ExecuteKeeps ==
    ASSUME Inv, NEW i \in Imports, Execute(i)
    PROVE  Inv'
<1>1. UNCHANGED <<db, lock, loop, req, late, work, file, temp, stopped>>
  BY DEF Execute
<1>2. /\ imp' \in [Imports -> ImportRecord]
      /\ \A j \in Imports \ {i} : imp'[j] = imp[j]
      /\ imp[i].pc \in {"idle", "checked"} /\ imp'[i].done = imp[i].done
      /\ \/ imp'[i].pc = "error" /\ imp'[i].mode = imp[i].mode
         \/ imp'[i].pc = "row" /\ imp'[i].mode \in Modes
      /\ imp'[i].valid = imp[i].valid /\ imp'[i].known = imp[i].known
      /\ imp'[i].warned = imp[i].warned /\ imp'[i].failed = imp[i].failed
  BY ExecuteEffect
<1>3. StreamFits(i) /\ Len(file[i]) \in 1..MaxRows /\ MaxRows \in Nat
  BY ImportFields, FilesAssumption
<1>4. Unseen(i)' /\ imp[i].done = 0
  BY <1>1, <1>2, <1>3 DEF StreamFits, Unseen
<1>5. StreamFits(i)'
  BY <1>1, <1>2, <1>3, <1>4 DEF StreamFits, Active, Ended
<1>6. VerdictFits(i)'
  BY <1>1, <1>2, VerdictKept
<1>7. lock # i
  BY <1>2, FieldsKept DEF Inv, HolderFits, Active
<1>8. StreamsFit' /\ VerdictsFit'
  BY <1>1, <1>2, <1>5, <1>6, OneStream DEF NoNewOf
<1>9. HolderFits'
  BY <1>1, <1>2, <1>7, HolderOther
<1> QED
  BY <1>1, <1>2, <1>8, <1>9, StillSteady, FieldsKept, ByParts DEF Streams

LEMMA TakeRowKeeps ==
    ASSUME Inv, NEW i \in Imports, TakeRow(i)
    PROVE  Inv'
<1>1. /\ UNCHANGED <<db, loop, req, late, file, temp, stopped>>
      /\ imp[i].pc = "row" /\ loop = None
  BY DEF TakeRow, OnLoop
<1>2. CASE RowRefused(Row(i))
  <2>1. FailRow(i, "refused")
    BY <1>2 DEF TakeRow
  <2>2. imp' \in [Imports -> ImportRecord] /\ Rollback(i)
    BY <2>1, FailRowEffect
  <2>3. Streams'
    BY <1>1, <1>2, <2>1, FailedStreams
  <2>4. Steady
    BY <1>1, <2>2, RollbackSteady
  <2> QED
    BY <1>1, <2>2, <2>3, <2>4, FieldsKept, ByParts
<1>3. CASE ~RowRefused(Row(i))
  <2>1. UNCHANGED <<lock, work>> /\ \E pc \in {"row", "download", "store"} : To(i, pc)
    BY <1>3 DEF TakeRow
  <2>2. PICK pc \in {"row", "download", "store"} : To(i, pc)
    BY <2>1
  <2>3. imp[i].pc \in Active /\ imp[i].done < Len(file[i])
    BY <1>1, ImportFields DEF Active, StreamFits
  <2>4. Streams' /\ imp' \in [Imports -> ImportRecord]
    BY <1>1, <2>1, <2>2, <2>3, GoesOn, Moved
  <2> QED
    BY <1>1, <2>1, <2>4, StillSteady, FieldsKept, ByParts
<1> QED
  BY <1>2, <1>3

LEMMA EndDownloadKeeps ==
    ASSUME Inv, NEW i \in Imports, EndDownload(i) \/ NextRow(i)
    PROVE  Inv'
<1>1. UNCHANGED <<db, lock, loop, req, late, work, file, temp, stopped>>
  BY DEF EndDownload, NextRow
<1>2. /\ imp[i].pc \in Active /\ imp[i].done < Len(file[i])
      /\ \E pc \in {"row", "download", "store"} : To(i, pc)
  BY ImportFields DEF EndDownload, NextRow, OnLoop, Active, StreamFits
<1>3. PICK pc \in {"row", "download", "store"} : To(i, pc)
  BY <1>2
<1>4. Streams' /\ imp' \in [Imports -> ImportRecord]
  BY <1>1, <1>2, <1>3, GoesOn, Moved
<1> QED
  BY <1>1, <1>4, StillSteady, FieldsKept, ByParts

LEMMA GiveUpImportKeeps ==
    ASSUME Inv, NEW i \in Imports, GiveUpImport(i) \/ Disconnect(i)
    PROVE  Inv'
<1>1. UNCHANGED <<db, req, late, file, temp, stopped>> /\ loop' = None
  BY DEF GiveUpImport, Disconnect
<1>2. Rollback(i) /\ \E pc \in Ended : To(i, pc)
  BY DEF GiveUpImport, Disconnect, Rollback, Ended
<1>3. PICK pc \in Ended : To(i, pc)
  BY <1>2
<1>4. Streams' /\ imp' \in [Imports -> ImportRecord]
  BY <1>1, <1>2, <1>3, EndedStreams, Moved
<1>5. Steady
  BY <1>1, <1>2, RollbackSteady
<1> QED
  BY <1>1, <1>4, <1>5, FieldsKept, ByParts

LEMMA StopLoopForKeeps ==
    ASSUME Inv, NEW i \in Imports, StopLoopFor(i)
    PROVE  Inv'
<1>1. /\ UNCHANGED <<db, lock, req, late, work, file, temp, imp, stopped>>
      /\ loop' = i /\ lock \notin {None, i}
  BY DEF StopLoopFor, importVars
<1>2. Steady
  BY <1>1, RequestsUnchanged DEF Steady, CatalogStep, LockStep, LoopStep
<1>3. Streams'
  BY <1>1, SameStreams
<1> QED
  BY <1>1, <1>2, <1>3, FieldsKept, ByParts

\* The source of a row is that of no other import.
LEMMA OtherRow ==
    ASSUME NEW i, NEW j, i # j, NEW m, NEW n
    PROVE  <<i, m>> # <<j, n>>
OBVIOUS

LEMMA StoreKeeps ==
    ASSUME Inv, NEW i \in Imports, Store(i)
    PROVE  Inv'
<1>1. /\ UNCHANGED <<file, temp, stopped>> /\ imp[i].pc = "store"
      /\ lock \in {None, i} /\ loop' = None
  BY DEF Store, OnLoop
<1>2. CASE IsbnTaken(View(i), Row(i).isbn)
  <2>1. FailRow(i, "duplicate") /\ UNCHANGED <<db, req, late>>
    BY <1>2 DEF Store
  <2>2. NoBlankIsbn(Row(i))
    BY <1>2 DEF IsbnTaken, NoBlankIsbn, NoIsbn
  <2>3. imp' \in [Imports -> ImportRecord] /\ Rollback(i)
    BY <2>1, FailRowEffect
  <2>4. Streams'
    BY <1>1, <2>1, <2>2, FailedStreams
  <2>5. Steady
    BY <1>1, <2>1, <2>3, RollbackSteady
  <2> QED
    BY <1>1, <2>3, <2>4, <2>5, FieldsKept, ByParts
<1>3. CASE ~IsbnTaken(View(i), Row(i).isbn)
  <2> DEFINE new == Stored(i)
             n == imp[i].done + 1
  <2>1. /\ imp' = [imp EXCEPT ![i].pc = "sent", ![i].done = @ + 1]
        /\ IF imp[i].mode = "rollback_all"
           THEN lock' = i /\ work' = new /\ UNCHANGED <<db, req, late>>
           ELSE /\ db' = new /\ req' = Overtaken(new) /\ Remember(new, None)
                /\ UNCHANGED <<lock, work>>
    BY <1>3 DEF Store
  <2>2. /\ Tables(new, Book) /\ IsbnsDiffer(new) /\ Sound(new)
        /\ \E x : x.src = <<i, n>> /\ new.books = View(i).books \cup {x}
    BY <1>1, <1>3, StoredFits
  <2>3. PICK x : x.src = <<i, n>> /\ new.books = View(i).books \cup {x}
    BY <2>2
  <2> HIDE DEF new
  <2>4. /\ imp' \in [Imports -> ImportRecord]
        /\ \A j \in Imports \ {i} : imp'[j] = imp[j]
        /\ imp'[i].pc = "sent" /\ imp'[i].mode = imp[i].mode /\ imp'[i].done = n
        /\ imp'[i].valid = imp[i].valid /\ imp'[i].known = imp[i].known
        /\ imp'[i].warned = imp[i].warned /\ imp'[i].failed = imp[i].failed
    BY <2>1, StoredEffect
  <2>5. /\ StreamFits(i) /\ HolderFits /\ imp[i].done \in Nat /\ imp[i].done < Len(file[i])
        /\ Len(file[i]) \in Nat /\ imp[i].mode \in Modes /\ n \in DOMAIN file[i]
        /\ i \in Imports /\ i # None
    BY <1>1, ImportFields, RowAtHand, FilesAssumption DEF Inv, StreamFits, Active
  <2>6. VerdictFits(i)'
    BY <1>1, <2>4, VerdictKept
  <2>7. \A j \in Imports \ {i} : lock # j
    BY <1>1, FieldsKept
  <2>8. CASE imp[i].mode = "rollback_all"
    <3>1. lock' = i /\ work' = new /\ UNCHANGED <<db, req, late>>
      BY <2>1, <2>8
    <3>2. Unseen(i)'
      BY <1>1, <2>5, <2>8, <3>1 DEF StreamFits, Unseen, Active
    <3>3. StreamFits(i)'
      BY <1>1, <2>4, <2>5, <3>1, <3>2 DEF StreamFits, Active
    <3>4. StreamsFit' /\ VerdictsFit'
      BY <1>1, <2>4, <2>6, <2>7, <3>1, <3>3, OneStream DEF NoNewOf
    <3>5. /\ db.books \subseteq View(i).books
          /\ \A b \in View(i).books \ db.books : \E k \in DOMAIN file[i] : b.src = <<i, k>>
          /\ \A k \in 1..imp[i].done : \E b \in View(i).books : b.src = <<i, k>>
      <4>1. CASE lock = i
        BY <2>5, <4>1 DEF HolderFits, View
      <4>2. CASE lock # i
        <5>1. imp[i].done = 0
          BY <1>1, <2>5, <2>8, <4>2 DEF StreamFits, Active
        <5> QED
          BY <4>2, <5>1 DEF View
      <4> QED
        BY <4>1, <4>2
    <3>6. ASSUME NEW k \in 1..n PROVE \E b \in new.books : b.src = <<i, k>>
      <4>1. CASE k = n
        BY <2>3, <4>1
      <4>2. CASE k # n
        <5>1. k \in 1..imp[i].done
          BY <2>5, <4>2
        <5> QED
          BY <2>3, <3>5, <5>1
      <4> QED
        BY <4>1, <4>2
    <3>7. \A b \in new.books \ db.books : \E k \in DOMAIN file[i] : b.src = <<i, k>>
      BY <2>3, <2>5, <3>5
    <3>8. db.books \subseteq new.books
      BY <2>3, <3>5
    <3> HIDE DEF n
    <3>9. HolderFits'
      BY <1>1, <2>4, <2>5, <2>8, <3>1, <3>6, <3>7, <3>8 DEF HolderFits, Active
    <3>10. work' # Empty
      BY <2>3, <3>1, EmptyCatalog
    <3>11. Steady
      <4>1. RequestsStep
        BY <3>1, RequestsUnchanged
      <4> QED
        BY <1>1, <2>2, <2>5, <3>1, <3>10, <4>1 DEF Steady, CatalogStep, LockStep, LoopStep
    <3> QED
      BY <1>1, <2>4, <3>4, <3>9, <3>11, FieldsKept, ByParts DEF Streams
  <2>9. CASE imp[i].mode # "rollback_all"
    <3>1. /\ db' = new /\ req' = Overtaken(new) /\ Remember(new, None)
          /\ UNCHANGED <<lock, work>>
      BY <2>1, <2>9
    <3>2. lock = None /\ View(i) = db
      BY <1>1, <2>5, <2>9 DEF HolderFits, View
    <3>3. StreamFits(i)'
      BY <1>1, <2>4, <2>5, <2>9 DEF StreamFits, Active
    <3>4. \A j \in Imports \ {i} : NoNewOf(j)
      BY <2>3, <3>1, <3>2, OtherRow DEF NoNewOf
    <3>5. StreamsFit' /\ VerdictsFit'
      BY <1>1, <2>4, <2>6, <2>7, <3>3, <3>4, OneStream
    <3>6. HolderFits'
      BY <3>1, <3>2 DEF HolderFits
    <3>7. Steady
      <4>1. RequestsStep
        BY <3>1, OvertakenFits
      <4>2. Commits(new, None)
        BY <2>2, <3>1, <3>2 DEF Commits
      <4> QED
        BY <1>1, <3>1, <4>1, <4>2 DEF Steady, CatalogStep, LockStep, LoopStep
    <3> QED
      BY <1>1, <2>4, <3>5, <3>6, <3>7, FieldsKept, ByParts DEF Streams
  <2> QED
    BY <2>8, <2>9
<1> QED
  BY <1>2, <1>3

LEMMA CompleteKeeps ==
    ASSUME Inv, NEW i \in Imports, Complete(i)
    PROVE  Inv'
<1>1. /\ UNCHANGED <<loop, file, temp, stopped>> /\ loop = None
      /\ To(i, "complete") /\ Rollback(i)
  BY DEF Complete, OnLoop
<1>2. "complete" \in Ended
  BY DEF Ended
<1>3. imp' \in [Imports -> ImportRecord]
  BY <1>1, <1>2, Moved
<1>4. CASE lock # i
  <2>1. UNCHANGED <<db, req, late>>
    BY <1>4 DEF Complete
  <2> QED
    BY <1>1, <1>2, <1>3, <2>1, EndedStreams, RollbackSteady, FieldsKept, ByParts
<1>5. CASE lock = i
  <2>1. /\ db' = work /\ req' = Overtaken(work) /\ Remember(work, None)
        /\ lock' = None /\ work' = Empty
    BY <1>1, <1>5 DEF Complete, Rollback
  <2>2. Tables(work, Book) /\ IsbnsDiffer(work) /\ Sound(work) /\ HolderFits
    BY DEF Inv, TypeOK, IsbnOnce, WorkSound
  <2>3. Steady
    <3>1. RequestsStep
      BY <2>1, OvertakenFits
    <3>2. Commits(work, None)
      BY <2>1, <2>2 DEF Commits
    <3> QED
      BY <1>1, <2>1, <3>1, <3>2 DEF Steady, CatalogStep, LockStep, LoopStep
  <2>4. /\ \A j \in Imports \ {i} : imp'[j] = imp[j]
        /\ imp'[i].pc = "complete" /\ imp'[i].valid = imp[i].valid
        /\ imp'[i].known = imp[i].known
        /\ imp'[i].warned = imp[i].warned /\ imp'[i].failed = imp[i].failed
    BY <1>1, <1>2, Moved
  <2>5. StreamFits(i)' /\ VerdictFits(i)'
    <3>1. StreamFits(i)'
      BY <2>4 DEF StreamFits, Active
    <3> QED
      BY <1>1, <2>4, <3>1, VerdictKept
  <2>6. \A j \in Imports \ {i} : NoNewOf(j) /\ lock # j
    <3>1. \A b \in work.books \ db.books : \E k : b.src = <<i, k>>
      BY <1>5, <2>2, FieldsKept DEF HolderFits
    <3> QED
      BY <1>5, <2>1, <3>1, OtherRow DEF NoNewOf
  <2>7. StreamsFit' /\ VerdictsFit'
    BY <1>1, <2>4, <2>5, <2>6, OneStream
  <2>8. HolderFits'
    BY <2>1 DEF HolderFits
  <2> QED
    BY <1>1, <1>3, <2>3, <2>7, <2>8, FieldsKept, ByParts DEF Streams
<1> QED
  BY <1>4, <1>5

LEMMA RequestKeeps ==
    ASSUME Inv, NEW r \in Requests, Ask(r) \/ Write(r) \/ StopLoop(r) \/ GiveUp(r),
           UNCHANGED importVars
    PROVE  Inv'
<1>1. UNCHANGED <<work, file, temp, imp, stopped>>
  BY DEF importVars
<1>2. Steady
  BY <1>1, RequestSteady
<1>3. CASE ~Write(r)
  <2>1. UNCHANGED <<db, lock>>
    BY <1>3 DEF Ask, StopLoop, GiveUp
  <2> QED
    BY <1>1, <1>2, <2>1, SameStreams, FieldsKept, ByParts
<1>4. CASE Write(r)
  <2>1. Answers(r) /\ lock = None /\ lock' = None
    BY <1>4, WriteAnswers, InvStanding
  <2>2. \A j \in Imports : NoNewOf(j)
    <3>1. CASE Fail(r)
      BY <3>1 DEF Fail, NoNewOf
    <3>2. CASE \E d : Result(r, d) /\ CommitAnswer(r, d)
      <4>1. PICK d : Result(r, d) /\ CommitAnswer(r, d)
        BY <3>2
      <4>2. \A b \in db'.books \ db.books : b.src = <<r, 0>>
        BY <4>1 DEF Result, CommitAnswer
      <4>3. \A j \in Imports : j # r
        BY ActorsAssumption
      <4> QED
        BY <4>2, <4>3, OtherRow DEF NoNewOf
    <3> QED
      BY <2>1, <3>1, <3>2 DEF Answers
  <2>3. \A j \in Imports : StreamFits(j)' /\ VerdictFits(j)'
    BY <1>1, <2>1, <2>2, StreamKept
  <2>4. Streams'
    BY <2>1, <2>3 DEF Streams, StreamsFit, VerdictsFit, HolderFits
  <2> QED
    BY <1>1, <1>2, <2>4, FieldsKept, ByParts
<1> QED
  BY <1>3, <1>4

LEMMA StopKeeps ==
    ASSUME Inv, Stop
    PROVE  Inv'
<1>1. /\ UNCHANGED <<db, late, file, temp>> /\ stopped' = TRUE
      /\ lock' = None /\ loop' = None /\ work' = Empty
      /\ req' = [r \in Requests |-> IF req[r].pc \in Answered THEN req[r]
                                    ELSE [Idle EXCEPT !.pc = "locked"]]
  BY DEF Stop
<1>2. RequestsStep
  <2> DEFINE x == [Idle EXCEPT !.pc = "locked"]
  <2>1. x \in RequestRecord /\ Tables(x.seen, Book) /\ x.pc # "write"
    BY IdleFits DEF Answered
  <2>2. \A q \in Requests : req'[q] = IF req[q].pc \in Answered THEN req[q] ELSE x
    BY <1>1
  <2> HIDE DEF x
  <2>3. \A q \in Requests : RequestStep(q)
    BY <1>1, <2>1, <2>2 DEF RequestStep
  <2>4. DOMAIN req' = Requests /\ req' = [q \in Requests |-> req'[q]]
    BY <1>1
  <2> QED
    BY <2>3, <2>4 DEF RequestsStep
<1>3. Steady
  BY <1>1, <1>2 DEF Steady, CatalogStep, LockStep, LoopStep
<1>4. imp' \in [Imports -> ImportRecord]
  BY StopEffect
<1>5. \A j \in Imports : StreamFits(j)' /\ VerdictFits(j)'
  <2>1. SUFFICES ASSUME NEW j \in Imports PROVE StreamFits(j)' /\ VerdictFits(j)'
    OBVIOUS
  <2>2. StreamFits(j)'
    BY StopEffect DEF StreamFits, Active, Ended
  <2>3. VerdictFits(j)'
    BY <1>1, StopEffect, VerdictKept DEF Ended
  <2> QED
    BY <2>2, <2>3
<1>6. Streams'
  BY <1>1, <1>5 DEF Streams, StreamsFit, VerdictsFit, HolderFits
<1> QED
  BY <1>1, <1>3, <1>4, <1>6, FieldsKept, ByParts

\* The state of the start.
LEMMA InitFits ==
    ASSUME Init
    PROVE  Inv
<1>1. /\ db \in Libraries /\ lock = None /\ loop = None /\ late = {} /\ work = Empty
      /\ req = [r \in Requests |-> Idle] /\ temp = [i \in Imports |-> "none"]
      /\ imp = [i \in Imports |-> NewImport] /\ stopped = FALSE
      /\ \A i \in Imports : file[i] \in Files[i]
  BY DEF Init
<1>2. Tables(db, Book) /\ IsbnsDiffer(db) /\ Blemishes(db) = {}
      /\ \A b \in db.books : b.src = <<None, 0>>
  BY <1>1, LibrariesAssumption
<1>3. FilesFit
  BY <1>1, FilesAssumption DEF FilesFit
<1>4. NewImport \in ImportRecord
  BY DEF NewImport, ImportRecord
<1>5. TypeOK
  <2>1. imp \in [Imports -> ImportRecord]
    BY <1>1, <1>4
  <2>2. req \in [Requests -> RequestRecord] /\ \A r \in Requests : Tables(req[r].seen, Book)
    <3>1. Idle \in RequestRecord /\ Tables(Idle.seen, Book)
      BY IdleIs
    <3> HIDE DEF Idle
    <3> QED
      BY <1>1, <3>1
  <2> QED
    BY <1>1, <1>2, <2>1, <2>2, EmptyCatalog DEF TypeOK
<1>6. SeenFits /\ AsksFit
  <2>1. \A r \in Requests : req[r].pc # "write"
    BY <1>1 DEF Idle
  <2> QED
    BY <2>1 DEF SeenFits, AsksFit
<1>7. CatalogSound /\ WorkSound /\ IsbnOnce
  BY <1>1, <1>2, EmptyCatalog DEF CatalogSound, WorkSound, Sound, IsbnOnce
<1>8. ASSUME NEW i \in Imports PROVE StreamFits(i) /\ VerdictFits(i)
  <2>1. imp[i].pc = "idle" /\ imp[i].done = 0 /\ imp[i].mode = "none" /\ imp[i].valid = FALSE
        /\ imp[i].failed = {}
    BY <1>1 DEF NewImport
  <2>2. Unseen(i)
    BY <1>2, ActorsAssumption, OtherRow DEF Unseen
  <2> QED
    BY <2>1, <2>2 DEF StreamFits, VerdictFits, Active
<1> QED
  BY <1>1, <1>3, <1>5, <1>6, <1>7, <1>8 DEF Inv, StreamsFit, VerdictsFit, HolderFits

LEMMA StepKeeps ==
    ASSUME Inv, [Next]_vars
    PROVE  Inv'
<1>1. ASSUME NEW i \in Imports, Stream(i)
      PROVE  Inv'
  BY <1>1, TakeRowKeeps, EndDownloadKeeps, StoreKeeps, StopLoopForKeeps, GiveUpImportKeeps,
     CompleteKeeps DEF Stream
<1>2. ASSUME NEW i \in Imports, Parse(i) \/ Validate(i) \/ CleanTemp(i) \/ Execute(i)
      PROVE  Inv'
  BY <1>2, ParseKeeps, ValidateKeeps, ExecuteKeeps
<1>3. ASSUME NEW r \in Requests, (Ask(r) /\ UNCHANGED importVars) \/ Serve(r)
      PROVE  Inv'
  BY <1>3, RequestKeeps DEF Serve
<1>4. CASE UNCHANGED vars
  <2>1. UNCHANGED <<db, lock, loop, req, late, work, file, temp, imp, stopped>>
    BY <1>4 DEF vars, importVars
  <2> QED
    BY <2>1, StillSteady, SameStreams, FieldsKept, ByParts
<1> QED
  BY <1>1, <1>2, <1>3, <1>4, StopKeeps DEF Next

-----------------------------------------------------------------------------
(* The contract.                                                           *)

\* The import that stops the loop is at its row.
LoopFits == loop \in Imports => imp[loop].pc = "store"

LEMMA LoopFitsStep ==
    ASSUME Inv, LoopFits, [Next]_vars
    PROVE  LoopFits'
<1>1. None \notin Imports /\ \A r \in Requests : r \notin Imports
  BY ActorsAssumption
<1>2. CASE loop' = None
  BY <1>1, <1>2 DEF LoopFits
<1>3. CASE loop' = loop /\ imp' = imp
  BY <1>3 DEF LoopFits
<1>4. ASSUME NEW i \in Imports,
             Parse(i) \/ Validate(i) \/ CleanTemp(i) \/ Execute(i) \/ Stream(i)
      PROVE  LoopFits'
  <2>1. CASE Validate(i)
    <3>1. loop' = loop /\ imp[i].pc = "idle" /\ \A j \in Imports \ {i} : imp'[j] = imp[j]
      BY <2>1, CheckedEffect DEF Validate
    <3> QED
      BY <3>1 DEF LoopFits
  <2>2. CASE StopLoopFor(i)
    BY <2>2 DEF StopLoopFor, OnLoop, importVars, LoopFits
  <2>3. CASE ~Validate(i) /\ ~StopLoopFor(i)
    <3>1. loop' = None \/ (loop' = loop /\ imp' = imp)
      BY <1>4, <2>3 DEF Parse, CleanTemp, Execute, Stream, TakeRow, EndDownload, Store,
                        GiveUpImport, NextRow, Complete, Disconnect
    <3> QED
      BY <3>1, <1>2, <1>3
  <2> QED
    BY <2>1, <2>2, <2>3
<1>5. ASSUME NEW r \in Requests, (Ask(r) /\ UNCHANGED importVars) \/ Serve(r)
      PROVE  LoopFits'
  <2>1. imp' = imp /\ loop' \in {None, loop, r}
    BY <1>5 DEF Serve, importVars, Ask, Write, StopLoop, GiveUp
  <2> QED
    BY <1>1, <2>1 DEF LoopFits
<1> QED
  BY <1>2, <1>3, <1>4, <1>5 DEF Next, Stop, vars, importVars

LEMMA InvAlways == Spec => [](Inv /\ LoopFits)
<1>1. Init => Inv /\ LoopFits
  BY InitFits, ActorsAssumption DEF Init, LoopFits
<1>2. Inv /\ LoopFits /\ [Next]_vars => (Inv /\ LoopFits)'
  BY StepKeeps, LoopFitsStep
<1> QED
  BY <1>1, <1>2, PTL DEF Spec

\* Every variable keeps its type, ids and names stay unique in the tables, and
\* who waits on the loop waits for another: in every state of every instance.
THEOREM TypesCorrect == Spec => []TypeOK
<1>1. Inv => TypeOK
  BY DEF Inv
<1> QED
  BY <1>1, InvAlways, PTL

\* No label without a book and no link without its rows, save those that a
\* request left which wrote from what it had read before another's commit.
THEOREM CatalogSoundAlways == Spec => []CatalogSound
<1>1. Inv => CatalogSound
  BY DEF Inv
<1> QED
  BY <1>1, InvAlways, PTL

\* The library never holds an ISBN twice, whoever adds books.
THEOREM IsbnOnceAlways == Spec => []IsbnOnce
<1>1. Inv => IsbnOnce
  BY DEF Inv
<1> QED
  BY <1>1, InvAlways, PTL

\* Of a file that validate_import passed, execute_import refuses no row without
\* a warning or an ISBN that was not in the library then.
THEOREM RefusalsForetoldAlways == Spec => []RefusalsForetold
<1>1. ASSUME Inv PROVE RefusalsForetold
  <2>1. SUFFICES ASSUME NEW i \in Imports, imp[i].valid, NEW f \in imp[i].failed,
                        f.row \notin imp[i].warned
                 PROVE  f.why = "duplicate" /\ file[i][f.row].isbn \notin imp[i].known
    BY DEF RefusalsForetold
  <2>2. /\ \A k \in DOMAIN file[i] : ~RowInvalid(file[i][k])
        /\ \A k \in DOMAIN file[i] :
              RowWarned(file[i][k], imp[i].known) => k \in imp[i].warned
        /\ f.row \in DOMAIN file[i] /\ f.why \in {"refused", "duplicate"}
        /\ f.why = "refused" => RowRefused(file[i][f.row])
        /\ f.why = "duplicate" => NoBlankIsbn(file[i][f.row])
    BY <1>1, <2>1, ImportFields DEF VerdictFits
  <2>3. ~RowWarned(file[i][f.row], imp[i].known) /\ ~RowInvalid(file[i][f.row])
    BY <2>1, <2>2
  <2>4. ~RowRefused(file[i][f.row])
    BY <2>3 DEF RowRefused, RowWarned, RowInvalid
  <2> QED
    BY <2>2, <2>3, <2>4 DEF RowWarned
<1> QED
  BY <1>1, InvAlways, PTL

\* An import of the contract at a step: as it was, or not.
Same(j) == Phase(j)' = Phase(j) /\ imp'[j].mode = imp[j].mode /\ imp'[j].done = imp[j].done
SavedSame(j) == Saved(j)' = Saved(j)

LEMMA ContractStutters ==
    ASSUME file' = file, \A j \in Imports : Same(j) /\ SavedSame(j)
    PROVE  UNCHANGED Promise!contractVars
BY DEF Promise!contractVars, Same, SavedSame

LEMMA ContractBegins ==
    ASSUME file' = file, NEW i \in Imports, NEW m \in Modes,
           \A j \in Imports \ {i} : Same(j), \A j \in Imports : SavedSame(j),
           Phase(i) = "idle", Phase(i)' = "running", imp'[i].mode = m,
           imp'[i].done = imp[i].done
    PROVE  Promise!ContractNext
<1>1. Promise!Begin(i, m)
  BY DEF Promise!Begin, Same, SavedSame
<1> QED
  BY <1>1 DEF Promise!ContractNext, Modes

LEMMA ContractBreaks ==
    ASSUME file' = file, NEW some \in SUBSET Imports,
           \A j \in Imports \ some : Same(j), \A j \in Imports : SavedSame(j),
           \A j \in some : /\ Phase(j) \in {"idle", "running"} /\ Phase(j)' = "broken"
                           /\ imp'[j].mode = imp[j].mode /\ imp'[j].done = imp[j].done
    PROVE  Promise!ContractNext
<1>1. Promise!Break(some)
  BY DEF Promise!Break, Same, SavedSame
<1> QED
  BY <1>1 DEF Promise!ContractNext

LEMMA ContractTakes ==
    ASSUME file' = file, NEW i \in Imports, \A j \in Imports \ {i} : Same(j) /\ SavedSame(j),
           Phase(i) = "running", Phase(i)' = "running", imp[i].done < Len(file[i]),
           imp'[i].mode = imp[i].mode, imp'[i].done = imp[i].done + 1,
           SavedSame(i) \/ (/\ imp[i].mode = "continue_on_error"
                            /\ Saved(i)' = Saved(i) \cup {imp[i].done + 1})
    PROVE  Promise!ContractNext
<1>1. Promise!TakeRow(i)
  <2>1. CASE SavedSame(i)
    BY <2>1 DEF Promise!TakeRow, Same, SavedSame
  <2>2. CASE /\ imp[i].mode = "continue_on_error"
             /\ Saved(i)' = Saved(i) \cup {imp[i].done + 1}
    BY <2>2 DEF Promise!TakeRow, Same, SavedSame
  <2> QED
    BY <2>1, <2>2
<1> QED
  BY <1>1 DEF Promise!ContractNext

LEMMA ContractFinishes ==
    ASSUME file' = file, NEW i \in Imports, \A j \in Imports \ {i} : Same(j) /\ SavedSame(j),
           Phase(i) = "running", Phase(i)' = "done", imp[i].done = Len(file[i]),
           imp'[i].mode = imp[i].mode, imp'[i].done = imp[i].done,
           Saved(i)' = IF imp[i].mode = "rollback_all" THEN 1..Len(file[i]) ELSE Saved(i)
    PROVE  Promise!ContractNext
<1>1. Promise!Finish(i)
  BY DEF Promise!Finish, Same, SavedSame
<1> QED
  BY <1>1 DEF Promise!ContractNext

LEMMA ContractLoses ==
    ASSUME file' = file, NEW i \in Imports, \A j \in Imports : Same(j),
           \A j \in Imports \ {i} : SavedSame(j), Saved(i)' \subseteq Saved(i)
    PROVE  Promise!ContractNext
<1>1. Promise!Lose(i)
  BY DEF Promise!Lose, Same, SavedSame
<1> QED
  BY <1>1 DEF Promise!ContractNext

ContractStep == Promise!ContractNext \/ UNCHANGED Promise!contractVars

LEMMA SameByImport ==
    ASSUME NEW j \in Imports, imp'[j] = imp[j]
    PROVE  Same(j)
BY DEF Same, Phase

LEMMA SavedByBooks ==
    ASSUME file' = file, db'.books = db.books
    PROVE  \A j \in Imports : SavedSame(j)
BY DEF SavedSame, Saved

LEMMA SavedByOthers ==
    ASSUME file' = file, NEW j \in Imports, NoNewOf(j), db.books \subseteq db'.books
    PROVE  SavedSame(j)
BY DEF SavedSame, Saved, NoNewOf

\* The phases by points of the stream.
LEMMA Phases ==
    ASSUME Inv, NEW i \in Imports
    PROVE  /\ imp[i].pc \in {"idle", "checked"} => Phase(i) = "idle"
           /\ imp[i].pc \in Active => Phase(i) = "running"
           /\ imp[i].pc = "complete" => Phase(i) = "done"
           /\ imp[i].pc \in {"error", "gone"} => Phase(i) = "broken"
           /\ imp[i].pc \in {"idle", "checked"} \cup Active \cup Ended
BY ImportFields DEF Phase, Active, Ended

LEMMA NothingSeen ==
    ASSUME UNCHANGED <<db, file, imp>>
    PROVE  ContractStep
BY SameByImport, SavedByBooks, ContractStutters DEF ContractStep

LEMMA StreamMoves ==
    ASSUME Inv, NEW i \in Imports, NEW pc \in Active, To(i, pc), UNCHANGED <<db, file>>,
           imp[i].pc \in Active, Inv'
    PROVE  ContractStep
<1>1. /\ \A j \in Imports \ {i} : imp'[j] = imp[j]
      /\ imp'[i].pc = pc /\ imp'[i].mode = imp[i].mode /\ imp'[i].done = imp[i].done
  BY Moved DEF Active
<1>2. Phase(i) = "running"
  BY Phases
<1>3. Phase(i)' = "running"
  BY <1>1 DEF Phase, Active, Ended
<1>4. \A j \in Imports : Same(j)
  BY <1>1, <1>2, <1>3, SameByImport DEF Same
<1> QED
  BY <1>4, SavedByBooks, ContractStutters DEF ContractStep

LEMMA StreamBreaks ==
    ASSUME Inv, NEW i \in Imports, UNCHANGED <<db, file>>, \A j \in Imports \ {i} : imp'[j] = imp[j],
           Phase(i) \in {"idle", "running"}, imp'[i].pc \in {"error", "gone"},
           imp'[i].mode = imp[i].mode, imp'[i].done = imp[i].done
    PROVE  ContractStep
<1>1. Phase(i)' = "broken"
  BY DEF Phase
<1>2. {i} \in SUBSET Imports
  OBVIOUS
<1>3. \A j \in Imports \ {i} : Same(j)
  BY SameByImport
<1>4. \A j \in Imports : SavedSame(j)
  BY SavedByBooks
<1>5. \A j \in {i} : /\ Phase(j) \in {"idle", "running"} /\ Phase(j)' = "broken"
                     /\ imp'[j].mode = imp[j].mode /\ imp'[j].done = imp[j].done
  BY <1>1
<1> QED
  BY <1>2, <1>3, <1>4, <1>5, ContractBreaks DEF ContractStep

LEMMA RowFails ==
    ASSUME Inv, NEW i \in Imports, NEW why \in {"refused", "duplicate"}, FailRow(i, why),
           imp[i].pc \in {"row", "store"}, UNCHANGED <<db, file>>
    PROVE  ContractStep
<1>1. /\ \A j \in Imports \ {i} : imp'[j] = imp[j]
      /\ imp'[i].mode = imp[i].mode
      /\ \/ imp[i].mode = "rollback_all" /\ imp'[i].pc = "error" /\ imp'[i].done = imp[i].done
         \/ /\ imp[i].mode # "rollback_all" /\ imp'[i].pc = "sent"
            /\ imp'[i].done = imp[i].done + 1
  BY FailRowEffect
<1>2. Phase(i) = "running" /\ imp[i].done < Len(file[i])
  BY Phases, ImportFields DEF Active, StreamFits
<1>3. CASE imp'[i].pc = "error" /\ imp'[i].done = imp[i].done
  BY <1>1, <1>2, <1>3, StreamBreaks
<1>4. CASE imp'[i].pc = "sent" /\ imp'[i].done = imp[i].done + 1
  <2>1. Phase(i)' = "running"
    BY <1>4 DEF Phase, Ended
  <2>2. \A j \in Imports \ {i} : Same(j) /\ SavedSame(j)
    BY <1>1, SameByImport, SavedByBooks
  <2>3. SavedSame(i)
    BY SavedByBooks
  <2> QED
    BY <1>1, <1>2, <1>4, <2>1, <2>2, <2>3, ContractTakes DEF ContractStep
<1> QED
  BY <1>1, <1>3, <1>4

LEMMA ExecuteImplements ==
    ASSUME Inv, NEW i \in Imports, Execute(i)
    PROVE  ContractStep
<1>1. UNCHANGED <<db, file>>
  BY DEF Execute
<1>2. /\ \A j \in Imports \ {i} : imp'[j] = imp[j]
      /\ imp[i].pc \in {"idle", "checked"} /\ imp'[i].done = imp[i].done
      /\ \/ imp'[i].pc = "error" /\ imp'[i].mode = imp[i].mode
         \/ imp'[i].pc = "row" /\ imp'[i].mode \in Modes
  BY ExecuteEffect
<1>3. Phase(i) = "idle"
  BY <1>2, Phases
<1>4. CASE imp'[i].pc = "error" /\ imp'[i].mode = imp[i].mode
  BY <1>1, <1>2, <1>3, <1>4, StreamBreaks
<1>5. CASE imp'[i].pc = "row" /\ imp'[i].mode \in Modes
  <2>1. Phase(i)' = "running"
    BY <1>5 DEF Phase, Ended
  <2>2. (\A j \in Imports \ {i} : Same(j)) /\ \A j \in Imports : SavedSame(j)
    BY <1>1, <1>2, SameByImport, SavedByBooks
  <2>3. PICK m \in Modes : imp'[i].mode = m
    BY <1>5
  <2> QED
    BY <1>1, <1>2, <1>3, <2>1, <2>2, <2>3, ContractBegins DEF ContractStep
<1> QED
  BY <1>2, <1>4, <1>5

LEMMA ValidateImplements ==
    ASSUME Inv, NEW i \in Imports, Validate(i)
    PROVE  ContractStep
<1>1. UNCHANGED <<db, file>> /\ imp[i].pc = "idle"
  BY DEF Validate
<1>2. /\ \A j \in Imports \ {i} : imp'[j] = imp[j]
      /\ imp'[i].pc = "checked" /\ imp'[i].mode = imp[i].mode /\ imp'[i].done = imp[i].done
  BY CheckedEffect
<1>3. Same(i)
  BY <1>1, <1>2 DEF Same, Phase
<1> QED
  BY <1>1, <1>2, <1>3, SameByImport, SavedByBooks, ContractStutters DEF ContractStep

LEMMA TakeRowImplements ==
    ASSUME Inv, NEW i \in Imports, TakeRow(i), Inv'
    PROVE  ContractStep
<1>1. UNCHANGED <<db, file>> /\ imp[i].pc = "row"
  BY DEF TakeRow, OnLoop
<1>2. CASE RowRefused(Row(i))
  BY <1>1, <1>2, RowFails DEF TakeRow
<1>3. CASE ~RowRefused(Row(i))
  <2>1. imp[i].pc \in Active /\ \E pc \in Active : To(i, pc)
    BY <1>1, <1>3 DEF TakeRow, Active
  <2> QED
    BY <1>1, <2>1, StreamMoves
<1> QED
  BY <1>2, <1>3

LEMMA StoreImplements ==
    ASSUME Inv, NEW i \in Imports, Store(i)
    PROVE  ContractStep
<1>1. file' = file /\ imp[i].pc = "store" /\ lock \in {None, i}
  BY DEF Store, OnLoop
<1>2. CASE IsbnTaken(View(i), Row(i).isbn)
  BY <1>1, <1>2, RowFails DEF Store
<1>3. CASE ~IsbnTaken(View(i), Row(i).isbn)
  <2> DEFINE new == Stored(i)
             n == imp[i].done + 1
  <2>1. /\ imp' = [imp EXCEPT ![i].pc = "sent", ![i].done = @ + 1]
        /\ IF imp[i].mode = "rollback_all"
           THEN lock' = i /\ work' = new /\ UNCHANGED <<db, req, late>>
           ELSE /\ db' = new /\ req' = Overtaken(new) /\ Remember(new, None)
                /\ UNCHANGED <<lock, work>>
    BY <1>3 DEF Store
  <2>2. PICK x : x.src = <<i, n>> /\ new.books = View(i).books \cup {x}
    BY <1>1, <1>3, StoredFits
  <2> HIDE DEF new
  <2>3. /\ \A j \in Imports \ {i} : imp'[j] = imp[j]
        /\ imp'[i].pc = "sent" /\ imp'[i].mode = imp[i].mode /\ imp'[i].done = n
    BY <2>1, StoredEffect
  <2>4. /\ Phase(i) = "running" /\ imp[i].done < Len(file[i]) /\ n \in DOMAIN file[i]
        /\ imp[i].mode \in Modes /\ HolderFits /\ i # None
    BY <1>1, Phases, ImportFields, RowAtHand DEF Active, StreamFits, Inv
  <2>5. Phase(i)' = "running"
    BY <2>3 DEF Phase, Ended
  <2>6. \A j \in Imports \ {i} : Same(j)
    BY <2>3, SameByImport
  <2>7. CASE imp[i].mode = "rollback_all"
    <3>1. db' = db
      BY <2>1, <2>7
    <3>2. \A j \in Imports : SavedSame(j)
      BY <1>1, <3>1, SavedByBooks
    <3> QED
      BY <1>1, <2>3, <2>4, <2>5, <2>6, <3>2, ContractTakes DEF ContractStep
  <2>8. CASE imp[i].mode # "rollback_all"
    <3>1. lock = None /\ View(i) = db
      BY <1>1, <2>4, <2>8 DEF HolderFits, View
    <3>2. db' = new /\ db'.books = db.books \cup {x}
      BY <2>1, <2>2, <2>8, <3>1
    <3>3. \A j \in Imports \ {i} : NoNewOf(j)
      BY <2>2, <3>2, OtherRow DEF NoNewOf
    <3>4. \A j \in Imports \ {i} : SavedSame(j)
      BY <1>1, <3>2, <3>3, SavedByOthers
    <3>5. Saved(i)' = Saved(i) \cup {n}
      <4>1. \A k \in DOMAIN file[i] : <<i, n>> = <<i, k>> <=> k = n
        OBVIOUS
      <4> HIDE DEF n
      <4> QED
        BY <1>1, <2>2, <2>4, <3>2, <4>1 DEF Saved
    <3>6. imp[i].mode = "continue_on_error"
      BY <2>4, <2>8 DEF Modes
    <3> QED
      BY <1>1, <2>3, <2>4, <2>5, <2>6, <3>4, <3>5, <3>6, ContractTakes DEF ContractStep
  <2> QED
    BY <2>7, <2>8
<1> QED
  BY <1>2, <1>3

LEMMA CompleteImplements ==
    ASSUME Inv, NEW i \in Imports, Complete(i)
    PROVE  ContractStep
<1>1. /\ file' = file /\ To(i, "complete") /\ imp[i].pc = "sent"
      /\ imp[i].done = Len(file[i])
  BY DEF Complete, OnLoop
<1>2. /\ \A j \in Imports \ {i} : imp'[j] = imp[j]
      /\ imp'[i].pc = "complete" /\ imp'[i].mode = imp[i].mode /\ imp'[i].done = imp[i].done
  BY <1>1, Moved DEF Ended
<1>3. Phase(i) = "running" /\ Phase(i)' = "done"
  BY <1>1, <1>2, Phases DEF Active, Phase
<1>4. /\ StreamFits(i) /\ HolderFits /\ Len(file[i]) \in Nat /\ DOMAIN file[i] = 1..Len(file[i])
      /\ i # None
  BY ImportFields, FilesAssumption DEF Inv
<1>5. \A j \in Imports \ {i} : Same(j)
  BY <1>2, SameByImport
<1>6. CASE lock = i
  <2>1. db' = work /\ imp[i].mode = "rollback_all"
    BY <1>4, <1>6 DEF Complete, HolderFits
  <2>2. /\ db.books \subseteq work.books
        /\ \A b \in work.books \ db.books : \E k \in DOMAIN file[i] : b.src = <<i, k>>
        /\ \A k \in 1..imp[i].done : \E b \in work.books : b.src = <<i, k>>
    BY <1>4, <1>6 DEF HolderFits
  <2>3. \A j \in Imports \ {i} : NoNewOf(j)
    BY <2>1, <2>2, OtherRow DEF NoNewOf
  <2>4. \A j \in Imports \ {i} : SavedSame(j)
    BY <1>1, <2>1, <2>2, <2>3, SavedByOthers
  <2>5. Saved(i)' = 1..Len(file[i])
    BY <1>1, <1>4, <2>1, <2>2 DEF Saved
  <2> QED
    BY <1>1, <1>2, <1>3, <1>5, <2>1, <2>4, <2>5, ContractFinishes DEF ContractStep
<1>7. CASE lock # i
  <2>1. db' = db /\ imp[i].mode # "rollback_all"
    BY <1>1, <1>4, <1>7 DEF Complete, StreamFits, Active
  <2>2. \A j \in Imports : SavedSame(j)
    BY <1>1, <2>1, SavedByBooks
  <2>3. Saved(i)' = Saved(i)
    BY <2>2 DEF SavedSame
  <2> QED
    BY <1>1, <1>2, <1>3, <1>5, <2>1, <2>2, <2>3, ContractFinishes DEF ContractStep
<1> QED
  BY <1>6, <1>7

LEMMA GiveUpImplements ==
    ASSUME Inv, LoopFits, NEW i \in Imports, GiveUpImport(i) \/ Disconnect(i)
    PROVE  ContractStep
<1>1. UNCHANGED <<db, file>> /\ imp[i].pc \in Active /\ \E pc \in {"error", "gone"} : To(i, pc)
  BY DEF GiveUpImport, Disconnect, LoopFits, Active
<1>2. PICK pc \in {"error", "gone"} : To(i, pc)
  BY <1>1
<1>3. /\ \A j \in Imports \ {i} : imp'[j] = imp[j]
      /\ imp'[i].pc = pc /\ imp'[i].mode = imp[i].mode /\ imp'[i].done = imp[i].done
  BY <1>2, Moved DEF Ended
<1> QED
  BY <1>1, <1>3, Phases, StreamBreaks

LEMMA StopImplements ==
    ASSUME Inv, Stop
    PROVE  ContractStep
<1> DEFINE some == {j \in Imports : imp[j].pc \notin Ended}
<1>1. UNCHANGED <<db, file>>
  BY DEF Stop
<1>2. \A j \in Imports :
         /\ imp[j].pc \in Ended => imp'[j].pc = imp[j].pc
         /\ imp[j].pc \notin Ended => imp'[j].pc = "gone"
         /\ imp'[j].mode = imp[j].mode /\ imp'[j].done = imp[j].done
  BY StopEffect
<1>3. \A j \in Imports \ some : Same(j)
  BY <1>2 DEF Same, Phase
<1>4. \A j \in some : Phase(j) \in {"idle", "running"} /\ Phase(j)' = "broken"
  BY <1>2, Phases DEF Phase
<1>5. \A j \in Imports : SavedSame(j)
  BY <1>1, SavedByBooks
<1>6. some \in SUBSET Imports
  OBVIOUS
<1>7. \A j \in some : /\ Phase(j) \in {"idle", "running"} /\ Phase(j)' = "broken"
                      /\ imp'[j].mode = imp[j].mode /\ imp'[j].done = imp[j].done
  BY <1>2, <1>4
<1> HIDE DEF some
<1> QED
  BY <1>1, <1>3, <1>5, <1>6, <1>7, ContractBreaks DEF ContractStep

\* A request takes at most one book away, and what it adds no import has.
LEMMA RequestImplements ==
    ASSUME Inv, NEW r \in Requests, Ask(r) \/ Write(r) \/ StopLoop(r) \/ GiveUp(r),
           UNCHANGED importVars
    PROVE  ContractStep
<1>1. UNCHANGED <<file, imp>>
  BY DEF importVars
<1>2. CASE db' = db
  BY <1>1, <1>2, NothingSeen
<1>3. CASE db' # db
  <2>1. Write(r)
    BY <1>3 DEF Ask, StopLoop, GiveUp
  <2>2. PICK d : Result(r, d) /\ CommitAnswer(r, d)
    BY <1>3, <2>1, WriteAnswers, InvStanding DEF Answers, Fail
  <2>3. db' = d
    BY <2>2 DEF CommitAnswer
  <2>4. \A j \in Imports : Same(j)
    BY <1>1, SameByImport
  <2>5. CASE \E x : d.books = db.books \cup {x} /\ x.src = <<r, 0>>
    <3>1. \A j \in Imports : j # r
      BY ActorsAssumption
    <3>2. \A j \in Imports : NoNewOf(j)
      BY <2>3, <2>5, <3>1, OtherRow DEF NoNewOf
    <3>3. \A j \in Imports : SavedSame(j)
      BY <1>1, <2>3, <2>5, <3>2, SavedByOthers
    <3> QED
      BY <1>1, <2>4, <3>3, ContractStutters DEF ContractStep
  <2>6. CASE d.books \subseteq db.books
    <3>1. \A x, y \in db.books \ d.books : x = y
      BY <2>2 DEF Result
    <3>2. \A j \in Imports : Saved(j)' \subseteq Saved(j)
      BY <1>1, <2>3, <2>6 DEF Saved
    <3>3. CASE \A j \in Imports : SavedSame(j)
      BY <1>1, <2>4, <3>3, ContractStutters DEF ContractStep
    <3>4. ASSUME NEW i \in Imports, ~SavedSame(i) PROVE ContractStep
      <4>1. PICK k \in DOMAIN file[i] : k \in Saved(i) /\ k \notin Saved(i)'
        BY <3>2, <3>4 DEF SavedSame, Saved
      <4>2. PICK x \in db.books : x.src = <<i, k>> /\ x \notin d.books
        BY <1>1, <2>3, <4>1 DEF Saved
      <4>3. db.books = d.books \cup {x}
        BY <2>6, <3>1, <4>2
      <4>4. ASSUME NEW j \in Imports \ {i} PROVE SavedSame(j)
        <5>1. \A m : x.src # <<j, m>>
          BY <4>2, OtherRow
        <5> QED
          BY <1>1, <2>3, <4>3, <5>1 DEF SavedSame, Saved
      <4> QED
        BY <1>1, <2>4, <3>2, <4>4, ContractLoses DEF ContractStep
    <3> QED
      BY <3>3, <3>4
  <2> QED
    BY <2>2, <2>5, <2>6 DEF Result
<1> QED
  BY <1>2, <1>3

LEMMA StepImplements ==
    ASSUME Inv, LoopFits, [Next]_vars
    PROVE  ContractStep
<1>1. Inv'
  BY StepKeeps
<1>2. CASE UNCHANGED vars
  BY <1>2, NothingSeen DEF vars, importVars
<1>3. ASSUME NEW i \in Imports, Stream(i)
      PROVE  ContractStep
  <2>1. CASE EndDownload(i) \/ NextRow(i)
    <3>1. UNCHANGED <<db, file>> /\ imp[i].pc \in Active /\ \E pc \in Active : To(i, pc)
      BY <2>1 DEF EndDownload, NextRow, OnLoop, Active
    <3> QED
      BY <1>1, <3>1, StreamMoves
  <2>2. CASE StopLoopFor(i)
    BY <2>2, NothingSeen DEF StopLoopFor, importVars
  <2> QED
    BY <1>1, <1>3, <2>1, <2>2, TakeRowImplements, StoreImplements, CompleteImplements,
       GiveUpImplements DEF Stream
<1>4. ASSUME NEW i \in Imports, Parse(i) \/ Validate(i) \/ CleanTemp(i) \/ Execute(i)
      PROVE  ContractStep
  <2>1. CASE Parse(i) \/ CleanTemp(i)
    BY <2>1, NothingSeen DEF Parse, CleanTemp
  <2> QED
    BY <1>4, <2>1, ValidateImplements, ExecuteImplements
<1>5. ASSUME NEW r \in Requests, (Ask(r) /\ UNCHANGED importVars) \/ Serve(r)
      PROVE  ContractStep
  BY <1>5, RequestImplements DEF Serve
<1> QED
  BY <1>2, <1>3, <1>4, <1>5, StopImplements DEF Next

LEMMA InitImplements ==
    ASSUME Init
    PROVE  Promise!Init
<1>1. Inv
  BY InitFits
<1>2. imp = [i \in Imports |-> NewImport]
  BY DEF Init
<1>3. \A i \in Imports : imp[i].pc = "idle" /\ imp[i].mode = "none" /\ imp[i].done = 0
  BY <1>2 DEF NewImport
<1>4. \A i \in Imports : Phase(i) = "idle"
  BY <1>3 DEF Phase
<1>5. \A i \in Imports : Len(file[i]) \in 1..MaxRows
  BY <1>1, ImportFields
<1>6. \A i \in Imports : Saved(i) = {}
  <2>1. \A i \in Imports : Unseen(i)
    BY <1>1, <1>3, ImportFields DEF StreamFits
  <2> QED
    BY <2>1 DEF Saved, Unseen
<1> QED
  BY <1>3, <1>4, <1>5, <1>6 DEF Promise!Init

\* The import implements its contract: what others see of its rows changes only
\* as the two modes promise, in every interleaving with other imports, requests,
\* the cleaner, disconnects and a stop of the process.
THEOREM ImportKeepsPromise == Spec => KeepsPromise
<1>1. Init => Promise!Init
  BY InitImplements
<1>2. Inv /\ LoopFits /\ [Next]_vars => [Promise!ContractNext]_(Promise!contractVars)
  BY StepImplements DEF ContractStep
<1> QED
  BY <1>1, <1>2, InvAlways, PTL DEF Spec, KeepsPromise, Promise!Contract
=============================================================================
