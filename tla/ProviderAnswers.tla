--------------------------- MODULE ProviderAnswers ---------------------------
(***************************************************************************)
(* What services/book_import.py makes of the answers of the providers: for *)
(* each of them the records of an answer, in the fields that decide which  *)
(* candidates come of it, and the candidates.  Titles, publishers, years   *)
(* and the cleaning of names are left out.                                 *)
(*                                                                         *)
(* A raw ISBN, its hyphens and blanks aside, is one of RawIsbns: Shape     *)
(* tells whether it has 13 or 10 digits, and Normal what normalize_isbn    *)
(* makes of it, NoIsbn when it raises ValueError.                          *)
(***************************************************************************)
EXTENDS Naturals, Sequences, FiniteSets, SequencesExt

CONSTANTS
    RawIsbns, Isbns, NoIsbn,
    Shape,          \* RawIsbns -> {13, 10, 0}
    Normal,         \* RawIsbns -> Isbns \cup {NoIsbn}
    MaxHits         \* how many ISBNs a title search of Hardcover goes on with

ASSUME IsbnAssumption ==
    /\ Isbns \subseteq RawIsbns /\ NoIsbn \notin RawIsbns
    /\ Shape \in [RawIsbns -> {13, 10, 0}]
    /\ Normal \in [RawIsbns -> Isbns \cup {NoIsbn}]
    /\ \A r \in RawIsbns : Shape[r] # 0 <=> Normal[r] # NoIsbn
    /\ \A i \in Isbns : Shape[i] = 13 /\ Normal[i] = i

Candidate(source, isbn) == [source |-> source, isbn |-> isbn, ref |-> NoIsbn]
FirstOr(s, default) == IF s = <<>> THEN default ELSE Head(s)
Shaped(raws, n) == SelectSeq(raws, LAMBDA r : Shape[r] = n)
Each(records, Op(_)) == [k \in DOMAIN records |-> Op(records[k])]

\* The members of s at the positions I, in their order.
Nth(I, n) == CHOOSE i \in I : Cardinality({j \in I : j <= i}) = n
Kept(s, I) == [n \in 1..Cardinality(I) |-> s[Nth(I, n)]]
Titled(records) == Kept(records, {k \in DOMAIN records : records[k].titled})

\* The first of raws that normalize_isbn takes, normalized.
FirstIsbn(raws) ==
    LET good == {k \in DOMAIN raws : Normal[raws[k]] # NoIsbn}
    IN  IF good = {} THEN NoIsbn ELSE Normal[raws[Min(good)]]

\* What an answer of a source holds.
BnfRecord == [titled : BOOLEAN, id : STRING, isbns : Seq(RawIsbns), ark : STRING,
              shell : BOOLEAN, rich : Nat]
Entity == [edition : BOOLEAN, titled : BOOLEAN, isbns : Seq(RawIsbns),
           uri : RawIsbns \cup {NoIsbn}]
LocRecord == [titled : BOOLEAN, typed : Seq(RawIsbns), untyped : Seq(RawIsbns)]
DnbField == [qualified : BOOLEAN, isbns : Seq(RawIsbns)]
DnbEntry == [name : STRING, tag : STRING, roles : SUBSET STRING]
DnbRecord == [titled : BOOLEAN, fields : Seq(DnbField), entries : Seq(DnbEntry)]
GoogleItem == [titled : BOOLEAN, thirteen : Seq(RawIsbns), ten : Seq(RawIsbns),
               images : Seq(STRING), good : SUBSET STRING, thumbnail : STRING]
AnswersOf(s) ==
    CASE s = "open_library" -> Seq([titled : BOOLEAN, isbns : Seq(RawIsbns)])
      [] s = "bnf" -> Seq(BnfRecord)
      [] s = "inventaire" -> [redirect : Seq(Entity), entities : Seq(Entity)]
      [] s = "library_of_congress" -> Seq(LocRecord)
      [] s = "dnb" -> Seq(DnbRecord)
      [] s = "hardcover" ->
            Seq([titled : BOOLEAN, isbn : RawIsbns \cup {NoIsbn}, pages : Nat])
      [] s = "google_books" -> Seq(GoogleItem)

-----------------------------------------------------------------------------

\* _pick_isbn: an ISBN-13, else an ISBN-10, else whatever comes first, as it is.
PickIsbn(raws) ==
    FirstOr(Shaped(raws, 13), FirstOr(Shaped(raws, 10), FirstOr(raws, NoIsbn)))
MapOpenLibrary(doc) == Candidate("open_library", PickIsbn(doc.isbns))
OpenLibrary(docs) == Each(Titled(docs), MapOpenLibrary)

\* Google says itself which identifiers are ISBN-13 and which ISBN-10.
MapGoogle(item) ==
    Candidate("google_books", FirstOr(item.thirteen, FirstOr(item.ten, NoIsbn)))
\* The largest image that a HEAD request finds good, else the thumbnail unseen.
BestCover(item) ==
    FirstOr(SelectSeq(item.images, LAMBDA u : u \in item.good), item.thumbnail)
GoogleBooks(items) ==
    Each(Titled(items), LAMBDA i : [MapGoogle(i) EXCEPT !.ref = BestCover(i)])

-----------------------------------------------------------------------------

\* The ISBNs of a title search, each once, in the order of the hits.
HardcoverIsbns(hits) ==
    LET raws == FlattenSeq(hits)
        new(k) == /\ Normal[raws[k]] # NoIsbn
                  /\ \A j \in 1..(k - 1) : Normal[raws[j]] # Normal[raws[k]]
        unique == Kept(raws, {k \in DOMAIN raws : new(k)})
    IN  SubSeq(Each(unique, LAMBDA r : Normal[r]), 1,
               IF Len(unique) < MaxHits THEN Len(unique) ELSE MaxHits)

MapHardcover(edition) == [Candidate("hardcover", edition.isbn) EXCEPT !.ref = edition.pages]

\* _hardcover_dedup_key: editions of one ISBN that differ in their pages both stay,
\* and so do those without an ISBN.
Hardcover(editions) ==
    LET told == Titled(editions)
        new(k) == \/ told[k].isbn = NoIsbn
                  \/ \A j \in 1..(k - 1) : MapHardcover(told[j]) # MapHardcover(told[k])
    IN  Each(Kept(told, {k \in DOMAIN told : new(k)}), MapHardcover)

-----------------------------------------------------------------------------

\* The first identifier that is an ISBN.
BnfIsbn(record) == FirstIsbn(record.isbns)
MapBnfRecord(record) == [Candidate("bnf", BnfIsbn(record)) EXCEPT !.ref = record.id]

\* Records with the same ISBN are one book.  A record without one stands for
\* itself; one whose ARK was met is passed over before its ISBN is looked at.
SameBnf(r, s) == BnfIsbn(r) # NoIsbn /\ BnfIsbn(r) = BnfIsbn(s)
Richer(r, s) == r.rich > s.rich

\* Mutant: only the richness counts, as it does among real records.
BeatsByRichness(r, incumbent) == Richer(r, incumbent)

\* A barcode stub never replaces a record, a real record replaces a stub, and a
\* richer one a poorer one.
Beats(r, incumbent) == ~r.shell /\ (incumbent.shell \/ Richer(r, incumbent))

\* One record of the answer, after the records kept so far.
TakeBnf(kept, r) ==
    IF \E k \in DOMAIN kept : SameBnf(kept[k], r)
    THEN Each(kept, LAMBDA s : IF SameBnf(s, r) /\ Beats(r, s) THEN r ELSE s)
    ELSE Append(kept, r)
NewArks(records) ==
    LET new(k) == \/ records[k].ark = NoIsbn
                  \/ \A j \in 1..(k - 1) : records[j].ark # records[k].ark
    IN  Kept(records, {k \in DOMAIN records : new(k)})
BnfAfter(told) ==
    LET after[n \in 0..Len(told)] ==
            IF n = 0 THEN <<>> ELSE TakeBnf(after[n - 1], told[n])
    IN  after
BnfKept(records) ==
    LET told == NewArks(Titled(records)) IN BnfAfter(told)[Len(told)]
Bnf(records) == Each(BnfKept(records), MapBnfRecord)

-----------------------------------------------------------------------------

\* The edition is the entity the ISBN leads to, or any entity that is an edition;
\* its ISBN the first that is one among its claims, else the one of its URI.
InventaireIsbn(edition) ==
    LET claimed == FirstIsbn(edition.isbns)
    IN  IF claimed # NoIsbn \/ edition.uri = NoIsbn THEN claimed ELSE Normal[edition.uri]
EditionOf(answer) ==
    IF answer.redirect # <<>> THEN answer.redirect
    ELSE Kept(answer.entities, {k \in DOMAIN answer.entities : answer.entities[k].edition})
MapInventaire(edition) == Candidate("inventaire", InventaireIsbn(edition))
Inventaire(answer) ==
    LET editions == EditionOf(answer)
    IN  IF editions = <<>> \/ ~Head(editions).titled THEN <<>>
        ELSE <<MapInventaire(Head(editions))>>

\* Of the identifiers that are ISBNs, one that says so, else the first.
LocIsbn(record) == FirstIsbn(record.typed \o record.untyped)
MapLocRecord(record) == Candidate("library_of_congress", LocIsbn(record))
LibraryOfCongress(records) == Each(Titled(records), MapLocRecord)

\* The first ISBN of some of the fields.
FieldsIsbn(fields, among) ==
    LET good == {k \in among : FirstIsbn(fields[k].isbns) # NoIsbn}
    IN  IF good = {} THEN NoIsbn ELSE FirstIsbn(fields[Min(good)].isbns)

\* Mutant: a field with a qualifier, which says that the number is wrong, counts.
DnbIsbnOfAny(record) == FieldsIsbn(record.fields, DOMAIN record.fields)

\* A field with a qualifier is dropped whole.
DnbIsbn(record) ==
    FieldsIsbn(record.fields, {k \in DOMAIN record.fields : ~record.fields[k].qualified})

\* A main entry is an author unless it has other roles only, an added entry only
\* if it has the role of one.
AuthorRoles == {"aut", "cre"}
IsAuthor(entry) ==
    IF entry.tag = "700" THEN entry.roles \cap AuthorRoles # {}
    ELSE entry.roles = {} \/ entry.roles \cap AuthorRoles # {}

\* A person, else a body, else a meeting is the main entry; then the added ones.
DnbAuthors(record) ==
    LET under(tag) == SelectSeq(record.entries, LAMBDA e : e.tag = tag /\ IsAuthor(e))
        named == SelectSeq(<<"100", "110", "111">>, LAMBDA tag : under(tag) # <<>>)
    IN  ToSet(IF named = <<>> THEN <<>> ELSE under(Head(named))) \cup ToSet(under("700"))
MapDnbRecord(record) ==
    [Candidate("dnb", DnbIsbn(record)) EXCEPT !.ref = DnbAuthors(record)]
Dnb(records) == Each(Titled(records), MapDnbRecord)
=============================================================================
