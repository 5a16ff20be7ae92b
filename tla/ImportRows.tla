------------------------------ MODULE ImportRows ------------------------------
(***************************************************************************)
(* What validate_import and execute_import each make of one row of an      *)
(* uploaded file after the mapping and the transforms.  A row is a record: *)
(*   transforms  no transform of the mapping fails on it                   *)
(*   title       its title is not blank                                    *)
(*   columns     rating, year, pages, status, acquisition, medium and      *)
(*               language all parse                                        *)
(*   dates       its dates are ISO dates                                   *)
(*   isbn        the text of the ISBN column; WellFormed says which ones   *)
(*               normalize_isbn accepts                                    *)
(*   status, added, started, finished   the parsed values, NoDate if blank *)
(*   cover       its cover is an http(s) URL                               *)
(*   labels      its tags and authors                                      *)
(***************************************************************************)
EXTENDS Naturals

CONSTANTS
    Texts,          \* what may stand in the ISBN column
    WellFormed      \* the ISBN texts normalize_isbn accepts

NoDate == 0

NoBlankIsbn(row) == row.isbn # "none"

After(a, b) == a # NoDate /\ b # NoDate /\ a > b
StartsLate(row) == After(row.started, row.finished)
AddedLate(row) == After(row.added, row.finished)
ReadUnfinished(row) == row.status = "read" /\ row.finished = NoDate

\* What neither of them accepts.
Unreadable(row) ==
    \/ ~row.transforms
    \/ ~row.title
    \/ ~row.columns
    \/ ~row.dates
    \/ StartsLate(row)

\* An error of validate_import: the file is then not valid.
RowInvalid(row) ==
    \/ Unreadable(row)
    \/ NoBlankIsbn(row) /\ row.isbn \notin WellFormed

\* A ValueError of execute_import, before the database sees the row.
RowRefused(row) ==
    \/ Unreadable(row)
    \/ AddedLate(row)
    \/ ReadUnfinished(row)

\* Mutant: no warning of read books without an end.
RowWarnedOfOrder(row, known) ==
    \/ AddedLate(row)
    \/ NoBlankIsbn(row) /\ row.isbn \in known

\* validate_import mentions these in its warnings, and the ISBNs that are
\* already in the library under the same text.
RowWarned(row, known) ==
    \/ AddedLate(row)
    \/ ReadUnfinished(row)
    \/ NoBlankIsbn(row) /\ row.isbn \in known
=============================================================================
