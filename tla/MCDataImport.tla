----------------------------- MODULE MCDataImport -----------------------------
(***************************************************************************)
(* DataImport for TLC: a library with one labelled book or none, files of  *)
(* two rows, one of them with a flaw.                                      *)
(***************************************************************************)
EXTENDS DataImport

CONSTANT First          \* one of the imports

MCKindOf == [n \in Names |-> IF n = "herbert" THEN "author" ELSE "tag"]

MCLabelings == {{"fantasy"}, {"herbert"}}

MCLibraries == {Empty, AddLabelled(Empty, "dune", <<None, 0>>, {"fantasy", "herbert"})}

Plain == [transforms |-> TRUE, title |-> TRUE, columns |-> TRUE, dates |-> TRUE,
          isbn |-> NoIsbn, status |-> "want_to_read", added |-> NoDate,
          started |-> NoDate, finished |-> NoDate, cover |-> FALSE, labels |-> {}]
Dune == [Plain EXCEPT !.isbn = "dune", !.labels = {"fantasy"}]
Covered == [Plain EXCEPT !.cover = TRUE, !.labels = {"herbert"}]
Untitled == [Plain EXCEPT !.title = FALSE]
Late == [Plain EXCEPT !.added = 2, !.finished = 1, !.status = "read"]
Unfinished == [Plain EXCEPT !.status = "read"]
Smudged == [Plain EXCEPT !.isbn = "smudge", !.labels = {"fantasy"}]

\* The first import meets every flaw, the second is there to hold the lock.
MCFiles == [i \in Imports |->
    IF i = First THEN {<<Covered, Dune>>, <<Dune, Dune>>, <<Unfinished, Late>>,
                       <<Smudged, Untitled>>}
    ELSE {<<Dune, Covered>>}]
=============================================================================
