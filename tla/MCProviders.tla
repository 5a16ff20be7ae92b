----------------------------- MODULE MCProviders -----------------------------
(***************************************************************************)
(* ProviderSearch and CoverProbes for TLC.  The two have nothing in common *)
(* but the ISBN; a behaviour is one search or some lookups of covers.      *)
(***************************************************************************)
EXTENDS ProviderSearch, CoverProbes

vars == <<searchVars, coverVars>>

MCRegistry == <<"open_library", "bnf", "inventaire", "library_of_congress", "dnb", "hardcover">>

\* Two books: one written in both forms, one in one, and a number that is none.
MCShape == [r \in RawIsbns |->
              IF r \in Isbns THEN 13 ELSE IF r = "dune-10" THEN 10 ELSE 0]
MCNormal == [r \in RawIsbns |->
               IF r \in Isbns THEN r ELSE IF r = "dune-10" THEN "dune" ELSE NoIsbn]

Doc(titled, isbns) == [titled |-> titled, isbns |-> isbns]
Record(id, isbns, ark, shell, rich) ==
    [titled |-> TRUE, id |-> id, isbns |-> isbns, ark |-> ark, shell |-> shell, rich |-> rich]
Field(qualified, isbns) == [qualified |-> qualified, isbns |-> isbns]
Entry(name, tag, roles) == [name |-> name, tag |-> tag, roles |-> roles]
Item(thirteen, ten, images, good) ==
    [titled |-> TRUE, thirteen |-> thirteen, ten |-> ten, images |-> images, good |-> good,
     thumbnail |-> "thumb"]
Thing(edition, isbns) ==
    [edition |-> edition, titled |-> TRUE, isbns |-> isbns, uri |-> "dune-10"]
Edition(isbn, n) == [titled |-> TRUE, isbn |-> isbn, pages |-> n]

MCReplies ==
    [s \in Parallel \cup {Google} |->
       CASE s = "open_library" -> {<<>>, <<Doc(FALSE, <<"emma">>), Doc(TRUE, <<"smudge", "dune-10">>)>>}
         [] s = "bnf" ->
              {<<>>,
               <<Record("stub", <<"dune-10">>, "a", TRUE, 7), Record("poor", <<"dune">>, "b", FALSE, 1),
                 Record("rich", <<"smudge", "dune">>, "c", FALSE, 4), Record("again", <<"dune">>, "c", FALSE, 6)>>,
               <<Record("real", <<"dune">>, "a", FALSE, 2), Record("stub", <<"dune">>, NoIsbn, TRUE, 3),
                 Record("loose", <<"smudge">>, NoIsbn, FALSE, 0), Record("other", <<>>, NoIsbn, TRUE, 0)>>}
         [] s = "inventaire" ->
              {[redirect |-> <<>>, entities |-> <<Thing(FALSE, <<"emma">>)>>],
               [redirect |-> <<Thing(TRUE, <<"smudge">>)>>, entities |-> <<>>]}
         [] s = "library_of_congress" ->
              {<<>>, <<[titled |-> TRUE, typed |-> <<"smudge">>, untyped |-> <<"dune-10", "emma">>]>>}
         [] s = "dnb" ->
              {<<>>,
               <<[titled |-> TRUE, fields |-> <<Field(TRUE, <<"emma">>), Field(FALSE, <<"smudge", "dune">>)>>,
                  entries |-> <<Entry("Society", "110", {}), Entry("Austen", "100", {}),
                                Entry("Editor", "700", {"edt"}), Entry("Herbert", "700", {"aut", "ill"}),
                                Entry("Uncoded", "700", {})>>]>>}
         [] s = "hardcover" ->
              {<<>>, <<Edition("dune", 1), Edition("dune", 1), Edition(NoIsbn, 1), Edition("dune", 2)>>}
         [] s = Google ->
              {<<>>, <<Item(<<>>, <<"dune-10">>, <<"big", "small">>, {"small"}),
                       Item(<<"emma">>, <<>>, <<"big">>, {})>>}]
MCHits == {<<>>, <<<<"smudge">>, <<"dune-10", "dune">>, <<"emma">>>>}

Query(kind, sound, enabled, token) ==
    [mode |-> "auto", stream |-> TRUE, kind |-> kind, sound |-> sound, enabled |-> enabled,
     token |-> token, google |-> TRUE, key |-> TRUE]
All == Query("isbn", TRUE, {"bnf", "dnb", "hardcover"}, TRUE)
Others == Query("isbn", TRUE, {"open_library", "inventaire", "library_of_congress"}, FALSE)
MCQueries ==
    {All, Others, [All EXCEPT !.stream = FALSE], [All EXCEPT !.kind = "title"],
     [Others EXCEPT !.sound = FALSE], [Others EXCEPT !.kind = "title"],
     [All EXCEPT !.mode = "google_only"], [All EXCEPT !.mode = "google_only", !.key = FALSE],
     Query("title", FALSE, {"bnf", "inventaire", "hardcover"}, FALSE),
     Query("isbn", FALSE, {"open_library", "dnb", "hardcover"}, TRUE),
     [Query("title", TRUE, {"dnb", "inventaire"}, TRUE) EXCEPT !.stream = FALSE, !.google = FALSE],
     Query("isbn", TRUE, {}, TRUE)}

\* Lookups of two ISBNs, one with a single form; the arithmetic for some more.
Numbers == {<<9, 7, 8, 0, 4, 4, 1, 1, 7, a, b, 1, x>> : a, b, x \in 0..9}
Emma == <<9, 7, 9, 1, 0, 2, 0, 9, 2, 3, 5, 5, 4>>
MCSettings ==
    {[asked |-> Providers, isbn |-> <<9, 7, 8, 0, 4, 4, 1, 1, 7, 2, 7, 1, 9>>],
     [asked |-> {"plain", "thalia"}, isbn |-> Emma]}
    \cup {[asked |-> {}, isbn |-> n] : n \in Numbers}

OneSetting == CHOOSE s \in Settings : s.asked = {}
Init ==
    /\ IdleSearch /\ IdleCovers
    /\ \/ setting = OneSetting
       \/ query = All /\ setting # OneSetting
Searching == setting = OneSetting

Next ==
    \/ Searching /\ SearchNext /\ UNCHANGED coverVars
    \/ ~Searching /\ CoversNext /\ UNCHANGED searchVars

\* The requests have timeouts, so whoever waits for one goes on; asyncio wakes those
\* who wait for a permit in turn.  The reader of a stream need not go.
Fair ==
    /\ WF_vars(Searching /\ (\E s \in Parallel : SourceStep(s)) /\ UNCHANGED coverVars)
    /\ WF_vars(Searching /\ (GoogleStep \/ Proceed \/ CloseClient) /\ UNCHANGED coverVars)
    /\ WF_vars(~Searching /\ CoversNext /\ UNCHANGED searchVars)
Spec == Init /\ [][Next]_vars /\ Fair

-----------------------------------------------------------------------------

\* The types of both parts.
TypeOK == SearchTypes /\ CoverTypes

\* Whatever the sources do and whoever holds the permits, a search ends and gives
\* its client back, whoever it left behind ends as well, and every coroutine of a
\* lookup has come to its answer or, for a URL that is none, its error.
AllEnds ==
    <>[](/\ Searching => client = "closed" /\ Underway = {} /\ gb.probes = {}
         /\ ~Searching => \A l \in Lookups, p \in Providers : task[l][p].pc \in {"done", "raised"})
=============================================================================
