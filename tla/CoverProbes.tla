----------------------------- MODULE CoverProbes -----------------------------
(***************************************************************************)
(* The search for covers of one ISBN (routers/cover_candidates.py): each   *)
(* lookup probes the providers at the same time, and all lookups of the    *)
(* process share two semaphores.  AbeBooks, Open Library and Amazon are    *)
(* probed under one URL per form of the ISBN, Hardcover is first asked for *)
(* a URL, and a page of Thalia is read in a thread.  What a URL answers to *)
(* HEAD is external.                                                       *)
(***************************************************************************)
EXTENDS IsbnNumbers, FiniteSets

CONSTANTS
    Lookups,        \* the requests
    Settings,       \* the providers that are asked, and the ISBN
    ProbeLimit,     \* the permits of _PROBE_SEMAPHORE
    ThaliaLimit     \* and of _THALIA_SEMAPHORE

Providers == {"plain", "hardcover", "thalia"}

ASSUME LimitsAssumption == ProbeLimit \in Nat \ {0} /\ ThaliaLimit \in Nat \ {0}
ASSUME LookupsAssumption ==
    /\ IsFiniteSet(Lookups)
    /\ \A s \in Settings : s.asked \subseteq Providers /\ s.isbn \in Isbn13

\* Available is an image that is large enough, or of no known size.  Another status,
\* another type, a placeholder or an error is not, and none of them ends the lookup.
HeadAnswers == {"good", "bad"}

VARIABLES
    setting,        \* one of Settings: [asked, isbn]
    task,           \* Lookups -> Providers -> the coroutine of the lookup
    probes, pages   \* the permits taken

coverVars == <<setting, task, probes, pages>>

Task(p) == [pc |-> p, seen |-> <<>>, answer |-> 0]

IdleCovers ==
    /\ setting \in Settings
    /\ task = [l \in Lookups |-> [p \in Providers |-> Task("new")]]
    /\ probes = 0 /\ pages = 0

Go(l, p, next) == task' = [task EXCEPT ![l][p].pc = next]

\* search_cover_candidates starts the coroutines of a lookup.
BeginLookup(l) ==
    /\ \A p \in Providers : task[l][p].pc = "new"
    /\ task' = [task EXCEPT ![l] = [p \in Providers |->
                    IF p \notin setting.asked THEN Task("done")
                    ELSE Task(CASE p = "plain" -> "want_probe"
                                [] p = "hardcover" -> "want_query"
                                [] p = "thalia" -> "want_page")]]
    /\ UNCHANGED <<setting, probes, pages>>

\* Thalia's page is read with a permit of its own, given back before the probe.
BeginPage(l) ==
    /\ task[l]["thalia"].pc = "want_page" /\ pages < ThaliaLimit
    /\ pages' = pages + 1
    /\ Go(l, "thalia", "page")
    /\ UNCHANGED <<setting, probes>>

\* Mutant: a page without a cover keeps the permit.
EndPageKeeping(l) ==
    /\ task[l]["thalia"].pc = "page"
    /\ \/ Go(l, "thalia", "want_probe") /\ pages' = pages - 1
       \/ Go(l, "thalia", "done") /\ UNCHANGED pages
    /\ UNCHANGED <<setting, probes>>

EndPage(l) ==
    /\ task[l]["thalia"].pc = "page"
    /\ pages' = pages - 1
    /\ \E next \in {"want_probe", "done"} : Go(l, "thalia", next)
    /\ UNCHANGED <<setting, probes>>

\* Hardcover is asked under the semaphore of the probes, and given the permit back.
\* A URL that cannot be parsed (a port that is none) raises out of the lookup, whose
\* answer is an error then; gather leaves its other coroutines to themselves.
BeginQuery(l) ==
    /\ task[l]["hardcover"].pc = "want_query" /\ probes < ProbeLimit
    /\ probes' = probes + 1
    /\ Go(l, "hardcover", "query")
    /\ UNCHANGED <<setting, pages>>
EndQuery(l) ==
    /\ task[l]["hardcover"].pc = "query"
    /\ probes' = probes - 1
    /\ \E next \in {"want_probe", "done", "raised"} : Go(l, "hardcover", next)
    /\ UNCHANGED <<setting, pages>>

BeginProbe(l, p) ==
    /\ task[l][p].pc = "want_probe" /\ probes < ProbeLimit
    /\ probes' = probes + 1
    /\ Go(l, p, "probe")
    /\ UNCHANGED <<setting, pages>>

\* The URLs of a provider: one per form of the ISBN, or the one that was found.
Forms(p) == IF p = "plain" /\ HasIsbn10(setting.isbn) THEN 2 ELSE 1

\* Mutant: the last candidate is answered, available or not.
TakenLast(seen) == Len(seen)

\* The first that is available, else the first that was tried.
Taken(seen) == IF seen[Len(seen)] = "good" THEN Len(seen) ELSE 1

\* _probe_source_candidates goes on to the next URL until one is available.
EndProbe(l, p) ==
    /\ task[l][p].pc = "probe"
    /\ probes' = probes - 1
    /\ \E a \in HeadAnswers :
          LET seen == Append(task[l][p].seen, a) IN
          task' = [task EXCEPT ![l][p] =
                      IF a = "good" \/ Len(seen) = Forms(p)
                      THEN [pc |-> "done", seen |-> seen, answer |-> Taken(seen)]
                      ELSE [pc |-> "want_probe", seen |-> seen, answer |-> 0]]
    /\ UNCHANGED <<setting, pages>>

LookupStep(l) ==
    \/ BeginLookup(l)
    \/ BeginPage(l) \/ EndPage(l)
    \/ BeginQuery(l) \/ EndQuery(l)
    \/ \E p \in Providers : BeginProbe(l, p) \/ EndProbe(l, p)
CoversNext == \E l \in Lookups : LookupStep(l)

CoversSpec == IdleCovers /\ [][CoversNext]_coverVars

-----------------------------------------------------------------------------
(* Properties. *)

\* The coroutines that are in one of these places.
In(places) == {t \in Lookups \X Providers : task[t[1]][t[2]].pc \in places}

\* The permits that are taken are those of the coroutines that make a request, and
\* never more than there are: each is given back, however the request ends.
CoverTypes ==
    /\ probes \in 0..ProbeLimit /\ probes = Cardinality(In({"probe", "query"}))
    /\ pages \in 0..ThaliaLimit /\ pages = Cardinality(In({"page"}))

\* A lookup answers a cover as available when one of the URLs it may try is, and
\* then the first one; if none is, it has tried them all.
CoverIsFirst ==
    \A l \in Lookups, p \in Providers :
        LET t == task[l][p]
            good == {k \in DOMAIN t.seen : t.seen[k] = "good"}
        IN  t.pc = "done" /\ t.seen # <<>> =>
                IF good = {} THEN t.answer = 1 /\ Len(t.seen) = Forms(p)
                ELSE t.answer \in good /\ \A k \in good : t.answer <= k

\* The ISBN of a lookup may have a wrong check digit, which normalize_isbn lets in.
\* What either conversion makes of it is an ISBN all the same, and the two forms of
\* one whose check digit is right name the same book.
FormsAgree ==
    HasIsbn10(setting.isbn) =>
        /\ IsIsbn10(ToIsbn10(setting.isbn))
        /\ IsIsbn13(ToIsbn13(ToIsbn10(setting.isbn)))
        /\ IsIsbn13(setting.isbn) => ToIsbn13(ToIsbn10(setting.isbn)) = setting.isbn
=============================================================================
