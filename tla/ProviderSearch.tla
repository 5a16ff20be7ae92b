---------------------------- MODULE ProviderSearch ----------------------------
(***************************************************************************)
(* A search of the external book sources (services/book_import.py and the  *)
(* two endpoints in routers/import_.py): the sources are asked at the same *)
(* time by coroutines that share an HTTP client, their answers merged in   *)
(* the order of the registry, and Google Books is asked when they have     *)
(* found nothing.  Every step is one turn of a coroutine between two       *)
(* awaits.  What the providers answer is external.                         *)
(***************************************************************************)
EXTENDS ProviderAnswers

CONSTANTS
    Registry,       \* the parallel sources, in result order
    Queries,        \* the searches and the settings they meet
    Replies,        \* source -> the answers it may give, as ProviderAnswers reads them
    Hits,           \* the answers Hardcover may give to a title search
    MaxRetries      \* _MAX_RETRIES

Parallel == ToSet(Registry)
Google == "google_books"

Sources == {"open_library", "bnf", "inventaire", "library_of_congress", "dnb", "hardcover"}

ASSUME RegistryAssumption ==
    /\ Registry \in Seq(Sources) /\ Parallel = Sources
    /\ \A j, k \in DOMAIN Registry : Registry[j] = Registry[k] => j = k
    /\ MaxRetries \in Nat
ASSUME AnswersAssumption ==
    /\ \A s \in Parallel \cup {Google} : Replies[s] \subseteq AnswersOf(s)
    /\ \A q \in Queries : /\ q.enabled \subseteq Parallel
                          /\ q.stream \in BOOLEAN /\ q.mode \in {"auto", "google_only"}

VARIABLES
    query,          \* one of Queries
    pc,             \* where search or search_with_progress stands
    src,            \* Parallel -> where the coroutine of a source stands, and what it found
    gb,             \* the Google Books request: pc, attempts, items, probes under way
    events,         \* what search_with_progress has yielded
    results,
    client,         \* "open" | "closed"
    reply           \* history: source -> the answer it gave last

searchVars == <<query, pc, src, gb, events, results, client, reply>>

\* The BnF, the Library of Congress, the DNB and Inventaire refuse an ISBN that is
\* none, and the three that take titles a title of quotes; no request is sent.
Particular == {"bnf", "inventaire", "library_of_congress", "dnb"}

Source(p) == [pc |-> p, found |-> <<>>]
NoGoogle == [pc |-> "idle", attempts |-> 0, items |-> <<>>, probes |-> {}]
Event(stage, status, count) == [stage |-> stage, status |-> status, count |-> count]
Over == {"complete", "error", "gone"}
Underway == {s \in Parallel : src[s].pc \in {"asking", "second"}}
Leaving == {"cancelled", "gone"}
GoogleUnderway == gb.pc = "asking" \/ gb.probes # {}

IdleSearch ==
    /\ query \in Queries
    /\ pc = "new"
    /\ src = [s \in Parallel |-> Source("off")]
    /\ gb = NoGoogle
    /\ events = <<>> /\ results = <<>>
    /\ client = "open"
    /\ reply = [s \in Parallel \cup {Google} |-> <<>>]

-----------------------------------------------------------------------------
(* The parallel sources.                                                   *)

\* _skip_reason, asked by search_with_progress alone; search runs the source, which
\* then returns nothing of its own accord.
Skipped(s) ==
    \/ s = "hardcover" /\ ~query.token
    \/ s = "inventaire" /\ query.kind # "isbn"
Silent(s) == Skipped(s) \/ (~query.sound /\ s \in Particular)
             \/ (~query.sound /\ query.kind = "isbn" /\ s = "hardcover")

Begin ==
    /\ pc = "new"
    /\ IF query.mode = "google_only" THEN
            /\ pc' = "google"
            /\ UNCHANGED src
       ELSE /\ pc' = IF query.enabled = {} THEN "fallback" ELSE "gather"
            /\ src' = [s \in Parallel |->
                  IF s \notin query.enabled THEN Source("off")
                  ELSE IF query.stream /\ Skipped(s) THEN Source("skipped")
                  ELSE IF Silent(s) THEN Source("done")
                  ELSE Source("asking")]
    /\ UNCHANGED <<query, gb, events, results, client, reply>>

\* What a source makes of an answer.
Parse(s, answer) ==
    CASE s = "open_library" -> OpenLibrary(answer)
      [] s = "bnf" -> Bnf(answer)
      [] s = "inventaire" -> Inventaire(answer)
      [] s = "library_of_congress" -> LibraryOfCongress(answer)
      [] s = "dnb" -> Dnb(answer)
      [] s = "hardcover" -> Hardcover(answer)

Answered(s, answer) ==
    /\ reply' = [reply EXCEPT ![s] = answer]
    /\ src' = [src EXCEPT ![s] = [pc |-> "done", found |-> Parse(s, answer)]]

\* Hardcover first turns a title into ISBNs and asks for those.
FindTitle ==
    /\ pc = "gather" /\ src["hardcover"].pc = "asking" /\ query.kind = "title"
    /\ \E hits \in Hits :
          src' = [src EXCEPT !["hardcover"] =
                    Source(IF HardcoverIsbns(hits) = <<>> THEN "done" ELSE "second")]
    /\ UNCHANGED <<query, pc, gb, events, results, client, reply>>

Answer(s) ==
    /\ pc = "gather"
    /\ \/ src[s].pc = "asking" /\ ~(s = "hardcover" /\ query.kind = "title")
       \/ src[s].pc = "second"
    /\ \E answer \in Replies[s] : Answered(s, answer)
    /\ UNCHANGED <<query, pc, gb, events, results, client>>

\* Mutant: the error of a source ends the search.
FailSourceThrough(s) ==
    /\ pc = "gather" /\ s \in Underway
    /\ src' = [src EXCEPT ![s] = Source("failed")]
    /\ pc' = "raised"
    /\ UNCHANGED <<query, gb, events, results, client, reply>>

\* A status that is none of success, a timeout, a broken connection or an answer of
\* another shape: the error of this source.  Hardcover swallows it.
FailSource(s) ==
    /\ pc = "gather" /\ s \in Underway
    /\ src' = [src EXCEPT ![s] = Source(IF s = "hardcover" THEN "done" ELSE "failed")]
    /\ UNCHANGED <<query, pc, gb, events, results, client, reply>>

-----------------------------------------------------------------------------

\* The events of a source are kept until all have come back.
EventsOf(s) ==
    CASE src[s].pc = "off" -> <<>>
      [] src[s].pc = "skipped" -> <<Event(s, "skipped", 0)>>
      [] src[s].pc = "failed" -> <<Event(s, "searching", 0), Event(s, "error", 0)>>
      [] OTHER -> <<Event(s, "searching", 0), Event(s, "done", Len(src[s].found))>>

\* Mutant: a book that an earlier source has found is not shown again.
MergedByIsbn(sources) ==
    FoldLeft(LAMBDA s, c : IF \E d \in ToSet(s) : d.isbn = c.isbn THEN s ELSE Append(s, c),
             <<>>, FlattenSeq(Each(sources, LAMBDA s : src[s].found)))

\* _merge_results keeps every candidate in the order of the registry.
Merged(sources) == FlattenSeq(Each(sources, LAMBDA s : src[s].found))

Gathered ==
    /\ pc = "gather" /\ Underway = {}
    /\ results' = Merged(Registry)
    /\ events' = IF query.stream THEN FlattenSeq(Each(Registry, EventsOf)) ELSE <<>>
    /\ pc' = "fallback"
    /\ UNCHANGED <<query, src, gb, client, reply>>

\* Google Books is the fallback when nothing was found.
Fallback ==
    /\ pc = "fallback"
    /\ pc' = IF results = <<>> THEN "google" ELSE "ending"
    /\ UNCHANGED <<query, src, gb, events, results, client, reply>>

-----------------------------------------------------------------------------
(* Google Books.                                                           *)

Tell(status, count) ==
    events' = IF query.stream THEN Append(events, Event(Google, status, count)) ELSE <<>>

GoogleAt(p) == pc = "google" /\ gb.pc = p

SkipGoogle ==
    /\ GoogleAt("idle") /\ ~(query.google /\ query.key)
    /\ Tell("skipped", 0)
    /\ pc' = "ending"
    /\ UNCHANGED <<query, src, gb, results, client, reply>>

AskGoogle ==
    /\ GoogleAt("idle") /\ query.google /\ query.key
    /\ Tell("searching", 0)
    /\ gb' = [NoGoogle EXCEPT !.pc = "asking", !.attempts = 1]
    /\ UNCHANGED <<query, pc, src, results, client, reply>>

\* Mutant: the limit is compared after it was passed.
GoogleBusyOnceMore ==
    /\ GoogleAt("asking") /\ gb.attempts <= MaxRetries + 1
    /\ gb' = [gb EXCEPT !.pc = "waiting"]
    /\ UNCHANGED <<query, pc, src, events, results, client, reply>>

\* A transient status is tried again after a while, up to MaxRetries times.
GoogleBusy ==
    /\ GoogleAt("asking") /\ gb.attempts <= MaxRetries
    /\ gb' = [gb EXCEPT !.pc = "waiting"]
    /\ UNCHANGED <<query, pc, src, events, results, client, reply>>
GoogleRetry ==
    /\ GoogleAt("waiting")
    /\ gb' = [gb EXCEPT !.pc = "asking", !.attempts = @ + 1]
    /\ UNCHANGED <<query, pc, src, events, results, client, reply>>

\* Another status, a broken connection, or a transient status once too often.
GoogleFails ==
    /\ GoogleAt("asking")
    /\ Tell("error", 0)
    /\ gb' = [gb EXCEPT !.pc = "failed"]
    /\ pc' = "ending"
    /\ UNCHANGED <<query, src, results, client, reply>>

\* The items are there; the covers of those with a title are resolved together.
GoogleAnswer ==
    /\ GoogleAt("asking")
    /\ \E items \in Replies[Google] :
          /\ reply' = [reply EXCEPT ![Google] = items]
          /\ gb' = [gb EXCEPT !.pc = "covers", !.items = items,
                              !.probes = {k \in DOMAIN items : items[k].titled}]
    /\ UNCHANGED <<query, pc, src, events, results, client>>

\* One cover is resolved, whatever HTTP errors were met on the way.
ProbeEnds(k) ==
    /\ pc \notin Leaving /\ k \in gb.probes
    /\ gb' = [gb EXCEPT !.probes = @ \ {k}]
    /\ UNCHANGED <<query, pc, src, events, results, client, reply>>

GoogleDone ==
    /\ GoogleAt("covers") /\ gb.probes = {}
    /\ results' = GoogleBooks(gb.items)
    /\ Tell("done", Len(GoogleBooks(gb.items)))
    /\ gb' = [gb EXCEPT !.pc = "done"]
    /\ pc' = "ending"
    /\ UNCHANGED <<query, src, client, reply>>

\* An answer that is no JSON, to the search or to the request for one volume, is no
\* HTTP error: it goes through to the outermost handler, and gather leaves the other
\* covers to themselves.
GoogleGarbled ==
    /\ GoogleAt("asking")
    /\ gb' = [gb EXCEPT !.pc = "raised"]
    /\ pc' = "raised"
    /\ UNCHANGED <<query, src, events, results, client, reply>>
ProbeGarbled(k) ==
    /\ GoogleAt("covers") /\ k \in gb.probes
    /\ gb' = [gb EXCEPT !.pc = "raised", !.probes = @ \ {k}]
    /\ pc' = "raised"
    /\ UNCHANGED <<query, src, events, results, client, reply>>

-----------------------------------------------------------------------------
(* The end of the request.                                                 *)

\* search raises, search_with_progress yields an error instead of a result.
Complete ==
    /\ pc \in {"ending", "raised"}
    /\ pc' = IF pc = "ending" THEN "complete" ELSE "error"
    /\ UNCHANGED <<query, src, gb, events, results, client, reply>>

\* The reader of the stream goes: all coroutines under way are cancelled at once, and
\* each stops at its next turn.  gather ends at the first that has, and the others
\* stop on their own, before the endpoint has closed their client or after.
Disconnect ==
    /\ query.stream /\ pc \in {"gather", "fallback", "google", "ending"}
    /\ pc' = "cancelled"
    /\ UNCHANGED <<query, src, gb, events, results, client, reply>>
StopSource(s) ==
    /\ pc \in Leaving /\ s \in Underway
    /\ src' = [src EXCEPT ![s] = Source("stopped")]
    /\ UNCHANGED <<query, pc, gb, events, results, client, reply>>
StopProbe(k) ==
    /\ pc \in Leaving /\ k \in gb.probes
    /\ gb' = [gb EXCEPT !.pc = "stopped", !.probes = @ \ {k}]
    /\ UNCHANGED <<query, pc, src, events, results, client, reply>>
StopGoogle ==
    /\ pc = "cancelled"
    /\ gb.pc \in {"asking", "waiting"} \/ (gb.pc = "covers" /\ gb.probes = {})
    /\ gb' = [gb EXCEPT !.pc = "stopped"]
    /\ UNCHANGED <<query, pc, src, events, results, client, reply>>

Stopped ==
    /\ pc = "cancelled" /\ gb.pc \notin {"asking", "waiting", "covers"}
    /\ Underway = {} \/ \E s \in Parallel : src[s].pc = "stopped"
    /\ pc' = "gone"
    /\ UNCHANGED <<query, src, gb, events, results, client, reply>>

\* The endpoint leaves "async with".
CloseClient ==
    /\ pc \in Over /\ client = "open"
    /\ client' = "closed"
    /\ UNCHANGED <<query, pc, src, gb, events, results, reply>>

-----------------------------------------------------------------------------

GoogleStep ==
    \/ SkipGoogle
    \/ AskGoogle
    \/ GoogleBusy
    \/ GoogleRetry
    \/ GoogleFails
    \/ GoogleAnswer
    \/ GoogleGarbled
    \/ GoogleDone
    \/ \E k \in gb.probes : ProbeEnds(k) \/ ProbeGarbled(k) \/ StopProbe(k)
SourceStep(s) == Answer(s) \/ FailSource(s) \/ StopSource(s)
Proceed == Begin \/ FindTitle \/ Gathered \/ Fallback \/ Complete \/ StopGoogle \/ Stopped

SearchNext ==
    \/ \E s \in Parallel : SourceStep(s)
    \/ GoogleStep
    \/ Proceed
    \/ CloseClient
    \/ Disconnect

SearchSpec == IdleSearch /\ [][SearchNext]_searchVars

-----------------------------------------------------------------------------
(* Properties. *)

\* Every variable keeps its type, a Google request is made no more often than the
\* limit says, and the client is closed after the search.
SearchTypes ==
    /\ \A s \in Parallel :
          /\ src[s].pc \in {"off", "skipped", "asking", "second", "done", "failed", "stopped"}
          /\ src[s].found # <<>> => src[s].pc = "done"
    /\ gb.attempts \in 0..(MaxRetries + 1)
    /\ gb.probes \subseteq DOMAIN gb.items
    /\ client \in {"open", "closed"} /\ (client = "closed" => pc \in Over)

\* A search that its reader has not left closes the client last, when no coroutine
\* waits for it, however the sources fail, except the covers that gather left behind
\* when one volume was garbled.  A search that is cancelled is exempt: it closes the
\* client as soon as one coroutine has stopped.
ClientClosedLast ==
    client = "closed" /\ pc # "gone" =>
        Underway = {} /\ (gb.pc = "raised" \/ ~GoogleUnderway)

\* The events of a source: that it is asked, and its verdict; and its candidates.
Askings(s) == {k \in DOMAIN events : events[k].stage = s /\ events[k].status = "searching"}
Verdicts(s) == {k \in DOMAIN events : events[k].stage = s /\ events[k].status # "searching"}
Own(s) == {k \in DOMAIN results : results[k].source = s}

\* What a stream that is complete has told is true: each source that is enabled has
\* one verdict, none was asked that could not run, the candidates are those of
\* whoever said how many, none is lost whatever the order of the answers, and Google
\* Books was not asked, in the automatic mode, after anyone had found something.
ToldTruly ==
    pc = "complete" /\ query.stream =>
        /\ query.mode = "auto" => \A s \in query.enabled : \E k \in DOMAIN events :
              /\ Verdicts(s) = {k}
              /\ IF events[k].status = "skipped" THEN Askings(s) = {}
                 ELSE \E j \in 1..(k - 1) : Askings(s) = {j}
        /\ \A s \in Parallel \cup {Google} :
              /\ \A k \in Verdicts(s) : events[k].count = Cardinality(Own(s))
              /\ Own(s) # {} => Verdicts(s) # {}
        /\ DOMAIN results = UNION {Own(s) : s \in Parallel \cup {Google}}
        /\ query.mode = "auto" /\ Verdicts(Google) # {} =>
              \A s \in Parallel : src[s].found = <<>>

\* What the four library catalogues return can be looked up again: an ISBN-13 or
\* none; and the DNB's stands in a field that its record does not call wrong.
IsbnsLookUp ==
    \A s \in Particular : \A k \in DOMAIN src[s].found :
        LET c == src[s].found[k] IN
        /\ c.isbn \in Isbns \cup {NoIsbn}
        /\ s = "dnb" /\ c.isbn # NoIsbn =>
              \E r \in ToSet(reply[s]) : \E f \in ToSet(r.fields) :
                  ~f.qualified /\ \E raw \in ToSet(f.isbns) : Normal[raw] = c.isbn

\* Of the BnF's records for one ISBN one is kept: a real one if there is one, and
\* none of the real ones under another ARK is richer.
BestOfBnf ==
    LET told == ToSet(NewArks(Titled(reply["bnf"])))
        kept == BnfKept(reply["bnf"])
        real(r) == {s \in told : SameBnf(r, s) /\ ~s.shell}
    IN  /\ ToSet(kept) \subseteq told
        /\ \A j, k \in DOMAIN kept : SameBnf(kept[j], kept[k]) => j = k
        /\ \A r \in told : BnfIsbn(r) # NoIsbn => \E k \in DOMAIN kept : SameBnf(kept[k], r)
        /\ \A k \in DOMAIN kept : real(kept[k]) # {} =>
              kept[k] \in real(kept[k]) /\ ~\E s \in real(kept[k]) : Richer(s, kept[k])
=============================================================================
