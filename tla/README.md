# LibrisLog in TLA+

LibrisLog is a self-hosted library manager: a FastAPI backend over one SQLite database
(`src/backend/app`) and a Svelte frontend. This directory specifies the parts of the
backend whose correctness depends on the order in which things happen, checks them with
TLC on small instances and proves the central invariants with TLAPS for every instance.

`PROJECT.json` maps every definition to the lines it models and lists components,
runs, mutants (a plausible bug for each property, which the property must catch),
findings, hazards and theorems. Paths below are relative to `src/backend/app`.

## How the program executes

- One process, one asyncio event loop. `async def` handlers are coroutines: they
  lose the loop only at an `await`, in practice at HTTP downloads. Plain `def`
  handlers run in a thread pool, next to the loop and to each other.
- Each request has its own SQLAlchemy session. A row is loaded once and kept until
  the commit; an UPDATE names only the columns whose value differs from the one
  loaded.
- SQLite in WAL mode: one writer at a time, readers see the last commit. Foreign
  keys are not enforced, and a rowid is one above the largest in the table, so the
  id of a deleted newest row is used again.
- Cover and avatar files live beside the database and take no part in its
  transactions. Names are digests, so equal pictures share a file.
- A maintenance task runs hourly in a thread. Nothing else is scheduled but the
  telemetry heartbeat.

## Inventory

| Component | State | Operations | Hard behaviour | What must hold |
|---|---|---|---|---|
| Reading sessions: `services/reading_sessions.py`, `routers/sessions.py` | rows of `reading_session`, the dates and status mirrored in `book` | add past read, edit, delete with promotion, read again, reconcile after a book write | long sequences of edits; the latest session is not the current one; rowid reuse; the unique index | at most one current session, and it is open; a book being read shows it; finished reads stay closed |
| Books: `routers/books.py` | rows of `book` | create (two commits), PATCH (waits for a cover), status transition with date conflicts, delete | the row read before the wait is used after it; a stop between the commits | status and dates agree with the sessions; nothing outlives the book |
| Reading progress: `routers/progress.py` | rows of `reading_progress` | log, remove | no foreign key; default owner | every entry names a session that exists |
| Cover files: `services/cover_storage.py`, `services/cover_import.py`, `routers/covers.py` | files with their modification time | download, upload, unlink on PATCH and delete, hourly cleaner | unlink before commit; shared files; checks in threads; grace period | a downloaded cover is not taken away by others; orphans go; uploads are spared |
| Import from providers: `routers/import_.py`, `services/book_import.py` | none of its own | search several providers at once, stream events, fall back to Google Books, import | sources answer, fail or hang in any order; the client goes away; ISBN checked before the wait, inserted after it | the events tell the truth; the search ends and closes its client; one book per ISBN and user |
| Cover lookup: `routers/cover_candidates.py` | two semaphores of the process | probe several providers for one ISBN | permits shared by all lookups; threads; several URLs per provider | the first cover that is there is answered; permits are given back |
| Hygiene: `routers/hygiene.py` | none of its own | list gaps, batch update | bulk UPDATE after a wait | only the user's books change |
| Tags and authors: `services/tags.py`, `services/authors.py`, `routers/tags.py` | tag and author rows, links | find or create, link, rename, merge, remove orphans | orphans found in one thread and linked in another | no link to a missing tag |
| Data import and export: `services/data_import.py`, `services/data_export.py`, `services/transform_engine.py` | temp files, one long transaction | upload, preview, execute in one of two error modes | write lock held over downloads; rollback of rows; files left behind | one mode keeps each good row, the other all or nothing; everyone is answered |
| Accounts: `auth.py`, `routers/auth.py`, `routers/users.py`, `services/user_deletion.py` | users, roles, `credentials_version` | set-up, login, reset, delete | check, then act in threads | there is an admin; set-up happens once; a reset ends the sessions of before it; rows stay with their account |
| Profile and avatars: `routers/profile.py`, `services/avatar*.py` | `user_image`, avatar files | upload, choose, remove, fetch from the provider | unlink after commit, same digest again | the chosen avatar's file exists |
| OIDC: `oidc.py`, `routers/oidc.py` | `oidc_link` | login, link, unlink | a wait inside an open write transaction | one link per identity and user |
| Tokens and links: `routers/embed.py`, `routers/share_links.py`, `routers/public_profile.py` | tokens with expiry and revocation | create, rotate, revoke, use | two rotations at once | one live successor |
| Backup and restore: `services/backup_restore.py` | database file, data directories, safety copy | archive, restore | failure or crash between the steps; live requests | old data whole in place or in the safety copy; one operation at a time; the lock is given back |
| Quote cache: `services/quote_cache.py` | one quote with expiry | get, fetch | none: nothing in the application invalidates it | not modelled |
| Maintenance and lifespan: `main.py` | failure counter | hourly cleaning, start-up | it must survive errors | it comes back |
| Telemetry, statistics, search, health, docs, config, email, migrations, frontend, developer tool `src/cli` | none, or rows written once | queries, pure functions, I/O | none that order decides | not modelled |

Components interact through the database and the file system only: there are no
messages and no callbacks. `routers/books.py` and the two importers call the
session service, the cover storage and the tag and author services inside one
transaction; the cleaner reads `book.cover_url`.

## Modules

**ReadingSessions** is one book of one user with its sessions. `book` is the row (or
`Absent`), `sessions` the table as a function from row ids to rows, `logged` the
owners of progress entries. Each action is one request from its first read to its
commit: `CreateBook`, `UpdateBook`, `TransitionStatus`, `DeleteBook`,
`AddPastSession`, `EditSession`, `DeleteOnlySession` and `DeleteSession` (the two
branches of `delete_session`), `ReadAgain`, `LogProgress`, `RemoveProgress`. A
refused request (404, 422, a date conflict asked back) changes nothing; its
condition appears negated as a guard. `Reconcile` and its parts are the branches of
`reconcile_book_sessions`, `Mirror` is `recompute_book_mirror`, `Latest` the order of
`sessions_for_book`, `NextId` SQLite's rowid, `CurrentIsUnique` the partial index.
Abstractions:

- Dates are `1..MaxDate`, `NoDate` is NULL and `Now` is the newest date. A later
  clock only adds dates in between, so a date that was valid stays valid.
- Other columns of the book are left out; a PATCH of one of them is the payload that
  keeps all three fields.
- Of the log only its owners are kept: pages and times decide nothing here.
- One book is enough: no request on one book touches the sessions of another, except
  through a reused rowid, and that is `DeleteBook` followed by `CreateBook`.
- Synchronous handlers are one step each, as SQLite's single writer makes them if
  they do not read before another one's commit. For accounts and labels, where it
  matters more, `Accounts` and `CatalogRequests` split them.

**ReadingSessionsRace** extends it with what is not one step: `BeginPatch` reads the
row, then any request may run, and `FinishPatch` goes on with the loaded row against
the tables as they are by then (`Changed` merges only changed columns). The book may
have been deleted (`PatchDeleted`) and its id used again. `CreateBookOnly` is a stop
between the two commits of `create_book`, or an index that refuses the session.

**CoverFiles** is the directory of cover files with the `cover_url` of the books. A
handler (`create`, `patch` or `batch`, for `create_book` and `import_book`,
`update_book` and `batch_update`) takes a file it finds (`TakeFile`) or waits for a
download (`BeginDownload`, `EndDownload`, `FailDownload`, `Abandon`). After it, it
holds the event loop until it ends, hence the guard `Running = {}` on the steps of
the others: `DropOld` unlinks the old cover of a PATCH, then `CommitCreate`,
`CommitPatch`, `CommitBatch` or `Refuse`. Every step between them may be interleaved
with the threads: `BeginDelete`, `Unlink`, `EndDelete` (the query, the unlink and the
commit of `delete_book`), `BeginClean`, `CleanFile`, `EndClean` (the query, each
file, the end of a pass). A file is `absent`, `fresh` or `old`; `GraceOver` is the
passing of 60 minutes. `intact` is a history variable: the books that show a file
that was downloaded for them and that no request on the same book has unlinked, whoever
else showed the name then; `raced` remembers of which of them a `delete_book` had asked
who shows the file before they were saved. `delete_user_reading_data`
(user_deletion.py:61-70) asks and unlinks in the same way and is not an action here. Two
assumptions on time are in `GraceOver`: a handler commits within the hour after its
download, and a pass of the cleaner takes less than the hour.

**CoverUploads** adds a memory of what `upload_cover` has returned, to state what the
administration guide promises about uploads.

**Catalog** is the library of one user as values: books with their ISBN, labels (tags
and authors are alike and told apart by `kind`) and links, with one operator per
service function: `SyncBookTags`, `SyncBookAuthors`, `CleanupOrphanTags`,
`CleanupOrphanAuthors`. Rowids are used again (`NewId`). **CatalogRequests** are the
requests on it: `create_book`, `import_book`, a PATCH of labels, `delete_book` and
`batch_tags`. A request asks (`Ask...`: reads what it decides upon, and may wait for a
cover or run in a thread) and writes (`Write...`: against the catalog as it is by
then). `lock` is SQLite's write lock, held across steps only by an import; `loop` is
whoever stops the event loop because it found the lock taken (`StopLoop`) until the
busy timeout (`GiveUp`). `late` remembers the blemishes that a request wrote after
another had committed.

**ImportRows** says, of the flaws a row of a file may have, which `validate_import`
calls errors or warnings and which `execute_import` refuses. **DataImport** adds the
import itself: upload, validation, and an execution that is a coroutine and a stream of
events. Its steps end where the code awaits: `TakeRow`, `EndDownload`, `Store`,
`NextRow`, `Complete`, `Disconnect`. In `rollback_all` the first row opens a
transaction (`work`, `lock`) that lasts to the end, across downloads and across the
pace of the client; in `continue_on_error` every row is committed. `Stop` is the end of
the process. **ImportContract** is the abstract specification: an import is idle,
running, done or broken; a mode keeps rows one by one or all of them at the end.
`DataImport!Promise` maps the import to it (`INSTANCE ... WITH`): the rows that are
`saved` are those whose books others can see, a book carrying the import and row it
came from.

**OperationLock** is the file lock of backups and restores with the descriptor that a
global of the module keeps. The endpoints run in threads, so taking the lock is two steps
(`Lock`, `Remember`) and giving it back three (`Unlock`, `Close`, `Forget`), each of which
reads the global anew and does not ask whose descriptor it has become. `crossed` is a
history variable: one took the lock while another was still giving it back. That the
number of a closed descriptor may be given out again is left out.

**BackupRestore** extends it: `create_backup` and `restore_backup` one file operation at a
time, beside requests that add and remove books and PATCHes that replace a cover. A book
is a row with a cover file, and a book with another cover is another book (`StoreCover`
with the book it replaces, `UnlinkOld`, `CommitRow`, `MissRow`); rows are in the database
file (`main`) or in its log (`wal`), `Checkpoint` moves them. A listed file that is gone
is skipped (`Pack`), and may also make the backup fail (`FailBackup`). A request that had
its connection before the files were replaced commits into files no path leads to
(`stale`). Each step may fail (`FailCopy`, `FailRestore`, then `UndoDatabase`,
`UndoRest`, `UndoClean`, `FailUndo`), and the process may be killed once (`Crash`).
Connections that lie idle in the pool while the database is replaced, and go on with an
unlinked log in later requests, are left out.

**ProviderAnswers** is what `book_import.py` makes of an answer of each source: which
records count, which ISBN, author and cover are taken, duplicates of the BnF's.
Records are sequences of what these choices tell apart. **ProviderSearch** is the
search: sources run at once (`Begin`, `Answer`, `FailSource`, `FindTitle`), are gathered
(`Gathered`), Google Books is asked if nothing was found or instead (`AskGoogle`,
`GoogleBusy` with `GoogleRetry`, `GoogleAnswer`, a probe per item), and the reader of
the stream may leave at every `yield` (`Disconnect`). That cancels the gather, which ends at
the first coroutine that has stopped (`StopSource`, `StopProbe`, `StopGoogle`, `Stopped`);
the endpoint then closes the client (`CloseClient`) with others still under way, which
stop by themselves (`Leaving`). **CoverProbes** is the lookup of
covers with the two semaphores, over **IsbnNumbers**, the arithmetic of `isbn_utils.py`
on sequences of digits; a lookup of Hardcover may end with the error of a URL whose port is
no number (`EndQuery`).

**Accounts** is users, browser sessions, reset links and the rows of one of eight tables
(`kind`) that belong to users. Handlers are plain functions: `Begin...` is what one reads
and decides, `Commit...` its transaction, and two may overlap. `slips`, `late` and
`slipped` are history variables that say that a property's exemption has happened: two
requests overlapped where the code does not look again. Passwords are numbered
(`secret`): a PATCH by an administrator or of the own profile sets one and leaves
`credentials_version`, a reset sets one and adds to it. **Avatars** is the pictures of
one user: rows per variant, files, what is shown, the coroutines that wait for a body or
a download, unlinks after the commit, the hourly cleaner, and the link to the provider
that fetches a picture with its transaction open (`lock`). A row is saved in a SAVEPOINT,
for which the driver opens no transaction: its release commits the row (`SaveRow`) before
the handler commits the user's (`Commit`), and a plain handler may come in between.

Interaction: `CatalogRequests` and `DataImport` share the database, its lock and the
loop; `ProviderSearch` and `CoverProbes`, and `Accounts` and `Avatars`, share nothing
that their properties see, so a behaviour of `MCProviders` or `MCAccounts` is about one
of the two (`Searching`, `topic`).

**MCReadingSessions**, **MCReadingSessionsRace**, **MCDataImport**, **MCBackupRestore**,
**MCProviders** and **MCAccounts** give the requests their inputs for TLC and put
together the parts that a run is about. The properties stand at the end of the module
whose state they speak of. **ReadingSessionsProofs**, **ReadingSessionsRaceProofs**,
**CoverFilesProofs**, **BackupRestoreProofs**, **DataImportProofs**, **AccountsProofs**,
**AvatarsProofs** and **ProvidersProofs** hold the theorems.

A definition whose comment begins with `Mutant:` stands directly before the one it
varies. No specification uses it: put in that definition's place, it must make the
property `PROJECT.json` pairs it with fail.

## Runs

| Run | Question | Bounds | Result |
|---|---|---|---|
| `sessions` | do book and sessions agree after any sequence of requests? | 3 sessions, NULL, one date, one future date; all payloads; transitions of the dialogs; automations on or off; no progress | holds, 17,047 states |
| `progress` | does deleting leave anything behind, for a book or session that gets the same id? | as `sessions`, 2 sessions, with progress for any session or none | holds, 8,289 states |
| `sessions_race` | what survives a PATCH that waits and a half-made book? | 2 sessions, one date; all PATCHes; transitions without dates; no progress | holds, 28,545 states |
| `covers` | does anyone lose a downloaded cover, do orphans go? | 1 file, 2 books, 2 handlers | holds, 685,239 states |
| `data_import` | does an import keep what its mode promises, do labels, links and ISBNs stay sound, is everyone answered? | 2 imports, 2 requests, at most 2 of these four begun; files of at most two rows (`MaxRows`) with one flaw of each sort; one stop | holds, 383,296 states |
| `backup_restore` | is anything lost, has an archive its covers, do two operations run at once, is the lock free in the end? | 1 book and a foreign archive, 3 operations, one kill; not followed past two at the lock together | holds, 1,154,252 states |
| `providers` | do events and candidates agree, does every search and lookup end? | 12 queries over 6 sources, 3 retries; 2 lookups, 1 permit each; 1,000 numbers | holds, 102,337 states |
| `accounts` | what holds for accounts, rows and pictures when requests overlap? | 2 addresses, 3 ids, 2 requests at a time, 5 in all, 3 rows; 2 pictures, 2 workers, 3 requests | holds, 338,375 states |
| `history` | does an unrelated PATCH leave history alone? | 2 sessions, 2 dates | violated |
| `late_patch` | does a book being read keep its session? | as `sessions_race` | violated |
| `upload_grace` | is an uploaded file spared for the hour? | 1 file, 1 book, 1 handler | violated |
| `two_operations` | does the lock keep a second operation out? | 3 operations, no book | violated |

Properties of `sessions`: `TypeOK` (no future date gets into a row, though only
payloads are validated), `AtMostOneCurrent`, `CurrentIsOpen`,
`ReadingShowsItsSession`, `StartedHasSession`, `FinishedStaysClosed` and
`OpenHiddenOnlyByDelete`: a finished book may have an open session, but only because
`delete_session` took the book's status from a past read that is later than the open
one.

Properties of the other runs, each with the hazard it is about:

- `data_import`: `KeepsPromise`, the refinement; `RefusalsForetold`, that a row
  which the execution refuses in a file the validation let pass was warned of, or has an
  ISBN that the library did not have then; `CatalogSound`, no label
  without a book and no link to a missing row, save by a request that wrote after another
  committed; `IsbnOnce` across three handlers, one of which asks before it waits;
  `EveryoneAnswered`, though the holder of the lock needs the loop that a request
  stops while it waits for the lock.
- `backup_restore`: `AckedSurvives` and `SomeCopyComplete`, what a restore may cost;
  `ArchiveWhole`, every row in an archive has its cover unless it had none or it was
  removed or replaced meanwhile; `OneOperation`; `LockFreed`. All of them exempt what
  follows when one operation takes the lock while another is giving it back (`crossed`),
  and the run does not go on from there, where `LockFreed` is true for good: a
  `CONSTRAINT` leaves those states out, and every behaviour that never gets there is
  checked. `two_operations` shows what follows.
- `providers`: `ToldTruly`, one verdict per source and no candidate lost, doubled or told
  of another; `ClientClosedLast`, of a search that its reader has not left; `IsbnsLookUp`,
  what four catalogues return can be looked up again; `BestOfBnf`; `CoverIsFirst`;
  `FormsAgree`; `AllEnds`.
- `accounts`: `Administered`, `Renewed`, `OwnRows`, `SelectedHasFile`.

What the exemptions in these properties mean, and what they do not hide: two
administrators who remove each other at once, two set-ups, two resets or two rotations at
once may both succeed, and the history variables are set by exactly those steps. So the
last administrator goes when a demotion falls between the look of another's deletion and
its commit, and a session of between two resets with one link outlives the second.
`Renewed` also exempts a session of a deleted account whose id is used again, since only
the id and the version are compared: a reset of the new account's password brings its
version to that of the old session, which is good again, although the guide
(`docs/guide/using-librislog/profile.md:12`) says that a reset ends every session. It says
nothing of passwords changed by a PATCH, which end no session, nor of reset links.
`SelectedHasFile` exempts what follows (`crossed` of `Avatars`) when a row is removed
between an upload's or a selection's look at it, or its saving of it, and its commit; when
a removal meets another source than it had read; and when a file is unlinked that a row or
a request has taken up since. A removed picture may so still be shown, when the removal
came between the two commits of an upload. `DownloadedCoverStays` exempts the cover of a
book that was saved after a `delete_book` of another book had asked who shows the file
(`raced`): the code loses that cover. `ArchiveWhole` exempts the old cover of a book that
a PATCH replaces between the copy of the database and the listing of the files
(`swapped`): the archive has the book without it, and `create_backup` skips the missing
file without a word. `ClientClosedLast` exempts a search that its reader left, whose
client is closed while sources are under way, and the covers left behind by a garbled
volume. A restore loses what is committed while it runs, and a kill in it leaves a part of
the data, with the rest in a safety copy that the next start does not look for. An
administrator's deletion leaves reading data and the link to the provider, and both
deletions leave embed tokens, share links and import mappings, which the next user may
inherit with the id; `OwnRows` exempts these, and rows of requests that a deletion
overtook. `validate_import` only warns of a book that is read without an end or was
finished before it was added, and `execute_import` refuses both; an ISBN that is twice in
one file is not warned of. The validation wants an ISBN that can be normalised, but asks
the library for the text of the file, which is also what the execution stores: the same
number with other hyphens is another ISBN to both. The comment on the BnF's records,
"richest record wins", does not hold among shells: the first stays. `search` and
`search_with_progress` do not skip the same sources (`Skipped`, `Silent`).

Why the bounds are enough: to separate a book from its current session takes a
session to delete, a later one that stays and the open one, hence three ids in
`sessions`. With one date beside NULL two sessions tie or one has no date, which
reaches every order of `Latest`. `history` needs two dates, because it
compares them. The race needs the session there was and the one made meanwhile. One
file name is the hard case for covers, since sharing is what goes wrong; two books
share it, two handlers race for it, and the replacement of a PATCH is no cover. The
theorems remove these bounds for what they state.

Two imports are the least that can wait for each other's lock, and one import with one
request the least that can stop the loop; files of two rows have a row before the flaw,
and a duplicate. Three operations are a backup, a restore that fails or is killed, and a
restore of the archive; one book suffices because the properties speak of the books one
by one and `Foreign` brings another, whose cover a PATCH may put the book's in place of.
Three operations are also what the lock needs: one that gives it back, one that takes it
meanwhile, and one that should be refused. One permit makes two lookups wait for each other.
Three ids are two users and a third who gets an id again; two requests in flight are an
overlap, and five reach set-up, a second user, and three more. Three requests on pictures
reach an upload, another in its place and the first again, or a removal between the two.

`CHECK_DEADLOCK` is on in the runs of sessions and covers, whose requests never end, and
off in the runs of imports, backups, providers, accounts and pictures, which come to rest
when all requests of the bound are answered.

The violated runs, in short (quotes in `PROJECT.json`): the fallback of
`reconcile_book_sessions` rewrites a past read after an unrelated PATCH; a PATCH that
waited for its cover works from a stale status; an upload that finds its file does not
renew its time; and the release of the operation lock closes the descriptor of the next
owner, so that a third operation runs beside it. By the same steps the release may forget
the next owner's descriptor, and the lock is kept until the process ends. No run is about
the start date that a finishing PATCH may give the book and not its session.

After `late_patch`, `ReadingShowsItsSession` and `StartedHasSession` are false in the
race model, so `sessions_race` does not list them. What it does list survives.

### Fairness

For `OrphansGo` of `covers`: requests end by themselves: a download has a
timeout (`cover_import.py:91`) and a running handler is not stopped by others (weak
fairness of `Abandon`, `DropOld`, `Refuse`; no commit is ever required). The
maintenance loop catches every exception and comes back after every pass (weak
fairness of `BeginClean`, `EndClean`). Time goes on (`GraceOver`), and errors and
restarts do not cut every pass short before the same file (`CleanFile`); both are
strong, because uploads, downloads and passes disable them again and again.

`EveryoneAnswered` assumes that some stream or request goes on while one can
(`WF_vars(Serving)`): a download has a timeout, a client takes its events or is found
gone, and the busy handler of SQLite gives up (`GiveUp`). That one of them goes on is
enough, since each has finitely many steps. `LockFreed` assumes that the thread of an
operation goes on. `AllEnds` assumes that sources answer or time out and that asyncio
wakes those who wait for a permit; the reader of a stream is not assumed to stay or go.

## Proofs

**ReadingSessionsProofs**: for every number of sessions and dates and every set of
requests within their types, `Spec` implies `[]TypeOK`,
`[](AtMostOneCurrent /\ CurrentIsOpen)`,
`[](ReadingShowsItsSession /\ StartedHasSession)`,
`[](NothingOutlivesBook /\ ProgressHasSession)`, `FinishedStaysClosed` and
`OpenHiddenOnlyByDelete`. The inductive invariant `Consistent` is the conjunction of
the seven state properties. None is inductive alone: that an insertion by
`reconcile_book_sessions` keeps the current session unique needs the branch on the
current session, that a promotion keeps `FinishedStaysClosed` needs
`CurrentIsOpen`, that a new book starts clean needs `NothingOutlivesBook`, because
the rowid may be reused. Lemmas say what an insertion, a replacement and a removal
do to a table of sessions, that `Latest` is well defined (by the least element of a
set of naturals), and that every branch of `Reconcile` makes the table fit its book;
then one lemma per request shows `GoodStep`: the invariant is kept and the two action
properties hold.

**CoverFilesProofs**: for any files, books and requests, `TypeOK` and
`DownloadedCoverStays`. The invariant `Safe` adds what makes it inductive: a waiting
handler has written nothing (`DownloadsFile`); a file that a running handler wrote is
fresh until its commit (`WrittenIsSafe`); a file shown by an intact book that no deletion
raced is there and not condemned, and if the cleaner has listed it, it is not old
(`IntactIsSafe`).

**BackupRestoreProofs**: for any books, any foreign backup, any number of operations and a
kill or none, `TypeOK`, `OneOperation`, `ArchiveWhole`, `AckedSurvives` and
`SomeCopyComplete`, all of them as long as no two operations were at the lock together
(`Alone`): once two were, the lock excludes nothing, and only types, steps and rows are
kept. `IInv` adds what makes them inductive: the steps of each kind and what a restore
carries with it (`KindFits`); that work begins and ends with the lock (`TurnFits`), and
whose descriptor has it (`FdFits`), so that who runs has the lock (`LockHeld`), which
shuts a restore out while a backup lists its files (`Listed`); that rows
anywhere are of answered requests (`RowsAreWritten`), so that a request which has only
stored its cover is in no copy and at risk when a restore ends (`RiskFits`); and where the
books are at each step (`CopyFits`). Its lemmas first say what each step does to the
operations field by field, then each part is kept by every step. It needs that `None` is
no archive or copy, and that a foreign backup is whole and shares no book
(`ForeignAssumption`).

**ReadingSessionsRaceProofs**: with the PATCH that waits and the half-made book, for
any number of sessions, dates and requests, `AtMostOneCurrent`, `CurrentIsOpen` and
`FinishedStaysClosed`. `Consistent` is not an invariant here: a row merged from two
requests need not fit its sessions, and `late_patch` shows it. So the invariant
`RaceInv` says nothing of the book: the table alone is sound (`Sound`: at most one
current session, and an open one), and each branch of `Reconcile`, each edit and each
promotion is shown to keep a sound table sound whatever book it is called with. These
three properties therefore rest on the session service and on no caller's discipline.

**DataImportProofs**: for any library, names, files, and number of imports and requests,
`TypeOK`, `CatalogSound`, `IsbnOnce`, `RefusalsForetold`, and the refinement
`KeepsPromise`. The invariant `Inv` adds: a request that was not overtaken has seen the
catalog there is (`SeenFits`), which is what makes a write from an earlier read
harmless; the open transaction of an import has no blemish its commit would not excuse
(`WorkSound`); the holder of the lock has stored all of its rows so far and nothing else
(`HolderFits`), and an import that is not to be seen yet has no book in the library
(`StreamsFit`), which are the two halves of all-or-nothing; and a verdict is one about
the file (`VerdictsFit`). Below it are lemmas on the operators of `Catalog`: ids of new
rows are above all others (a finite set of numbers has a greatest), find-or-create makes
no name twice, and what each clean-up leaves. The refinement is proved step by step:
each action is a step of `ImportContract` for one import, or of none. Two things came
out of the attempt. With three overlapping requests, a batch that is late adds a tag to
a book that is gone, and a new book that gets its id inherits the link, so that
`CatalogSound` must excuse the labels of late links as well as the links (`late`). And
the case of a row that is twice in its file needs no excuse of its own in
`RefusalsForetold`.

**AccountsProofs**: for any addresses, any finite set of ids, any number of requests in
flight and a stop at any step, `Administered`, `Renewed`, `OwnRows` and the types with the
unique columns. `AccountsInv` adds: versions and generations are not above the counters
(`Counted`); while no two removals crossed, each that is in flight leaves another
administrator (`Guarded`); before the set-up there is nobody (`NobodyYet`), and after it
the others in flight know that they crossed it (`SetupsCross`); a browser session is not
ahead of its account and of the same reset at the same version (`CookiesFit`); a token
that came of another has a revoked predecessor, which has no second successor unless two
rotations crossed (`TokensFit`, `RotationsFit`); and rows carry the generation of their
account or were left by a deletion (`RowsOwned`). **AvatarsProofs**: for any pictures and
workers, `SelectedHasFile`, and with the former module the `TypeOK` of the run.
`AvatarsInv` relates rows, files, the requests in flight and the cleaner, through a row's
commit and the user's: unless two requests crossed, the file of every row is there, and a
file that a request has stored, or a row has got since the cleaner began, is fresh
(`FileFit`).

**ProvidersProofs**: for any order of the six sources, any limits and any answers of their
shapes, all the invariants of `providers`. `SearchInv` says that who is under way is
waited for unless the search was cancelled: a source only in `gather` or then, the request
to Google Books only in `google` or then; hence `ClientClosedLast` with its exemption.
`AnswersInv` says that what a source has found is what its mapper makes of the answer that
came last, so that `IsbnsLookUp` and `BestOfBnf` are about the mappers: `BestSoFar` is the
loop invariant of `map_bnf_response`, kept when a record replaces another (`TakeSameBnf`)
and when it is appended (`TakeNewBnf`). `ToldInv` says what a stream has told so far:
nothing until the gather ends (`NothingTold`), then of each source what is true of it
(`SourceTold`), which one event or one batch of candidates of another source does not
disturb (`OthersTold`); the gathered events are told source by source in the order of the
registry (`SpokenUpTo`). Loops and concatenations are recursive functions over `0..n`:
each is shown to exist by taking the least `n` at which none does (`BnfRecursion`,
`Flattening`), and a statement about every `n` by the least counterexample
(`LeastMember`), which needs no induction theorem. For this the filters of
`ProviderAnswers` are positions kept in their order (`Kept`) and its loop is `BnfAfter`.
`CoversInv` counts: the permits taken are as many as there are coroutines in a place that
holds one (`Counts` says how a move changes this number), and a coroutine that goes on has
seen nothing good so far (`Fits`). `FormsAgree` is arithmetic on thirteen digits: a check
digit completes its sum, and only one does.

The proofs rest on the named assumptions of the specifications and on nothing else: types
of the constants and of the sentinels, finite sets of ids and lookups, `ForeignAssumption`,
that the registry lists the six sources once each (`RegistryAssumption`, as `_build_sources`
does), and that answers have the fields the mappers read (`AnswersAssumption`; an answer
that has not is `FailSource` or `GoogleGarbled`).

Model-checked only: the liveness properties (`OrphansGo`, `EveryoneAnswered`,
`LockFreed`, `AllEnds`: liveness under fairness is out of this prover's reach) and the
violated properties. Every invariant and every action property of a passing run, and the
refinement, is a theorem. No module declares a `RECURSIVE` operator.

## Not modelled

What the inventory's last rows name (telemetry is one row and a heartbeat, the quote
cache one value that nothing invalidates; the rest are queries, conversions, settings),
and for each modelled component the data its properties do not tell apart. The frontend
appears only as the source of the inputs in `MCTransitions`. The protocol of the OIDC
provider and of the book providers is a library's or a service's.

## Plan

What is left, in the order of its worth:

1. `ReadingSessionsRace` with `create_progress_entry` split at its check, and the
   invariants that survive it proved.
2. Partial files (`.tmp`) as a further state in `CoverFiles`.
