# shigoku: TLA+ specifications, model checking and proofs

shigoku is a terminal anime client, with a manga client (`shigoku-manga`) and a
page viewer (`shigoku-view`) beside it. It keeps a library in SQLite, plays
episodes through mpv or another player, saves episodes and chapters, and keeps
the library in step with AniList and MyAnimeList. Everything slow runs on
detached threads that own their inputs and answer through one event queue; one
interface thread owns the application's state. This directory holds TLA+ models
of that code, the TLC configurations that check them on small instances, and
TLAPS proofs of what holds for every instance.

Reading order: the table of modules, then one module with its section under
"Models", then its run and its theorems. `PROJECT.json` names the source lines
behind every definition, the hazards the properties are for, and the mutants.

## The system

| part | source (`src/`) | state it keeps | operations | hard part |
|---|---|---|---|---|
| AniList sync | `sync.cpp`, `store.cpp` | per show: status, progress, score, and the entry the server last accepted (`synced_*`) | pull (fetch list, plan, import, apply), push (dirty list, guard, save, mark) | runs against the user's own edits, the website and a second process; no transaction spans a network call |
| list reconcile | `store.cpp:1955-1994` | none | three-way merge of local, snapshot and server | must lose no edit of either side |
| library | `store.cpp` | shows, episode progress, bindings, notices | every write of the interface and of the workers | two connections; stamps and rows that must agree |
| MyAnimeList mirror | `mal_mirror.cpp` | a second snapshot per show; a token pair | pull, push, one token renewal per pull | the renewed pair must be saved; a push is held back only by a snapshot |
| event queue, workers | `tui/queue.hpp`, `tui/workers.hpp` | a bounded queue; generations | `try_post`, `wait_next`, `shutdown` | a full queue drops the event |
| sync scheduling | `tui/app.cpp` | `syncing`, a deadline | arm, flush, finish, quit flush | an edit made during a run must reach a later one |
| history view | `tui/app.cpp` | copies of library rows, one undo | status keys, undo, recompute, delete | acts on copies read earlier |
| resolve walk, pre-warm | `tui/resolve_transport.cpp`, `resolve.cpp`, `tui/prewarm.cpp` | the open show, its grid, a generation, the walk; bindings and absences | engage, answers, pin flip, fail over, probe | late answers of an older walk; a walk left behind |
| playback | `player.cpp`, `proxy.cpp`, `play_cli.cpp` | an attempt counter, the last position, the proxy's threads | spawn, follow, retry, record, hop | the last position must not be lost; every play must return |
| downloads | `download.cpp`, `manga/pages.cpp` | `.part` and final files, a chapter's marker | transfer, resume, rename, cancel, move | interruption at any byte; children that outlive the program |
| interface | `tui/app.cpp`, `tui/views.cpp` | view, pane, overlays, selections | keys, mouse, resize, late answers | keys that reach what is not on the screen |
| Discover, search, covers | `tui/discover.cpp`, `tui/covers.cpp`, `tui/cover_pool.cpp` | feeds, the result list, a pool of pixels and image numbers | want, file, fail, evict | answers out of order, or to an older question |
| catalog failover | `catalog.cpp` | a latch and its expiry | ask, fall through, record | several threads move one latch |
| sign-in | `loopback.cpp`, `mal_loopback.cpp`, `auth.cpp` | port, cancel flag, auth file | accept, cancel, exchange, save | cancel against a parked accept; late tabs |
| airing dates, metadata | `tui/app.cpp`, `sync.cpp`, `store.cpp`, `domain.cpp` | the next episode and its date, a mark, what is fresh; ids that stand in for unknown ones | refresh, notice, ask, heal | answers older than the row; a row that changes its id under what is in flight |
| sources | the seven scrapers, `manga/*.cpp`, `http.cpp` | a key or a token for the process | search, list, resolve | a failure passed off as an empty list |
| manga client | `manga/mapp.cpp`, `manga/mstore.cpp`, `manga/msync.cpp` | result list, library, chapters, viewers, downloads | keys and the answers of a dozen kinds of workers | progress written to another manga; waits nobody answers |
| page viewer | `view/` | page, zoom, layouts of a book, a cache of decoded pages | keys, resize, full screen | a resize renumbers the pages |
| wire code, rendering, command line | the rest of `src/` | one request or one frame | parse, print, draw | nothing that interleaves |

Interaction: the interface thread calls the store directly. Workers are started by
it, never joined, and post events that carry the generation or id they were started
for; the interface drops what is stale. The sync worker has a store connection of
its own, so it and the interface meet in SQLite; `shigoku sync` and `shigoku play`
are further processes on the same file. The player, ffmpeg and the page viewer are
children that may outlive their parent.

## Modules

| module | models | run |
|---|---|---|
| `ListMerge` | `merge_local_wins`, `merge_progress`, `reconcile` | (used by the next two) |
| `AniListSync` | `run_sync`, `flush_push` and the store operations under them, by any number of processes; the user; the website | `sync_one`, `sync_ends` |
| `MalMirror` | one process with both trackers: pull, token renewal and save, the AniList half as a step, mirror push | `mal_full` |
| `SyncSchedule` | when the interface runs a sync: queue, debounce, one run, quit flush, launches | `sync_ends` |
| `WatchHistory` | one show's row and episode rows under plays, history keys, undo and adoptions | `history_full` |
| `EpisodeWalk` | resolve walk, pre-warm, play continuation over the store's bindings | `walk_full` |
| `MangaApp` | the manga client over its database | `manga_full` |
| `AtomicFiles` | abstract: what the downloaders promise of a final name | `transfers`, `spliced` |
| `Transfers` | both downloaders, the move of a show's files, crashes and power losses; implements `AtomicFiles` | `transfers`, `spliced` |
| `PlaySession` | abstract: what a play promises its caller | `sessions` |
| `Player` | one play: attempts, child, watcher, proxy; implements `PlaySession` | `sessions` |
| `CommandPlay` | the command line's span of plays over several sources, on top of `PlaySession` | `sessions` |
| `Catalog` | the failover latch under several workers | `sessions` |
| `SignIn` | both sign-ins with listener, tabs, cancels and the auth file | `sessions` |
| `Interface` | views, panes, overlays, the show page and its recommendations | `screens`, `zoom` |
| `Feeds`, `Search` | Discover's feeds; Browse's search | `screens` |
| `DetailCover`, `GridCovers` | the cover of the selected show; the covers of the cards | `screens` |
| `Fetch`, `Sources`, `MangaSources` | one request; the seven sources of episodes; the five of manga | `screens`, `not_stocked` |
| `Viewer` | the page viewer | `screens` |
| `Airing` | dates of the next episodes, their refresh, notices and NEW markers | `screens` |
| `Healing` | the metadata of the show on screen, and a MyAnimeList row's move to its real id | `screens` |

`MC<module>` gives the constants of a module their values. `MCTwoSyncs` adds the choice
between one sync process and two; `MCSyncEnds`, `MCScreens` and `MCSessions` put
components side by side that share no state, and a behaviour runs one of them while
the others rest in an initial state: one run then answers for all of them.

`AniListSyncProofs`, `MalMirrorProofs`, `WatchHistoryProofs`, `EpisodeWalkProofs`,
`MangaAppProofs` and `TransfersProofs` hold the theorems, each beside the module it is about
(the first also those about `ListMerge`); `ScreensProofs` holds those about seven of the
components of `screens`, `SessionsProofs` those about three of `sessions`. No module declares a RECURSIVE operator.

A definition that no source line stands behind and that no other definition uses is
a deliberate mistake (`StaleIfIdle`, `NotSynced`, `ContinueOverAll`, ...): put in
place of the definition listed with it under "mutants", it makes the property
fail, which shows that the property can see that part of the code.

## Models

### AniListSync (`sync.cpp`, `store.cpp`)

State: `show[i]` is the library row (entry and `synced_*` snapshot, `None` when
there is none), `server[i]` AniList's entry, `w[p]` a worker's program counter
and what it carries between calls: the fetched list, the plan, the work list, the
row in hand, the entry its guard read. The control points are where the code
gives up the database or the network: `fetch` (`fetch_list`), `plan`
(`reconcile_plan` and its rows), `apply` (one `apply_reconcile` row per step,
imports first), `list` (`dirty_rows`), `next`, `guard` (`fetch_entry`), `save`
(`save_entry`), `mark` (`mark_synced`). A step between two of them is one
statement or one transaction, so every interleaving with `Local` (every write the
interface makes to the list columns: status keys, score keys, progress, add,
delete, a counted play, recompute) and with `Website` (another client) is there.
`Fails` is a failed or unanswered call, a 429, a store error, or the death of the
process at any point; a save may have reached the server although it failed.
`known` and `held` record what the library has reconciled or written and what
the server has held. The grid of scores is lossy (`Stored`): the server rounds some
of them, which is what the adopt arm of `mark_synced` is for.

### MalMirror (`mal_mirror.cpp`, `mal_refresh.hpp`, `tui/app.cpp`)

State: the library row with both snapshots (MyAnimeList's is two halves, either of
which may be missing), each site's entry in its own score scale, and the token
pairs, numbered by renewal: `live` is the one MyAnimeList honours, `disk` the auth
file's, `mem` the interface's copy. One action per call of `pull_mirror` (date check,
fetch, 401, renewal, plan, apply), the save of a renewed pair, the AniList half as
one action that reconciles and pushes (`AniListSync` is about its inside), one action
per call of `push_mirror`, and the handling of `SyncFlushed`. `lost` records that a
renewed pair was lost before it was saved; `calm`, that nothing disturbed the run.

### SyncSchedule (`tui/queue.hpp`, `tui/app.cpp`)

State: the event queue with its cap, `syncing`, the debounce `due`, the sign-ins,
the run and what it has yet to read, the quit flush, the phase of the program. An
edit is a number: `made` counts them, `heard[t]` is the number of edits the last
push to tracker `t` had the chance to read, `owed[t]` those the current launch
made while `t` was connected. `Loop` takes the next event and runs its handler to
its end; `Tick` is the timer.

### WatchHistory (`tui/app.cpp`, `store.cpp`, `domain.hpp`)

State: the clock in seconds, the row, the episode rows, the running play, the
screen with the list's own copy of the row (`view`), the undo. Positions are
abstracted to the three tiers the code tells apart: below the counting ratio,
counted, watched to the end. Actions: fire, checkpoint and end of a play, a play
in another process, add, bind, each history key, arm, cancel and confirm of the
delete, a tracker's adoption, a second passing, restart.

### EpisodeWalk (`resolve.cpp`, `tui/resolve_transport.cpp`, `tui/prewarm.cpp`)

State: `db` is the store's bindings, absences, pins, routes and cached listings;
`s` is `EpisodeSession` (its walk is a provider order and the positions not tried
yet, in place of a cursor and a bitmask); `jobs` are the detached workers whose
answer is not handled, with `live` for "their generation is the current one";
`warm` is the pre-warm run; `play` and `cont` are `App::play` and
`App::play_continuation`. A handler is an operator from world to world (`Engage`,
`AdvanceWalk`, `Land`, ...) so that the call chain of the code
(`on_episodes_done` -> `fail_over` -> `advance_walk` -> `open_bound` -> `land`) stays
one step, and every handler of an episode event ends in `Rides`
(`ride_episode_feedback` -> `maybe_continue_play`). `asks` counts how often a
provider was tried since the last opening, pin flip or failed play, a landing from
the cache included; `passed` holds the providers skipped for an absence; `forced`
counts forced routes of a show.

### MangaApp (`manga/mapp.cpp`, `manga/mstore.cpp`, `manga/msync.cpp`)

State: `app` is `MgApp` in one record; `net` the workers whose answer is not handled,
each with the generation it was started under as `live`; `store` is `manga.db`;
`disk` the complete chapters; `site` AniList's progress. Handlers are operators on
the world `[app, net, store]`, as in `EpisodeWalk`: a binding asks for chapters,
chapters may continue a read, which fetches pages or opens a viewer. Gestures are
bounded, answers are not. `continuing` is the code's boolean with the row it was
set for.

### Transfers (`download.cpp`, `manga/pages.cpp`, `tui/app.cpp`)

State: `disk` says what each path holds, a file being its blocks by the link they
came from and how many of the first are on the disk for sure; `job` is the worker and
its place in `download_link`; `ffmpeg` the child each session started, which writes
to a file by inode (`at` follows a rename, and is `None` once the file is unlinked or
replaced); `download`, `mail`, `phase`, `showId`, `moving` are the interface's side;
`page`, `pagePart`, `marker`, `fetch` the chapter. The abstract module's variable
`published` is what stands under the final names.

A crash loses memory. A power loss also takes every block not yet synced, and, since
neither downloader syncs a directory, it may take renames, removals and the marker back:
`was` is the disk as of an operation on the directories that may be the last to have
reached it, and `lasting` the pages of the chapter whose renames have. The file system is
assumed to write such operations in order, and a file's fsync to wait for those before
it, as journaling file systems do; the store's commit of a new id is taken to be durable.

Two paths publish what was not synced, and the model has both: a 206 without a body
leaves the `.part` of an earlier attempt unopened, and `if (fd >= 0)` then skips the fsync
(`AlreadyWhole`, `download.cpp:125-146`); and the result of a page's `::fsync` is not looked
at (`SyncPageUnheard`, `manga/pages.cpp:131`). `exposed` names the files published so. A
power loss may leave one of them torn, and the code then keeps it: play takes the file, the
next fetch skips the page and sets the marker. So `download.hpp:7` ("a corrupt final file
must be impossible") and `manga/pages.cpp:129` ("the final name must never point at a page
the kernel hasn't durably written") do not hold of these two; `AtomicFiles` promises whole
files of all others, and lets a power loss take a name back to nothing but never the
chapter's marker without its pages.

### Player, PlaySession, CommandPlay (`player.cpp`, `proxy.cpp`, `play_cli.cpp`)

`Player` has the playing thread, the watcher of the position (mpv's socket, or the
pipes of mplayer), the player process, and the proxy with its accept loop and
connections. `PlaySession` is its caller's view: a play begins, positions are told,
it ends, and the last position told is the play's. `CommandPlay` is written on top of
`PlaySession`: find a source, take its list, play on, hop to another source when an
episode fails, and record.

### Catalog, SignIn

`Catalog`: the latch (`active`, `anilist_retry_at`), and per worker the plan of its
question and whom it asks now. `SignIn`: per session its worker's step, cancel flag
and waiting connections, the tabs that have not called back, the modal, the queue of
answers and the auth file with its two blocks. A token is named by the session whose
tab carries it.

### Interface, Feeds, Search, DetailCover, GridCovers

`Interface` keeps view, pane, the way back, the overlays that own the keys, the row
under each list's cursor, the show page's grid and its section of recommendations;
one action is one event with the reconciling that ends it. `Feeds` keeps a slot per
axis and for the Similar feed, with generations and the fetches under way; `Search`
the bar, the debounce and the list as the pages it was made of; `DetailCover` and
`GridCovers` what is wanted, fetched, held, and kept on the terminal under an image
number that is used again.

### Sources, MangaSources, Fetch, Viewer

A reply's data is a fact about the site; how it is spelt is left out. `Fetch` is what
the client makes of a request (refused, broken, a reply judged by its status, a
challenge page), `Sources` and `MangaSources` the requests of each source for a
search, a listing and a resolve, and what it makes of each reply, one call at a time.
The reply to any request may be one that has not what was asked for: not in the format
(`junk`), JSON without the key (`keyless`), a challenge or another page with 200. A source
either fails on it (`Json`, `Page`) or takes it for a reply that lists nothing (`Lax`, `Scan`),
and some do not ask at all when the query has nothing they can use (`Without("unasked")`).
What stood in for the site's word is kept with the answer as `taken`. `HonestAnswers` then
says two things: an answer the site was heard for is the whole truth or an error, and an
answer is made up of something else only in the ways `Unheard` lists, source by source.
That list is not harmless: see Findings, `not_stocked`.
`Viewer` keeps the page, zoom and scroll, the layout of a book for the size the
window had, the cache of decoded pages with its worker, full screen, and a resize
that is still to be told; a book is its chapters' lengths in some unit of text.

### Airing, Healing

`Airing` has the row's next episode with its date, the mark of the last episode told and
the NEW marker, the markers as History and Schedule read them, AniList's schedule (`airs`),
the refresh of a sync run (`run`, with the date it was started at and the answer it
writes row by row) and the answer about the show on screen (`reply`, with the time it was
given at). Time passes and episodes are put off between an answer and its handling: a
run's may be any age, but the request about one show gives up after seconds
(`kDefaultTimeoutSecs`, `http.hpp:35`), so at most one step of the clock, the time between
two episodes, passes before it is handled. `told` counts announcements. A check at the
start may end with the process after any of its rows.

`Healing` has the store's rows, what is fresh, the catalog cache; Browse's and Discover's
lists and the library rows History and Schedule hold; the row on screen, the question
that is out, and everything that still names a show: grid, walk, play, armed delete,
undo. Every event ends in `Reconciled` (`reconcile_enrich`). `RowRekeyed` is
`rekey_row` with `Store::rekey_show`. `healed` holds the bridges healed since a catalog
answer last named them.

## Runs

Every passing run explores all reachable states within its bounds; the number in
brackets is how many there are.

| run | instance | what it shows |
|---|---|---|
| `sync_one` [1 478 499] | one show, three statuses, progress to 1, scores {0, 1, 2} of which the server rounds one; one process with 2 local edits, 1 website edit and 1 fault, or two with an edit on each side | snapshots are server values; a push destroys no server edit older than its guard; a single process keeps the user's moves; only what is owed is pushed |
| `sync_ends` [122 079] | one process with one edit each side and one fault; or the schedule with a queue of 2, a debounce of 2 ticks, 3 posts and edits, 2 launches | library, snapshot and server agree in the end; every run ends, against a server that answers 429 for ever too; every edit reaches a push; quitting ends |
| `mal_full` [5 813 323] | both sites round scores, one edit here and one on either site, one fault, one renewal | one undisturbed run brings library and both sites together; a renewed pair is lost only by a failure or a kill; a push undoes nothing done on MyAnimeList |
| `history_full` [778 764] | 2 episodes, 2 seconds, 2 plays, 2 changes | dead partials stay dead, live ones resume, finishes are kept, membership is earned |
| `walk_full` [1 944 887] | 2 shows, 3 providers (one keyed, two searched), 2 ids both shows can match, 3 gestures, 1 expiry | late answers paint nothing; no session is stranded; no provider is asked twice; "no source" is earned; a probe steals no binding |
| `manga_full` [699 929] | 2 manga, 2 sources, a two-page feed, one recommendation, 4 gestures, of which one may connect AniList | marks on the screen are the database's; progress is written to the manga that was read; every wait is answered; what counts as synced is on AniList |
| `transfers` [383 758] | 2 episodes of 2 blocks, one direct and one through ffmpeg, a two-page chapter, 2 starts, 2 crashes of which one may be a power loss | a final name holds a whole file or nothing, but for a power loss that tears what was not synced (the refinement of `AtomicFiles`); play finds what was saved; a download ends |
| `spliced` | two sources for one episode, no crash | a counterexample, see Findings |
| `screens` [524 386] | see `Screens.cfg`: two shows and every view, with rows in all but Schedule; feeds of two pages under two filter sets; three queries; three covers in a pool of two; sources of three episodes or two uploads; a viewer of three pages or a book of five units in two windows; an airing show of two episodes with one delay, four moments and seven gestures; two shows, one of them MyAnimeList's, with one search and one expiry | keys reach only what is drawn; feeds and searches are whole lists of one question; covers are the ones asked for; a source that hears its site answers the whole truth or an error, and answers unheard only as listed; the viewer keeps its place; an episode is announced once; a healed row is named by its real id everywhere |
| `not_stocked` | each source, three episodes, any reply | a counterexample, see Findings |
| `zoom` | two shows | a counterexample, see Findings |
| `sessions` [180 351] | see `Sessions.cfg`: two workers on the catalog; two sign-ins with a stray connection; a play of two attempts; spans over three sources that list differently | the catalog comes back to AniList; only a session's own tab signs it in, and a sign-in ends; a play keeps the promise of `PlaySession` and returns; a span plays forward and ends |

Why the bounds are enough. The sync properties relate one show's row, one
server entry and one worker's memory: a second show adds no interaction (rows are
independent statements), and the hazards need at most an edit on each side of a
guard, one lost answer and a second process. Three statuses give the rank two
moves and the merge a tie; progress 0..1 a rise and a fall; two scores beyond zero
are what a lossy grid needs to confuse them. The schedule's queue of 2 is full
after two posts, and two launches let an edit of the first be found by the second.
In the walk, three providers are the fewest where a sweep of bindings, a key and a
search can disagree about order, where a failed play has two siblings left, and
where a forced provider has a continuation over more than one; two ids over two
shows are what a steal needs. Three gestures are an opening, something that
interrupts it and something that comes back to it; answers, errors, failed plays,
positions and probes are not bounded. In the manga client four gestures are a
selection, a read, a change of source or manga under it, and the way back. A file
of two blocks can be cut in the middle, and two starts make a resume; two crashes
leave an orphan behind a second session, and the one power loss may come after a session
that ended in a crash (a second one finds only what the first left on the disk; run
`spliced`, which needs none, allows none). A pool of two under three covers evicts and
uses an image number again. Where a proof exists (below), the bounds matter no more.

`CHECK_DEADLOCK FALSE` is set where edits, gestures, starts or launches are bounded, or
where a sign-in or a play is simply over: the model stops there, the program does not.

### Fairness

* `AniListSync`: weak fairness of each worker's own steps: a thread that has been
  started is scheduled, and each call of the HTTP client times out. `Converges`
  needs a network that, asked again and again, answers again and again (strong
  fairness of the three answers) and a user who asks for a full sync again. Nothing
  forces an edit.
* `SyncSchedule`: weak fairness of the event loop, of its tick, of the worker (its calls
  time out) and of the quit's one-second deadline (`bounded_wait`). Nothing is assumed
  of the user, of the token's age or of the last push, which may hang for ever.
* `Transfers`: the worker's thread and the interface run, the network answers or
  times out, a child ends, and a quit exits after its flush.
* `Catalog`: time passes, a request has a deadline, and questions keep being asked.
* `SignIn`: a worker goes on while it has something to read, the interface pumps its
  queue; nothing says that a browser ever calls back.
* `Player`: the threads run, and a player is closed some day. `CommandPlay`: prompts are
  answered and plays end.
* The other models state safety only and need none.

## Findings

Statements of the documentation or of comments that the code does not keep, each with
a run that finds the counterexample:

* `spliced`: a `.part` is resumed by its size, whatever source it came from
  (`download.cpp:46-76`), and the next attempt resolves anew (`tui/app.cpp:1434`). A
  retry on another source or quality whose server answers 206 finishes a file that
  begins as one encoding and ends as another, and publishes it, against
  `download.hpp:7` ("a corrupt final file must be impossible"). The theorem
  `PublishesWholeFiles` shows that this is the only way while the machine keeps its
  power: as long as an episode that may be resumed has one link, every file is published
  whole, and only a power loss tears one, of the two kinds named under Transfers.
* `not_stocked`: `provider.hpp:134` says of `episodes()` "Ok(empty) = authoritative NOT
  STOCKED (mark absence); cannot-answer MUST be an error". Four sources return `Ok(empty)`
  for JSON that parses and says nothing of the show: hianime and animehub when the page in
  it has no rows (`hianime.cpp:186-193`, `animehub.cpp:345`), anidbapp and anilibria when it
  has no `episodes` (`anidbapp.cpp:344`, `anilibria.cpp:107`). The walk marks the show absent
  there for seven days, which `anidbapp.cpp:442` refuses a challenge page to avoid. The dubs
  of anidbapp and hianime are lost the same way to a reply without languages or servers.
  Searches go the same way, but an empty search marks nothing, the walk only goes on: anidbapp,
  animehub and hianime on a page that is not the search page, senshi without `data`
  (`senshi.cpp:587`), and, for a query that is empty, too short or without an ASCII letter or
  digit, anidbapp (`anidbapp.cpp:574`), animehub (`animehub.cpp:620`) and anilibria
  (`anilibria.cpp:256`), which do not ask. Megaplay's rule, that a page without the id means
  not stocked, is stated in its code (`megaplay.cpp:527`) and is not counted here. Of the manga sources
  (which have no absences) dynasty and weebcentral scan any page, and the rankings of
  mangadex and mangahub and mangadex's chapter list end where the total is missing.
* `zoom`: the show page draws the row of the view it was opened from while its keys act
  on Browse's row, so Enter plays another show than the one on screen.

Further disagreements met while modelling. The models have them as the code does, and
the properties are stated around them:

* A pull that renewed MyAnimeList's token pair and then fails in `reconcile_mal_pull`
  returns the error without the pair (`mal_mirror.cpp:156`), against the comment at
  `mal_mirror.cpp:115`; the refresh token on disk has been spent.
  `ExpiredOnlyIfLost` counts this among the losses.
* Clearing a score does not reach MyAnimeList (a zero is withheld,
  `mal_mirror.cpp:68`), so the next pull brings the old score back
  (`docs/MANUAL.md:361-363`).
* Quitting while a run is going skips the last push even if that run read the library
  before the edit (`tui/app.cpp:5022`, `docs/MANUAL.md:338`).
* The undo pair is taken from the list's copy of the row, so `u` can take back an episode
  finished behind the open list (`tui/app.cpp:2684`, `tui/app.hpp:548-550`).
* An import's guarded update names status, progress and snapshot but not the score it
  sets, and `mark_synced` goes by id, so a row deleted and added again during a push
  takes the snapshot of the row it replaced (`store.cpp:2209-2230`, `store.cpp:2356`).
* Two sync processes may undo a local edit (`LocalMovesSurvive` is about one), and two may
  redeem one MyAnimeList refresh token (`mal_mirror.cpp:103`).
* A dropped `SyncFlushed` leaves `syncing` up until the next launch (`wedged`); a dropped
  `PlayDone` or `EpisodesDone` does the same to the play and to the loading mark.
* With MyAnimeList as the only tracker, `any_tracker` reads the date of the interface's copy
  of the sign-in (`tui/app.cpp:946`), which only a run behind that gate could renew.
* `recompute_progress` counts rows watched to the end, so it drops a finish between the
  counting ratio and the full one (`store.cpp:1086-1112`).
* A running play's pre-warm is not cancelled when that play fails over
  (`tui/app.cpp:4195`, `resolve_transport.hpp:158-159`). A cached listing is kept by show
  and provider, not by the provider's id. `mark_provider_absent` leaves a binding.
* The two marks undo and "continue" of the manga client may be another manga's
  (`manga/mapp.cpp:819`, `:837`, `manga/mapp.hpp:262-263`).
* Signing in to AniList writes an auth file made from nothing, so a MyAnimeList sign-in that
  stood in it is gone (`login.cpp:57-67`, `:130`), against `mal_login.hpp:143-147` ("exactly as
  login::complete_login never touches .mal today"); `Save` in `SignIn` does that.
* In the interface: the sharp cover never comes after a zoom (`tui/app.cpp:519-524`,
  `:1668-1676`); the score prompt and the delete confirm follow the list's selection
  through a reload (`:2359-2385`, `:4419-4431`); the answer of a cancelled sign-in closes the
  next one's modal (`:870`, `:909`); `/` in History clears the filter without a rebuild
  (`:2946-2947`); a tab click while a settings row is edited types into it.
* In the feeds: a failover mixes pages of two sources (`catalog.cpp:133`), a dropped answer
  leaves `loading` up, and a client-filtered feed keeps asking for empty pages.
* In the sources: an offset recomputed from a list that has changed (anidbapp), a key kept after
  one miss (`senshi.cpp:470`, megaplay); mangadex stops at 20 feed pages and misses a chapter when another is
  taken down between two offset pages (`manga/source.hpp:98`).
* In the viewer: an image's scroll is not clamped on a resize (`pager.hpp:94`); resizing a book
  back and forth drifts the place; the three slots of the cache are exceeded by queued
  prefetches (`view/main.cpp:127`).
* An episode that airs during a session is never announced when `refresh_airing` moves the
  date on first (`tui/app.cpp:1067`, `:1159`). Nothing but that request's timeout keeps an
  episode from being told twice: an answer two episodes old, written to a row that was
  deleted and added again meanwhile, would put the new row's mark back.

## Proofs

All theorems hold for every value of the constants under the modules' named assumptions:
any sets of shows, statuses, scores, providers, episodes, links, any number of processes,
edits, faults, crashes. The assumptions are about what the constants are: `None` is not a
value of the sets it stands beside (`NoneIsNothing` and the like), bounds are numbers, a
file has blocks and a chapter pages.

* `AniListSyncProofs`. `ListMerge`: the merge yields an entry, takes the moved side when only
  one moved, is idempotent and keeps local moves, by cases on which of the three values
  agree. `AniListSync`: `SnapshotWasOnServer` is not inductive: a snapshot comes from a value
  a worker carried since its guard, its save or its fetch, with other steps between.
  `Provenance` says of each thing a worker carries that the server has held it, and that
  what it may overwrite is `known`; it is preserved by each action, one lemma per group,
  and gives `SnapshotsComeFromTheServer` and `PushIsGuarded`. `Owed` says that a row the
  user never touched equals its snapshot, in the library and in every plan and work list,
  and gives `OnlyEditsArePushed`. `Planned` says that what a worker will apply is a merge
  of the row it still finds; with `MergeKeepsLocalMoves` it gives `LocalMovesAreKept` for
  one worker. (With two it is false, see Findings.)
* `MalMirrorProofs`. `TypeOK` and `PlanIsOfTheList` give `MirrorIsTyped`. `TokensHeld` relates
  the four copies of the token pair at every control point (a pair that is not lost is on
  disk, in the run or in memory) and gives `SignInAskedOnlyIfLost`. `RowsKnown` and
  `RunKnown` say that each snapshot half, in the library and in the run, is something the
  library merged or wrote, and give `NothingOfMalIsLost`. `Undisturbed` says, point by
  point, what a run that nothing disturbs has done so far; with `PullIsGoing` (a
  pull has no outcome before it ends) it gives `OneRunIsEnough`.
* `WatchHistoryProofs`. The invariant adds to the four properties that the stamp on the row
  equals the last move of the frontier and nothing is dated after the clock
  (`Frontier`), that a show without a row has no parts and no undo (`Blank`), and that the
  pairs held by the list and the undo are earned (`KeysAreEarned`): without the last, an
  undo kept over a delete would bring a membership back.
* `EpisodeWalkProofs`. The handlers are functions on a world, so the lemmas follow the code's
  call graph: `Plain` holds in the middle of a handler, `Ready` when no answer is awaited,
  `Sound` between two handlers, when exactly one answer is awaited, or none. `WalkFits`
  says that a walk still owes exactly the providers it has neither asked nor passed.
  `PlayEndsWalk` (the walk of a failed play is over before the next play starts) and
  `ForcedIsStamped` (the forced re-route's stamp is written with the walk it starts) are
  what the continuation and the forced probe need. All five properties of `walk_full`
  follow.
* `MangaAppProofs`. As in the walk, keys and answers are functions on a world, and each has
  a lemma saying that it keeps `Holds`; a worker's own steps, the disk and the tracker come
  on top. None of the four invariants of `manga_full` is inductive. `MarksMirrorStore`
  needs an undo whose earlier row is of the same manga and chapter as the undo (`MarksHold`),
  or undoing would restore another chapter's mark. `WrittenWhereRead` needs what a viewer
  was opened on and what undo would bring back to be such rows too (`RowsHold`), and hence
  that the rows, chapters and cached lists on screen belong to the source and manga they are
  shown under, with answers of earlier searches and sources still to come
  (`ListsAreOwn`). `WaitsAreAnswered` needs, for each flag, the live worker whose answer
  takes it down (`WaitsHold`): of page fetches exactly one, of the chapter marked, and a download
  run whose counts add up around it (`FetchHolds`); of viewers one for each pinned chapter,
  never the one being fetched (`ViewersHold`). Handlers pass through worlds that have taken
  an answer and not yet started the next fetch; `Unfetched` is what holds there.
  `SyncedIsOnServer` needs one push at a time and what it carries: what it read is no less
  than what the store noted for that manga, and what it said is on the tracker, which only
  grows (`PushesHold`).
* `TransfersProofs`. `SavingInv` (types; a worker runs for the download on screen and under an
  id the show's files will not leave; a child writes to a file that exists and for the
  episode it was started for) gives `DownloadsAreFound`. `ReadingInv` says that a page under
  its final name is whole and on the disk unless its sync failed unheard, and that a fetch
  has gone past only pages that are there.
  `Sound` says what a file holds: of each `.part`, that its blocks are the episode's; of the
  worker's own, how far it is whole at each control point; of a final file, that all of it
  is one link's and on the disk, or that it was published unsynced. `Backed` says the same of
  every disk a power loss may go back to. With them, `PublishesWholeFiles` maps every step
  to a step of `AtomicFiles`: the two renames publish, `MoveFiles` moves, the marker seals,
  the two paths without a sync are `Unsynced`, a power loss is an `Outage`, and everything else
  leaves the published names alone. It assumes
  `OneLink`: an episode whose file may be resumed, or written by a child left behind, has one
  link only. The code does not guarantee that; run `spliced` is the counterexample
  without it. What does not depend on it (`DownloadsAreFound`, the chapter's pages) is proved
  without it.
* `ScreensProofs`. Each component has its own invariant. `Interface`: the open section of
  recommendations is of the show on the page (`ForItsShow`), with which the focus is never
  on what is not drawn. `DetailCover`: the fetch that may still answer is the one last asked
  for, and what is held is of the same source (`HeldFor`), although answers come back in any
  order. `Search`: a list has pages only of the query it was asked for, and only a query that
  is not empty is asked. `Feeds`: generations tell the filter sets apart (`GenerationsTell`),
  so an answer of an older one is never filed; a slot is loading exactly while the fetch of
  its next page is under way, hence whole lists. `GridCovers`: image numbers are 1..n, each in
  use for one cover or free (`NumbersHold`), a cover being fetched is loading and has one
  fetch (`FetchedOnce`), and what is on the terminal under a number is what the pool holds
  there, an eviction in the middle included. `Airing`: nothing is told past a row's mark, and
  where a row has none, past what it names or what a run or an answer may yet write to it
  (`RowsSound`, `AnswersSound`, `ReplySound`); what is named is no later than the first
  episode to air (`Reached`), so a row that is added anew starts at or after all that was
  told; and while an answer about a show is on its way, what its row names beyond that
  answer airs too late to be told before it is handled (`Waits`). `NoticesAreKept` follows:
  the mark alone would not do, since it goes with its row. `Healing`: what a healed bridge must
  be free of is more than what is shown (`Free`): the cursors of History and Schedule and the
  questions still out name rows too, and a question about a healed bridge would bring its row
  back. Each handler takes a world free of it to one that is (`Follows`), and a heal that
  finds nothing writing under the bridge frees the world of it; `JobsHold` (one question, and a heal is
  about a row of MyAnimeList's) makes the id that is put in a row's place one of the same show.
* `SessionsProofs`. `Player`: each step is one of `PlaySession` or shows its caller nothing. The
  invariant says of a player that is waited for that what is on its pipe or socket leads from
  what was read to what was told (`Leads`: the last position that counts of what is unread, or
  else what was read, is what was told), and that its watcher ends only with nothing unread
  and where nothing more can come (`WatchHolds`). So when the watcher is joined all that
  was told has been read (`ToldHolds`), and an attempt that is judged to have failed, or to be
  tried again, had told nothing. `SignIn`: a worker that asks the service or saves holds the
  callback of its own session, and the file it read is a file (`TokenHolds`); a session whose
  modal is up was not cancelled, so whatever ends it posts an answer (`ModalHolds`).
  `CommandPlay`: what played last is at its place in the list it was taken from, and the run
  goes on from that place in that list (`PlaceHolds`). That lists are in the order of the show
  is assumed (`ListingAssumption`); that they are of one length, or have the same
  episodes, is not.

Only model-checked:

* liveness (`Converges`, `RunsEnd`, `EveryEditIsHeard`, `DownloadEnds`, `WaitsEnd` - the
  catalog's `ComesBackToAniList`, `SignInEnds` but for its `ModalIsAnswered`, `PlaysReturn`, `SpanEnds` -): fairness and ENABLED
  are beyond the prover;
* `HonestAnswers` and `ReadsOn` of `screens`: what a source lists is a set that is sorted, and a
  book's page numbers are sums over its chapters, both defined by recursion over data.

Nothing that needs induction over data is claimed: orders, queues and lists are functions on
1..n whose properties are first-order.

## What the models leave out

* `AniListSync`: titles and covers of an import, authentication.
* `MalMirror`: a second process, a reconnect during a run, scores below half a point, drift
  between the two trackers' rounding.
* `SyncSchedule`: what a run does to the library (the two modules above).
* `WatchHistory`: a second show and the other translation track; the store keys every row it
  touches by them.
* `EpisodeWalk`: the translation track (switching it opens the show anew), the grid's cursor,
  the last-watched landing, store errors, the scoring of search results (a search answers
  any id its provider may match), the 64-provider ceiling of the tried mask. The
  pre-warm's spacing clock and ring only make a start do nothing, and a start is never
  forced in the model.
* `MangaApp`: store failures, dropped queue events, typing, layout, covers. Native ids are
  distinct across sources; page counts are reduced to partway and end; another device only
  raises the progress on AniList.
* `Transfers`: a file system that reorders operations on directories, a store commit lost
  with the power, free space, progress reports, `-c copy`'s container checks; the two downloaders
  share no file, so a behaviour runs one of them.
* `Player`: argument building, a second process on the socket's path, lines over 64 KiB.
  `CommandPlay`: rendering, titles, the judging of a search hit, AniSkip.
* `Catalog`: what the sources answer. `SignIn`: the interface's copy of the auth file and its
  account rows, the sync's own save, a second process's sign-in, queue drops; that both
  listeners bind one port (`login.hpp:23`, `mal_login.hpp:51-54`): each service has its own in
  the model, which lets the two overlap more than the code does.
* `Interface`: scrolling, toasts, the values of settings; its page part has two shows in
  Browse and History only. `Feeds`: rows, geometry, the cache. `DetailCover`, `GridCovers`:
  decoding, scaling, the disk cache.
* `Sources`, `MangaSources`: spelling, sealing, guards, covers, titles, the choice of a quality;
  one call at a time; which page a site sends in place of another.
* `Viewer`: the page-number overlay, archives and their names, the natural sort, the cap of
  12 megapixels; a relayout that fails is taken to keep the old layout.
* `Airing`: other rows than one show's (a notice reads one row), answers in pages, an answer
  dropped by the queue, MyAnimeList's import.
* `Healing`: characters and recommendations, the genre list, downloads (in `Transfers`), the
  pre-warm (a writer like the walk), `resume_demote` (renamed with the others), store errors
  (an answer then counts as a failed one), how long an answer stays fresh, and a sync or a
  second process that brings a bridge row back.
* Not modelled: the update check (one request behind a file cache), the wire code of catalog
  and trackers, terminal rendering and input decoding, the command line's parsing.

## Plan

What a next step would take, once its page numbers are not summed in the model: `Viewer`'s
safety, that the page on screen is the one the counter names and that its neighbours are warm.
