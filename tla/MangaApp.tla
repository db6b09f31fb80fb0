------------------------------ MODULE MangaApp ------------------------------
(***************************************************************************)
(* shigoku-manga (manga/mapp.cpp): the result list with its feeds and      *)
(* AniList recommendations, the library, the chapter list of the selected  *)
(* manga, the viewers reading chapters, the downloads, the update sweep    *)
(* and the progress push, over manga.db (mstore.cpp).                      *)
(*                                                                         *)
(* One thread handles keys and worker answers (tick); workers run beside   *)
(* it and post one answer each.  A worker whose generation was bumped is   *)
(* not `live': its answer is dropped by the handler's first line.          *)
(*                                                                         *)
(* Handlers call one another (a binding asks for chapters, chapters may    *)
(* continue a read, which opens a viewer), so each is an operator from a   *)
(* world w == [app, net, store] to the next one.                           *)
(***************************************************************************)
EXTENDS Integers, Sequences, FiniteSets

CONSTANTS Source, Manga, Al, Chapter,
          Configured,  \* the source config.source names
          None,
          Native,      \* Native[m]: the source that lists the manga
          Listed,      \* Listed[m]: its chapters in reading order
          Found,       \* Found[src]: what a search of the source answers
          Kinds,       \* Kinds[src]: the ranked feeds it has
          Ranked,      \* Ranked[src][kind][page]: a page of a feed
          Alike,       \* Alike[page]: a page of AniList recommendations
          Match,       \* Match[al][src]: the row the source finds for it
          Tracked,     \* manga whose row carries an AniList id
          Finished,    \* manga the source calls completed
          PrefetchRows,
          MaxKeys      \* bound: gestures

\* A source's lists hold its own manga; a feed has a first page, and the names
\* of feeds tell them apart.
ASSUME ListsAssumption ==
  /\ None \notin Source \cup Manga \cup Al \cup Chapter /\ None # "similar"
  /\ IsFiniteSet(Manga) /\ Manga \cap Al = {}
  /\ Configured \in Source
  /\ Native \in [Manga -> Source]
  /\ Listed \in [Manga -> Seq(Chapter)]
  /\ \A m, n \in Manga : m # n =>
        {Listed[m][i] : i \in DOMAIN Listed[m]} \cap {Listed[n][i] : i \in DOMAIN Listed[n]} = {}
  /\ Match \in [Al -> [Source -> Manga \cup {None}]]
  /\ \A al \in Al, s \in Source : Match[al][s] # None => Native[Match[al][s]] = s
  /\ \A s \in Source :
        /\ Found[s] \in Seq({m \in Manga : Native[m] = s})
        /\ \A i \in DOMAIN Kinds[s] :
              /\ Kinds[s][i] \notin {None, "similar"}
              /\ Ranked[s][Kinds[s][i]] \in Seq(Seq({m \in Manga : Native[m] = s}))
              /\ Ranked[s][Kinds[s][i]] # << >>
  /\ Alike \in Seq(Seq(Al)) /\ Alike # << >>
  /\ Tracked \subseteq Manga /\ Finished \subseteq Manga
  /\ PrefetchRows \in Nat /\ MaxKeys \in Nat

VARIABLES
  app,      \* MgApp
  net,      \* workers whose answer has not been handled
  store,    \* manga.db
  disk,     \* chapters with every page and the .complete marker
  site,     \* AniList: progress and completion of each manga
  keys      \* gestures made

vars == <<app, net, store, disk, site, keys>>

-----------------------------------------------------------------------------
(* State *)

Row == Manga \cup Al
Key == Source \X Manga           \* scoped id: source key and native id
Bound(r) == r \in Manga
OrNone(S) == S \cup {None}
ElementsOf(q) == {q[i] : i \in DOMAIN q}

Orders == {q \in [1 .. Cardinality(Manga) -> Manga] : ElementsOf(q) = Manga}

NoDownload == [on |-> FALSE, left |-> << >>, total |-> 0, done |-> 0, failed |-> 0]

MgOpenViewer == [chapter : Chapter, key : Key, number : Nat, finishes : BOOLEAN]

Progress == [key : Key, chapter : Chapter, read : BOOLEAN, resume : BOOLEAN]

\* The one-deep undo: the chapter and its row before the mark (None = no row).
MgReadUndo == [key : OrNone(Key), chapter : Chapter, prior : OrNone(Progress)]

AnyKind == UNION {ElementsOf(Kinds[v]) : v \in Source}

MgApp ==
  [view : {"search", "library"}, focus : {"list", "chapters"},
   list : Seq(Row), at : Nat, shelf : Seq(Manga), shelfAt : Nat, source : Source,
   feed : AnyKind \cup {"similar", None}, page : Nat, more : BOOLEAN, searching : BOOLEAN,
   seed : OrNone(Row), binding : OrNone(Al), held : OrNone(Manga), chapters : Seq(Chapter),
   chapterAt : Nat, loading : BOOLEAN, pending : OrNone(Manga), continuing : OrNone(Row),
   marksFor : OrNone(Key), read : SUBSET Chapter, resume : SUBSET Chapter,
   undo : OrNone(MgReadUndo), fetching : OrNone(Chapter),
   dl : [on : BOOLEAN, left : Seq(Chapter), total : Nat, done : Nat, failed : Nat],
   viewers : SUBSET MgOpenViewer, syncing : BOOLEAN, account : BOOLEAN, sweeping : BOOLEAN]

Store ==
  [followed : SUBSET Key, known : SUBSET Key, rows : SUBSET Progress,
   cache : [Key -> Seq(Chapter)], synced : [Key -> Nat], order : Seq(Manga)]

Entry == [progress : Nat, done : BOOLEAN]

\* Workers out, by the answer they will post.
MgEvent ==
  [t : {"search", "ranked", "similar"}, live : BOOLEAN, kind : OrNone(AnyKind),
   page : Nat, source : Source]
  \cup [t : {"bind"}, live : BOOLEAN, al : Al, source : Source]
  \cup [t : {"chapters"}, live : BOOLEAN, key : Key]
  \cup [t : {"pages"}, live : BOOLEAN, chapter : Chapter, phase : {"fetching", "done", "failed"}]
  \cup [t : {"viewer"}, chapter : Chapter, nth : Nat]
  \cup [t : {"sweep"}, live : BOOLEAN, jobs : Seq(Key)]
  \cup [t : {"push"}, key : Key, want : Nat, finishes : BOOLEAN,
        phase : {"read", "save", "uptodate", "failed", "pushed"}, seen : Entry]

TypeOK ==
  /\ app \in MgApp /\ net \subseteq MgEvent /\ store \in Store
  /\ disk \subseteq Chapter /\ site \in [Manga -> Entry] /\ keys \in 0 .. MaxKeys

-----------------------------------------------------------------------------
(* The selection and what belongs to it *)

RowAt(q, i) == IF i \in DOMAIN q THEN q[i] ELSE None

selected(a) == IF a.view = "library" THEN RowAt(a.shelf, a.shelfAt)
                                     ELSE RowAt(a.list, a.at)

\* A library row has its own source; a result row has the active one.
selected_source(a) == IF a.view = "library" /\ selected(a) # None
                      THEN Native[selected(a)] ELSE a.source

KeyOf(a) == <<selected_source(a), selected(a)>>

chapters_engaged(a) == selected(a) # None /\ a.held = selected(a)

\* The elements of q that are in S, in q's order.
Kept(q, S) ==
  LET kept == {i \in DOMAIN q : q[i] \in S}
      nth(k) == CHOOSE i \in kept : Cardinality({j \in kept : j <= i}) = k
  IN  [k \in 1 .. Cardinality(kept) |-> q[nth(k)]]

Clamped(i, q) == IF i > Len(q) THEN (IF Len(q) = 0 THEN 1 ELSE Len(q))
                 ELSE IF i < 1 THEN 1 ELSE i

-----------------------------------------------------------------------------
(* manga.db.  The library lists the manga read last first.                *)

RowOf(st, k, c) == {r \in st.rows : r.key = k /\ r.chapter = c}
Prior(st, k, c) == IF RowOf(st, k, c) = {} THEN None ELSE CHOOSE r \in RowOf(st, k, c) : TRUE
WithoutRow(st, k, c) == [st EXCEPT !.rows = @ \ RowOf(st, k, c)]
PutRow(st, r) == [st EXCEPT !.rows = (@ \ RowOf(st, r.key, r.chapter)) \cup {r}]

upsert_manga(st, k) == [st EXCEPT !.known = @ \cup {k}]

ReadNow(st, r) ==
  [PutRow(st, r) EXCEPT !.order = <<r.key[2]>> \o Kept(@, Manga \ {r.key[2]})]

mark_read(st, k, c) == ReadNow(st, [key |-> k, chapter |-> c, read |-> TRUE, resume |-> FALSE])

\* A finished chapter stays finished when it is read again.
set_last_page(st, k, c) ==
  ReadNow(st, [key |-> k, chapter |-> c, resume |-> TRUE,
              read |-> \E r \in RowOf(st, k, c) : r.read])

put_chapters(st, k, q) == [st EXCEPT !.cache[k] = q]

set_al_synced(st, k, n) == [st EXCEPT !.synced[k] = IF n > @ THEN n ELSE @]

library(st) == Kept(st.order, {m \in Manga : <<Native[m], m>> \in st.followed})

reload_library(w) ==
  LET rows == library(w.store)
  IN  [w EXCEPT !.app.shelf = rows, !.app.shelfAt = Clamped(@, rows)]

\* The copy the screen reads: the rows of one manga.
hydrate_progress(w, k) ==
  IF w.app.marksFor = k THEN w
  ELSE [w EXCEPT !.app.marksFor = k, !.app.undo = None,
          !.app.read = {r.chapter : r \in {x \in w.store.rows : x.key = k /\ x.read}},
          !.app.resume = {r.chapter : r \in {x \in w.store.rows : x.key = k /\ x.resume}}]

-----------------------------------------------------------------------------
(* Workers.  Bumping a generation leaves every worker of that kind behind. *)

Lists == {"search", "ranked", "similar"}

Stale(n, kinds) == {IF x.t \in kinds THEN [x EXCEPT !.live = FALSE] ELSE x : x \in n}

Spawn(w, kinds, msg) == [w EXCEPT !.net = Stale(@, kinds) \cup {msg}]

spawn_list(w, t, kind, page) ==
  Spawn(w, Lists, [t |-> t, live |-> TRUE, kind |-> kind, page |-> page,
                   source |-> w.app.source])

spawn_bind(w, al) ==
  Spawn(w, {"bind"}, [t |-> "bind", live |-> TRUE, al |-> al, source |-> w.app.source])

spawn_chapters(w, k) == Spawn(w, {"chapters"}, [t |-> "chapters", live |-> TRUE, key |-> k])

spawn_pages(w, c) == Spawn(w, {"pages"}, [t |-> "pages", live |-> TRUE, chapter |-> c,
                                          phase |-> "fetching"])

\* `nth' tells apart two viewers open on one chapter.
spawn_viewer_wait(w, c) ==
  [w EXCEPT !.net = @ \cup {[t |-> "viewer", chapter |-> c,
      nth |-> Cardinality({x \in @ : x.t = "viewer" /\ x.chapter = c})]}]

sync_ready(a) == a.account

spawn_sync_push(w, k, want, finishes) ==
  [w EXCEPT !.app.syncing = TRUE,
            !.net = @ \cup {[t |-> "push", key |-> k, want |-> want, finishes |-> finishes,
                             phase |-> "read", seen |-> [progress |-> 0, done |-> FALSE]]}]

-----------------------------------------------------------------------------
(* The result list *)

take_results(w, rows) ==
  [w EXCEPT !.app.list = rows, !.app.at = 1, !.app.held = None, !.app.pending = None,
            !.app.chapters = << >>, !.app.loading = FALSE, !.app.focus = "list",
            !.app.chapterAt = 1]

maybe_page_feed(w) ==
  LET a == w.app
  IN  IF a.searching \/ a.at + PrefetchRows <= Len(a.list) \/ ~a.more THEN w
      ELSE LET v == [w EXCEPT !.app.searching = TRUE]
           IN  IF a.feed = "similar" THEN spawn_list(v, "similar", None, a.page + 1)
               ELSE IF a.feed = None THEN w
               ELSE spawn_list(v, "ranked", a.feed, a.page + 1)

move_cursor(w, d) ==
  IF w.app.list = << >> THEN w
  ELSE maybe_page_feed([w EXCEPT !.app.at = Clamped(@ + d, w.app.list)])

move_library_cursor(w, d) ==
  IF w.app.shelf = << >> THEN w
  ELSE [w EXCEPT !.app.shelfAt = Clamped(@ + d, w.app.shelf)]

move_chapter_cursor(w, d) ==
  IF w.app.chapters = << >> THEN w
  ELSE [w EXCEPT !.app.chapterAt = Clamped(@ + d, w.app.chapters)]

\* A list starts over from its first page.
StartFeed(w, feed) ==
  [w EXCEPT !.app.feed = feed, !.app.page = 0, !.app.more = FALSE,
            !.app.searching = TRUE, !.app.view = "search", !.app.focus = "list",
            !.app.continuing = None]

open_feed(w, kind) ==
  IF kind \notin ElementsOf(Kinds[w.app.source]) THEN w
  ELSE spawn_list(StartFeed(w, kind), "ranked", kind, 1)

show_similar(w) ==
  IF w.app.seed = None THEN w
  ELSE spawn_list(StartFeed(w, "similar"), "similar", None, 1)

open_similar(w) ==
  IF selected(w.app) = None THEN w
  ELSE show_similar([w EXCEPT !.app.seed = selected(w.app)])

\* `[' and `]': the source's feeds in order, the similar feed last.
step_feed(w, d) ==
  LET a == w.app
      ring == Kinds[a.source] \o (IF a.seed # None THEN <<"similar">> ELSE << >>)
      here == {i \in DOMAIN ring : ring[i] = a.feed}
      from == IF here # {} THEN (CHOOSE i \in here : TRUE) - 1 ELSE IF d > 0 THEN -1 ELSE 0
      next == ((from + d + Len(ring)) % Len(ring)) + 1
  IN  IF ring = << >> THEN w
      ELSE IF ring[next] = "similar" THEN show_similar(w) ELSE open_feed(w, ring[next])

start_search(w) ==
  spawn_list([w EXCEPT !.app.searching = TRUE, !.app.feed = None,
                       !.app.view = "search"], "search", None, 1)

SourceScopedAnswers == {"bind", "chapters"}

SourceScoped == Lists \cup {"bind", "chapters"}

\* `s': everything that names the old source goes, with its workers.
cycle_source(w, next) ==
  LET a == w.app
  IN  IF a.view # "search" THEN w
      ELSE [w EXCEPT !.app = [a EXCEPT
                  !.source = next, !.list = << >>, !.at = 1, !.searching = FALSE,
                  !.feed = None, !.page = 0, !.more = FALSE, !.binding = None,
                  !.held = None, !.pending = None, !.chapters = << >>,
                  !.loading = FALSE, !.chapterAt = 1, !.focus = "list"],
                !.net = Stale(@, SourceScoped)]

-----------------------------------------------------------------------------
(* Chapters and the read flow *)

start_bind(w, al) ==
  IF w.app.binding = al THEN w ELSE spawn_bind([w EXCEPT !.app.binding = al], al)

\* Enter on a manga: the cached list at once, a fresh one behind it.
request_chapters(w) ==
  LET m == selected(w.app)
      k == KeyOf(w.app)
      known == [hydrate_progress(w, k) EXCEPT !.store = upsert_manga(w.store, k)]
      cached == w.store.cache[k]
      shown == IF cached = << >> THEN known
               ELSE [known EXCEPT !.app.chapters = cached, !.app.held = m,
                                  !.app.chapterAt = 1, !.app.focus = "chapters"]
  IN  IF m = None THEN w
      ELSE IF ~Bound(m) THEN start_bind(w, m)
      ELSE IF w.app.held = m THEN [w EXCEPT !.app.focus = "chapters"]
      ELSE IF w.app.pending = m THEN w
      ELSE spawn_chapters([shown EXCEPT !.app.loading = TRUE, !.app.pending = m], k)

NumberOf(m, c) == IF c \in ElementsOf(Listed[m])
                  THEN CHOOSE i \in DOMAIN Listed[m] : Listed[m][i] = c ELSE 0

\* The manga a viewer's exit will write to is pinned here.
PinFor(a, m, c) ==
  [chapter |-> c, key |-> KeyOf(a), number |-> NumberOf(m, c),
   finishes |-> m \in Finished /\ a.chapters # << >> /\ a.chapters[Len(a.chapters)] = c]

open_viewer(w, m, c) ==
  LET pin == PinFor(w.app, m, c)
      v == [w EXCEPT !.store = upsert_manga(@, KeyOf(w.app)),
                     !.app.viewers = {x \in @ : x.chapter # c} \cup {pin}]
  IN  spawn_viewer_wait(v, c)

\* Not open in a viewer already, and no chapter being fetched.
FreeToOpen(a, c) == (\A v \in a.viewers : v.chapter # c) /\ a.fetching = None

open_chapter(w) ==
  LET a == w.app
      c == a.chapters[a.chapterAt]
  IN  IF ~chapters_engaged(a) \/ a.chapterAt \notin DOMAIN a.chapters THEN w
      ELSE IF ~FreeToOpen(a, c) THEN w
      ELSE IF c \in disk THEN open_viewer(w, selected(a), c)
      ELSE spawn_pages([w EXCEPT !.app.fetching = c], c)

\* The first chapter after the highest read one; 0 when there is none.
next_unread_index(q, done) ==
  LET last == {i \in DOMAIN q : q[i] \in done /\ \A k \in DOMAIN q : q[k] \in done => k <= i}
      next == IF last = {} THEN 1 ELSE (CHOOSE i \in last : TRUE) + 1
  IN  IF next \in DOMAIN q THEN next ELSE 0

ContinueHere(w) ==
  LET i == next_unread_index(w.app.chapters, w.app.read)
  IN  IF i = 0 THEN w
      ELSE open_chapter([w EXCEPT !.app.focus = "chapters", !.app.chapterAt = i])

\* `continuing' is the code's flag, told which row it was raised for.
continue_reading(w) ==
  IF chapters_engaged(w.app) THEN ContinueHere(w)
  ELSE LET v == request_chapters(w)
       IN  IF chapters_engaged(v.app) THEN ContinueHere(v)
           ELSE [v EXCEPT !.app.continuing = selected(w.app)]

-----------------------------------------------------------------------------
(* Library, downloads, sweep *)

toggle_following(w) ==
  LET k == KeyOf(w.app)
      filled == IF chapters_engaged(w.app) /\ w.app.chapters # << >>
                THEN put_chapters(w.store, k, w.app.chapters) ELSE w.store
  IN  IF selected(w.app) = None \/ ~Bound(selected(w.app)) THEN w
      ELSE IF k \in w.store.followed
      THEN reload_library([w EXCEPT !.store.followed = @ \ {k}])
      ELSE reload_library([w EXCEPT !.store =
             [upsert_manga(filled, k) EXCEPT !.followed = @ \cup {k}]])

\* The run goes on to the i-th chapter it has left; those before are on disk.
MovedTo(dl, i) == [dl EXCEPT !.on = TRUE, !.done = @ + i - 1,
                             !.left = SubSeq(@, i + 1, Len(@))]

\* Chapters already on disk are counted and skipped.
start_next_download(w) ==
  LET q == w.app.dl.left
      waiting == {i \in DOMAIN q : q[i] \notin disk}
      i == CHOOSE x \in waiting : \A y \in waiting : x <= y
  IN  IF waiting = {} THEN [w EXCEPT !.app.dl = NoDownload]
      ELSE spawn_pages([w EXCEPT !.app.fetching = q[i],
                                 !.app.dl = MovedTo(w.app.dl, i)], q[i])

queue_downloads(w) ==
  LET a == w.app
      q == Kept(a.chapters, Chapter \ a.read)
  IN  IF ~chapters_engaged(a) \/ a.fetching # None \/ a.dl.on \/ q = << >> THEN w
      ELSE start_next_download([w EXCEPT !.app.dl =
             [NoDownload EXCEPT !.left = q, !.total = Len(q)]])

start_sweep(w) ==
  LET v == reload_library(w)
      jobs == [i \in DOMAIN v.app.shelf |-> <<Native[v.app.shelf[i]], v.app.shelf[i]>>]
  IN  IF w.app.sweeping THEN w
      ELSE IF jobs = << >> THEN v
      ELSE Spawn([v EXCEPT !.app.sweeping = TRUE], {"sweep"},
                 [t |-> "sweep", live |-> TRUE, jobs |-> jobs])

(* Progress push *)

maybe_push_progress(w, k, number, finishes) ==
  IF \/ k[2] \notin Tracked \/ ~sync_ready(w.app) \/ w.app.syncing
     \/ number = 0 \/ w.store.synced[k] >= number
  THEN w ELSE spawn_sync_push(w, k, number, finishes)

sync_selection(w) ==
  LET m == selected(w.app)
      k == KeyOf(w.app)
      v == hydrate_progress(w, k)
      q == IF chapters_engaged(v.app) THEN v.app.chapters ELSE v.store.cache[k]
      readAt == {i \in DOMAIN q : q[i] \in v.app.read}
      want == IF readAt = {} THEN 0
              ELSE NumberOf(m, q[CHOOSE i \in readAt : \A j \in readAt :
                                   NumberOf(m, q[i]) >= NumberOf(m, q[j])])
  IN  IF m = None \/ ~Bound(m) \/ m \notin Tracked \/ ~sync_ready(w.app) \/ w.app.syncing
      THEN w
      ELSE IF want = 0 THEN v
      ELSE spawn_sync_push(v, k, want, m \in Finished /\ q[Len(q)] \in v.app.read)

\* `u': the row goes back as it was, on the screen only if it is of that manga.
\* Its stamp goes back too, and its manga to any earlier place in the library.
undo_read(w, order) ==
  LET u == w.app.undo
      old == u.prior
      st == IF u.key = None THEN w.store
            ELSE IF old = None THEN WithoutRow(w.store, u.key, u.chapter)
            ELSE PutRow(w.store, old)
      onScreen == w.app.marksFor = u.key
      Back(S, had) == IF ~onScreen THEN S ELSE IF had THEN S \cup {u.chapter} ELSE S \ {u.chapter}
  IN  reload_library([w EXCEPT !.store = [st EXCEPT !.order = order],
        !.app.undo = None,
        !.app.read = Back(@, old # None /\ old.read),
        !.app.resume = Back(@, old # None /\ old.resume)])

-----------------------------------------------------------------------------
(* Worker answers.  A handler takes the world without the answer's worker. *)

Page(x) == IF x.t = "search" THEN Found[x.source]
           ELSE IF x.t = "ranked" THEN Ranked[x.source][x.kind][x.page] ELSE Alike[x.page]

HasNext(x) == IF x.t = "ranked" THEN x.page < Len(Ranked[x.source][x.kind])
              ELSE x.t = "similar" /\ x.page < Len(Alike)

\* The answer is the next page of the list that is open.
Wanted(a, x) == \/ x.t = "search"
                \/ x.page = a.page + 1 /\ a.feed = (IF x.t = "ranked" THEN x.kind ELSE "similar")

\* A later page adds the rows the list does not hold yet.
ListDone(w, x) ==
  LET v == [w EXCEPT !.app.searching = FALSE]
      filled == IF x.page = 1 THEN take_results(v, Page(x))
                ELSE [v EXCEPT !.app.list = @ \o Kept(Page(x), Row \ ElementsOf(v.app.list))]
  IN  IF ~Wanted(v.app, x) THEN v
      ELSE IF x.t = "search" THEN filled
      ELSE [filled EXCEPT !.app.page = x.page, !.app.more = HasNext(x)]

ListFailed(w, x) == [w EXCEPT !.app.searching = FALSE]

\* The row that asked becomes the source's row, wherever the list moved.
BindDone(w, x) ==
  LET v == [w EXCEPT !.app.binding = None]
      asked == {i \in DOMAIN v.app.list : v.app.list[i] = x.al}
      i == CHOOSE y \in asked : \A z \in asked : y <= z
      m == Match[x.al][x.source]
      bound == [v EXCEPT !.app.list[i] = m]
  IN  IF asked = {} THEN v
      ELSE IF m = None THEN [v EXCEPT !.app.continuing = None]
      ELSE IF v.app.view = "search" /\ v.app.at = i THEN request_chapters(bound)
      ELSE [bound EXCEPT !.app.continuing = None]

BindFailed(w, x) == [w EXCEPT !.app.binding = None, !.app.continuing = None]

\* A fresh list replaces the cached one; `r' over a cold cache fires here.
ChaptersDone(w, x, q) ==
  LET v == [w EXCEPT !.app.loading = FALSE, !.app.pending = None, !.app.chapters = q,
                     !.app.held = x.key[2], !.app.chapterAt = 1,
                     !.store = put_chapters(@, x.key, q)]
      fresh == reload_library(hydrate_progress(v, x.key))
      still == selected(fresh.app) = x.key[2] /\ q # << >>
      calm == [fresh EXCEPT !.app.continuing = None]
  IN  IF ~still THEN calm
      ELSE IF fresh.app.continuing = None THEN [fresh EXCEPT !.app.focus = "chapters"]
      ELSE continue_reading([calm EXCEPT !.app.focus = "chapters"])

ChaptersFailed(w, x) ==
  [w EXCEPT !.app.loading = FALSE, !.app.pending = None, !.app.continuing = None]

\* A download walks on; a chapter the user opened is shown if still there.
PagesDone(w, x) ==
  LET v == [w EXCEPT !.app.fetching = None]
      a == v.app
  IN  IF a.dl.on THEN start_next_download([v EXCEPT !.app.dl.done = @ + 1])
      ELSE IF chapters_engaged(a) /\ x.chapter \in ElementsOf(a.chapters)
      THEN open_viewer(v, selected(a), x.chapter)
      ELSE v

PagesFailedEnds(w, x) == [w EXCEPT !.app.fetching = None]

PagesFailed(w, x) ==
  LET v == [w EXCEPT !.app.fetching = None]
  IN  IF v.app.dl.on THEN start_next_download([v EXCEPT !.app.dl.failed = @ + 1]) ELSE v

OnScreenIfSelected(a, k) == selected(a) # None /\ KeyOf(a) = k

\* The marks on the screen are those of the manga the viewer was reading.
OnScreen(a, k) == a.marksFor = k

\* The exit is written to the manga pinned when the viewer opened.
ViewerExited(w, x, report) ==
  LET pins == {v \in w.app.viewers : v.chapter = x.chapter}
      pin == IF pins = {} THEN [chapter |-> x.chapter, key |-> None, number |-> 0,
                                finishes |-> FALSE]
             ELSE CHOOSE v \in pins : TRUE
      v == [w EXCEPT !.app.viewers = @ \ pins]
      c == x.chapter
      onScreen == OnScreen(v.app, pin.key)
      marked == [v EXCEPT
        !.store = IF pin.key = None THEN @ ELSE mark_read(@, pin.key, c),
        !.app.read = IF onScreen THEN @ \cup {c} ELSE @,
        !.app.resume = IF onScreen THEN @ \ {c} ELSE @,
        !.app.undo = [key |-> pin.key, chapter |-> c,
                      prior |-> IF pin.key = None THEN None ELSE Prior(v.store, pin.key, c)]]
      paused == [v EXCEPT
        !.store = IF pin.key = None THEN @ ELSE set_last_page(@, pin.key, c),
        !.app.resume = IF onScreen THEN @ \cup {c} ELSE @]
  IN  IF report = "none" THEN v
      ELSE IF report = "partway" THEN reload_library(paused)
      ELSE IF pin.key = None THEN marked
      ELSE maybe_push_progress(reload_library(marked), pin.key, pin.number, pin.finishes)

\* One answer per series; the list on screen follows its series.
SweepChapters(w, k, q) ==
  LET a == w.app
      shown == selected(a) # None /\ KeyOf(a) = k /\ a.held = selected(a)
  IN  [w EXCEPT !.store = put_chapters(@, k, q),
                !.app.chapters = IF shown THEN q ELSE @]

SweepFinished(w) == reload_library([w EXCEPT !.app.sweeping = FALSE])

SyncDoneAnyway(w, x) ==
  reload_library([w EXCEPT !.app.syncing = FALSE, !.store = set_al_synced(@, x.key, x.want)])

SyncDone(w, x) ==
  LET v == [w EXCEPT !.app.syncing = FALSE]
  IN  IF x.phase = "pushed"
      THEN reload_library([v EXCEPT !.store = set_al_synced(@, x.key, x.want)]) ELSE v

-----------------------------------------------------------------------------
(* What the screen says is going on *)

draw_detail(a) ==
  LET m == selected(a)
      pending == a.loading /\ a.pending = m
  IN  IF m = None THEN "nothing selected"
      ELSE IF ~Bound(m) THEN (IF a.binding = m THEN "finding it" ELSE "Enter finds it")
      ELSE IF a.held # m THEN (IF pending THEN "fetching chapters" ELSE "Enter loads")
      ELSE IF a.chapters = << >> THEN "no chapters"
      ELSE IF a.fetching # None THEN "fetching pages"
      ELSE IF a.viewers # {} THEN "viewer open"
      ELSE IF pending THEN "refreshing" ELSE "chapters"

draw_bottom(a) ==
  IF a.sweeping THEN "checking"
  ELSE IF a.searching THEN "searching"
  ELSE IF a.view = "library" THEN "library"
  ELSE IF a.list = << >> THEN "source" ELSE "results"

-----------------------------------------------------------------------------
(* Steps *)

World == [app |-> app, net |-> net, store |-> store]

Becomes(w) == /\ app' = w.app /\ net' = w.net /\ store' = w.store

\* A key the main screen acts on.
Press(w) == /\ keys < MaxKeys /\ keys' = keys + 1
            /\ Becomes(w)
            /\ UNCHANGED <<disk, site>>

PressSearch == Press(start_search(World))
PressFeed == \E kind \in ElementsOf(Kinds[app.source]) : Press(open_feed(World, kind))
PressStep == \E d \in {-1, 1} : Press(step_feed(World, d))
PressSimilar == Press(open_similar(World))
PressSource == \E next \in Source \ {app.source} : Press(cycle_source(World, next))
PressFollow == Press(toggle_following(World))
PressContinue == Press(continue_reading(World))
PressDownload == Press(queue_downloads(World))
PressSweep == Press(start_sweep(World))
PressSync == Press(sync_selection(World))
PressUndo == app.undo # None /\ \E order \in Orders : Press(undo_read(World, order))

PressLibrary ==
  LET w == reload_library(World)
      to == IF app.view = "library" THEN "search"
            ELSE IF w.app.shelf = << >> THEN "search" ELSE "library"
      v == IF app.view = "library" THEN World ELSE w
  IN  Press([v EXCEPT !.app.view = to, !.app.focus = "list", !.app.continuing = None])

InChapters == app.focus = "chapters" /\ chapters_engaged(app)

PressPane ==
  \/ app.focus = "chapters" /\ Press([World EXCEPT !.app.focus = "list"])
  \/ app.focus = "list" /\ chapters_engaged(app) /\ Press([World EXCEPT !.app.focus = "chapters"])

PressMove == \E d \in {-1, 1} :
  Press(IF InChapters THEN move_chapter_cursor(World, d)
        ELSE IF app.view = "library" THEN move_library_cursor(World, d)
        ELSE move_cursor(World, d))

PressEnter == Press(IF InChapters THEN open_chapter(World) ELSE request_chapters(World))

\* A click on a row selects it and gives it the keys.
ClickChapter == \E i \in DOMAIN app.chapters :
  /\ chapters_engaged(app)
  /\ Press([World EXCEPT !.app.focus = "chapters", !.app.chapterAt = i])

ClickRow == \E i \in DOMAIN (IF app.view = "library" THEN app.shelf ELSE app.list) :
  LET w == [World EXCEPT !.app.focus = "list"]
  IN  Press(IF app.view = "library" THEN move_library_cursor(w, i - app.shelfAt)
            ELSE move_cursor(w, i - app.at))

\* The connect overlay answers: signed in, or as before.
ConnectDone == /\ keys < MaxKeys /\ keys' = keys + 1
               /\ app' = [app EXCEPT !.account = TRUE]
               /\ UNCHANGED <<net, store, disk, site>>

Gesture == \/ PressSearch \/ PressFeed \/ PressStep \/ PressSimilar \/ PressSource
           \/ PressFollow \/ PressContinue \/ PressDownload \/ PressSweep \/ PressSync
           \/ PressUndo \/ PressLibrary \/ PressPane \/ PressMove \/ PressEnter
           \/ ClickChapter \/ ClickRow \/ ConnectDone

Without(x) == [World EXCEPT !.net = @ \ {x}]

\* The handler's first line: an answer of an older generation is dropped.
Handle(x, w) == /\ Becomes(IF x.live THEN w ELSE Without(x))
                /\ UNCHANGED <<disk, site, keys>>

ListAnswers == \E x \in {y \in net : y.t \in Lists} :
  Handle(x, ListDone(Without(x), x)) \/ Handle(x, ListFailed(Without(x), x))

BindAnswers == \E x \in {y \in net : y.t = "bind"} :
  Handle(x, BindDone(Without(x), x)) \/ Handle(x, BindFailed(Without(x), x))

ChaptersAnswer == \E x \in {y \in net : y.t = "chapters"} :
  \/ \E n \in 0 .. Len(Listed[x.key[2]]) :
       Handle(x, ChaptersDone(Without(x), x, SubSeq(Listed[x.key[2]], 1, n)))
  \/ Handle(x, ChaptersFailed(Without(x), x))

\* fetch_chapter_pages: the marker last; a failure leaves it out.
FetchPages == \E x \in {y \in net : y.t = "pages" /\ y.phase = "fetching"} :
  \/ /\ net' = (net \ {x}) \cup {[x EXCEPT !.phase = "done"]}
     /\ disk' = disk \cup {x.chapter}
     /\ UNCHANGED <<app, store, site, keys>>
  \/ /\ net' = (net \ {x}) \cup {[x EXCEPT !.phase = "failed"]}
     /\ UNCHANGED <<app, store, disk, site, keys>>

PagesAnswer == \E x \in {y \in net : y.t = "pages"} :
  \/ x.phase = "done" /\ Handle(x, PagesDone(Without(x), x))
  \/ x.phase = "failed" /\ Handle(x, PagesFailed(Without(x), x))

\* Closing a viewer; the mark moves its manga in the library's order.
ViewerCloses == \E x \in {y \in net : y.t = "viewer"}, report \in {"none", "partway", "end"} :
  LET w == ViewerExited(Without(x), x, report)
  IN  /\ Becomes(w) /\ UNCHANGED <<disk, site, keys>>

SweepAnswers == \E x \in {y \in net : y.t = "sweep"} :
  LET rest == IF Len(x.jobs) = 0 THEN World
              ELSE [World EXCEPT !.net = (@ \ {x}) \cup {[x EXCEPT !.jobs = Tail(@)]}]
  IN  \/ x.jobs = << >> /\ Handle(x, SweepFinished(Without(x)))
      \/ /\ x.jobs # << >>
         /\ \/ \E n \in 0 .. Len(Listed[Head(x.jobs)[2]]) :
                 Handle(x, SweepChapters(rest, Head(x.jobs),
                             SubSeq(Listed[Head(x.jobs)[2]], 1, n)))
            \/ Handle(x, rest)

\* push_chapter: read the entry, save only what goes forward.
PushTo(x, phase, seen) ==
  /\ net' = (net \ {x}) \cup {[x EXCEPT !.phase = phase, !.seen = seen]}
  /\ UNCHANGED <<app, store, disk, keys>>

plan_push(seen, x) == [progress |-> x.want, done |-> x.finishes \/ seen.done]

PushReads == \E x \in {y \in net : y.t = "push" /\ y.phase = "read"} :
  /\ \/ PushTo(x, "save", site[x.key[2]])
     \/ PushTo(x, "failed", x.seen)
  /\ UNCHANGED site

PushSaves == \E x \in {y \in net : y.t = "push" /\ y.phase = "save"} :
  \/ /\ x.seen.progress >= x.want
     /\ PushTo(x, "uptodate", x.seen) /\ UNCHANGED site
  \/ /\ x.seen.progress < x.want
     /\ \/ /\ \E phase \in {"pushed", "failed"} : PushTo(x, phase, x.seen)
           /\ site' = [site EXCEPT ![x.key[2]] = plan_push(x.seen, x)]
        \/ PushTo(x, "failed", x.seen) /\ UNCHANGED site

PushAnswers == \E x \in {y \in net : y.t = "push" /\ y.phase \in {"uptodate", "failed", "pushed"}} :
  /\ Becomes(SyncDone(Without(x), x))
  /\ UNCHANGED <<disk, site, keys>>

\* The user reads further somewhere else.
ReadElsewhere == \E m \in Tracked :
  /\ site[m].progress < Len(Listed[m])
  /\ site' = [site EXCEPT ![m].progress = @ + 1]
  /\ UNCHANGED <<app, net, store, disk, keys>>

Worker == \/ ListAnswers \/ BindAnswers \/ ChaptersAnswer \/ FetchPages \/ PagesAnswer
          \/ SweepAnswers \/ PushReads \/ PushSaves \/ PushAnswers

\* run: the library when there is one, else the search.
Started(followed, account, order, rows) ==
  /\ store = [followed |-> followed, known |-> followed, rows |-> rows,
              cache |-> [k \in Key |-> << >>], synced |-> [k \in Key |-> 0],
              order |-> order]
  /\ app = [view |-> IF followed = {} THEN "search" ELSE "library",
            list |-> << >>, at |-> 1, shelf |-> library(store), shelfAt |-> 1,
            focus |-> "list", source |-> Configured,
            feed |-> None, page |-> 0, more |-> FALSE, searching |-> FALSE,
            seed |-> None, binding |-> None, held |-> None, chapters |-> << >>,
            chapterAt |-> 1, loading |-> FALSE, pending |-> None,
            continuing |-> None, marksFor |-> None, read |-> {}, resume |-> {},
            undo |-> None, fetching |-> None, dl |-> NoDownload, viewers |-> {},
            syncing |-> FALSE, account |-> account, sweeping |-> FALSE]
  /\ net = {} /\ disk = {} /\ keys = 0
  /\ site = [m \in Manga |-> [progress |-> 0, done |-> FALSE]]

Init == \E followed \in SUBSET {<<Native[m], m>> : m \in Manga},
           account \in BOOLEAN, order \in Orders : Started(followed, account, order, {})

Next == Gesture \/ Worker \/ ViewerCloses \/ ReadElsewhere

Spec == Init /\ [][Next]_vars

-----------------------------------------------------------------------------
(* Properties *)

\* The read marks and resume points on the screen are the database's, for the
\* manga they were read for: whichever viewer exits, whatever is undone and
\* wherever the selection went meanwhile.
MarksMirrorStore ==
  app.marksFor # None =>
    /\ app.read = {r.chapter : r \in {x \in store.rows : x.key = app.marksFor /\ x.read}}
    /\ app.resume = {r.chapter : r \in {x \in store.rows : x.key = app.marksFor /\ x.resume}}

\* Progress is written to the manga the chapter is of, under the source that
\* lists it, and after its identity row, which the row refers to.
WrittenWhereRead ==
  \A r \in store.rows \cup app.viewers :
    /\ r.key \in store.known
    /\ r.chapter \in ElementsOf(Listed[r.key[2]])
    /\ r.key[1] = Native[r.key[2]]

\* Whatever the screen says it is waiting for is being worked on by a worker
\* whose answer will be taken, a fetch is never left marked as running, and a
\* download run accounts for all its chapters.  A chapter is read in one viewer
\* at a time, and each is waited for: its exit is what the mark, the resume page
\* and the push are made of.
Waits ==
  LET Live(t) == {x \in net : x.t = t /\ x.live}
      says == draw_detail(app)
  IN  /\ draw_bottom(app) = "searching" => \E t \in Lists : Live(t) # {}
      /\ draw_bottom(app) = "checking" => Live("sweep") # {}
      /\ says = "finding it" => \E x \in Live("bind") : x.al = selected(app)
      /\ says \in {"fetching chapters", "refreshing"} =>
            \E x \in Live("chapters") : x.key[2] = selected(app)
      /\ app.fetching # None <=> Live("pages") # {}
      /\ \A x \in Live("pages") : x.chapter = app.fetching
      /\ app.syncing <=> \E x \in net : x.t = "push"
      /\ app.dl.on => /\ app.fetching # None
                      /\ app.dl.done + app.dl.failed + Len(app.dl.left) + 1 = app.dl.total

Viewers ==
  \A c \in Chapter :
    Cardinality({x \in net : x.t = "viewer" /\ x.chapter = c})
      = Cardinality({v \in app.viewers : v.chapter = c})

WaitsAreAnswered == Waits /\ Viewers

\* What the database says AniList was told is on AniList, however pushes fail:
\* a failed push stays to be pushed again.
SyncedIsOnServer ==
  \A k \in Key : store.synced[k] <= site[k[2]].progress
=============================================================================
