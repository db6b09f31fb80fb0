--------------------------- MODULE MangaAppProofs ---------------------------
(* Theorems about MangaApp for any sources, manga, lists and bounds.  The    *)
(* handlers are functions on a world (application, workers, database); the   *)
(* lemmas say what each of them leaves of what holds between two events.     *)
EXTENDS MangaApp, FiniteSetTheorems, WellFoundedInduction, TLAPS

Worlds == [app : MgApp, net : SUBSET MgEvent, store : Store]

Timed == Lists \cup {"bind", "chapters", "pages", "sweep"}

\* The workers of some kinds that something waits for: whose answer will be
\* taken, or that sit beside a viewer or a push.
Out(n, kinds) == {x \in n : x.t \in kinds /\ (x.t \in Timed => x.live)}

Searching(n) == Out(n, Lists)
Binding(n) == Out(n, {"bind"})
Listing(n) == Out(n, {"chapters"})
Fetching(n) == Out(n, {"pages"})
Sweeping(n) == Out(n, {"sweep"})
Watching(n) == Out(n, {"viewer"})
Pushing(n) == Out(n, {"push"})

HasPage(source, feed, page) ==
    IF feed = "similar" THEN page \in DOMAIN Alike
    ELSE feed \in ElementsOf(Kinds[source]) /\ page \in DOMAIN Ranked[source][feed]

\* Every list belongs to what it is shown under: rows and coming answers to the
\* active source, chapters to their manga.
ListsAreOwn(w) ==
    LET a == w.app
    IN  /\ \A i \in DOMAIN a.list : a.list[i] \in Manga => Native[a.list[i]] = a.source
        /\ a.feed \in ElementsOf(Kinds[a.source]) \cup {"similar", None}
        /\ a.more /\ a.feed # None => HasPage(a.source, a.feed, a.page + 1)
        /\ a.held # None => ElementsOf(a.chapters) \subseteq ElementsOf(Listed[a.held])
        /\ \A k \in Key : ElementsOf(w.store.cache[k]) \subseteq ElementsOf(Listed[k[2]])
        /\ \A x \in Searching(w.net) :
              /\ x.source = a.source
              /\ x.t = "ranked" => HasPage(x.source, x.kind, x.page)
              /\ x.t = "similar" => x.page \in DOMAIN Alike
        /\ \A x \in Binding(w.net) : x.source = a.source

ReadOf(rows, k) == {r.chapter : r \in {x \in rows : x.key = k /\ x.read}}
ResumeOf(rows, k) == {r.chapter : r \in {x \in rows : x.key = k /\ x.resume}}

\* The marks are the database's, and what undo would bring back is a row of the
\* manga and chapter it was taken from.
MarksHold(w) ==
    LET a == w.app
    IN  /\ a.marksFor # None => /\ a.read = ReadOf(w.store.rows, a.marksFor)
                                /\ a.resume = ResumeOf(w.store.rows, a.marksFor)
        /\ a.undo # None /\ a.undo.prior # None =>
              a.undo.prior.key = a.undo.key /\ a.undo.prior.chapter = a.undo.chapter

Written(known, r) ==
    /\ r.key \in known
    /\ r.chapter \in ElementsOf(Listed[r.key[2]])
    /\ r.key[1] = Native[r.key[2]]

\* What is written, will be when a viewer closes, or would come back with undo.
RowsHold(w) ==
    LET a == w.app
    IN  /\ \A r \in w.store.rows \cup a.viewers : Written(w.store.known, r)
        /\ a.undo # None /\ a.undo.prior # None => Written(w.store.known, a.undo.prior)

\* A worker for every flag.
WaitsHold(w) ==
    LET a == w.app
    IN  /\ a.searching => Searching(w.net) # {}
        /\ a.sweeping => Sweeping(w.net) # {}
        /\ a.binding # None => \E x \in Binding(w.net) : x.al = a.binding
        /\ a.loading /\ a.pending # None => \E x \in Listing(w.net) : x.key[2] = a.pending

\* One page fetch at a time, for the chapter marked as being fetched; its pages
\* are on the disk when it says so, and a download run adds up around it.
FetchHolds(w, d) ==
    LET a == w.app
        F == Fetching(w.net)
    IN  /\ a.fetching # None => F # {}
        /\ \A x \in F : x.chapter = a.fetching /\ (x.phase = "done" => x.chapter \in d)
        /\ \A x, y \in F : x = y
        /\ a.dl.on => /\ a.fetching # None
                      /\ a.dl.done + a.dl.failed + Len(a.dl.left) + 1 = a.dl.total

\* One viewer for a chapter that is on the disk, and one worker waiting for it;
\* no viewer of what is being fetched.
ViewersHold(w, d) ==
    LET a == w.app
        V == Watching(w.net)
    IN  /\ \A v \in a.viewers : v.chapter \in d /\ v.chapter # a.fetching
        /\ \A u, v \in a.viewers : u.chapter = v.chapter => u = v
        /\ \A x, y \in V : x.chapter = y.chapter => x = y
        /\ \A v \in a.viewers : \E x \in V : x.chapter = v.chapter
        /\ \A x \in V : \E v \in a.viewers : v.chapter = x.chapter

\* One push at a time, and what it has read or said.
PushesHold(w, s) ==
    LET P == Pushing(w.net)
    IN  /\ w.app.syncing => P # {}
        /\ P # {} => w.app.syncing
        /\ \A x, y \in P : x = y
        /\ \A k \in Key : w.store.synced[k] <= s[k[2]].progress
        /\ \A x \in P :
              /\ x.phase = "save" =>
                    \A k \in Key : k[2] = x.key[2] => w.store.synced[k] <= x.seen.progress
              /\ x.phase = "pushed" => x.want <= s[x.key[2]].progress

\* What holds of the world between two events.
Holds(w, d, s) ==
    /\ w \in Worlds
    /\ ListsAreOwn(w) /\ MarksHold(w) /\ RowsHold(w) /\ WaitsHold(w)
    /\ FetchHolds(w, d) /\ ViewersHold(w, d) /\ PushesHold(w, s)

ShelvesHold == TypeOK /\ Holds(World, disk, site)

-----------------------------------------------------------------------------
(* Sequences and numbers *)

LEMMA Least ==
    ASSUME NEW S, S \subseteq Nat, S # {}
    PROVE  \E k \in S : \A i \in S : k <= i
<1>1. PICK k \in S : \A i \in S : ~(<<i, k>> \in OpToRel(<, Nat))
  BY NatLessThanWellFounded, WFMin
<1>2. \A i \in S : k <= i
  <2> SUFFICES ASSUME NEW i \in S, ~(k <= i) PROVE FALSE
    OBVIOUS
  <2>1. i \in Nat /\ k \in Nat /\ i < k
    OBVIOUS
  <2>2. <<i, k>> \in OpToRel(<, Nat)
    BY <2>1 DEF OpToRel
  <2> QED
    BY <1>1, <2>2
<1> QED
  BY <1>2

\* A count that starts at 0 and grows by at most one takes every value on its
\* way, each of them first where it grows.
LEMMA CountsThrough ==
    ASSUME NEW n \in Nat, NEW m \in [0 .. n -> Nat], m[0] = 0,
           \A i \in 1 .. n : m[i] = m[i - 1] \/ m[i] = m[i - 1] + 1,
           NEW k \in 1 .. m[n]
    PROVE  \E i \in 1 .. n : m[i] = k /\ m[i] = m[i - 1] + 1
<1> DEFINE A == {i \in 0 .. n : m[i] >= k}
<1>1. A \subseteq Nat /\ n \in A
  OBVIOUS
<1>2. PICK i \in A : \A j \in A : i <= j
  BY <1>1, Least
<1>3. i \in 0 .. n /\ m[i] >= k
  BY <1>2
<1>4. i # 0
  BY <1>3
<1>5. i \in 1 .. n /\ i - 1 \in 0 .. n /\ m[i - 1] \in Nat /\ m[i] \in Nat
  BY <1>3, <1>4
<1>6. m[i - 1] < k
  <2>1. i - 1 \notin A
    BY <1>2, <1>5
  <2> QED
    BY <2>1, <1>5
<1> HIDE DEF A
<1>7. m[i] = m[i - 1] \/ m[i] = m[i - 1] + 1
  BY <1>5
<1> QED
  BY <1>3, <1>5, <1>6, <1>7

\* What is kept of a list is a list of its elements: for every k up to the
\* number of kept positions there is one with k kept positions up to it.
LEMMA KeptIs ==
    ASSUME NEW T, NEW q \in Seq(T), NEW S
    PROVE  Kept(q, S) \in Seq(T) /\ ElementsOf(Kept(q, S)) \subseteq S \cap ElementsOf(q)
<1> DEFINE kept == {i \in DOMAIN q : q[i] \in S}
           upto(i) == {j \in kept : j <= i}
           nth(k) == CHOOSE i \in kept : Cardinality(upto(i)) = k
           c == Cardinality(kept)
           m == [i \in 0 .. Len(q) |-> Cardinality(upto(i))]
<1>1. DOMAIN q = 1 .. Len(q) /\ Len(q) \in Nat
  OBVIOUS
<1>2. IsFiniteSet(kept) /\ \A i : upto(i) \in SUBSET kept
  <2>1. IsFiniteSet(1 .. Len(q))
    BY <1>1, FS_Interval
  <2> QED
    BY <1>1, <2>1, FS_Subset
<1>3. c \in Nat /\ \A i : IsFiniteSet(upto(i)) /\ Cardinality(upto(i)) \in Nat
  BY <1>2, FS_Subset, FS_CardinalityType
<1>4. m \in [0 .. Len(q) -> Nat]
  BY <1>3
<1>5. m[0] = 0
  <2>1. upto(0) = {}
    BY <1>1
  <2>2. m[0] = Cardinality(upto(0))
    BY <1>1
  <2> QED
    BY <2>1, <2>2, FS_EmptySet
<1>6. m[Len(q)] = c
  <2>1. upto(Len(q)) = kept
    BY <1>1
  <2>2. m[Len(q)] = Cardinality(upto(Len(q)))
    BY <1>1
  <2> HIDE DEF m, upto, kept
  <2> QED
    BY <2>1, <2>2
<1>7. ASSUME NEW i \in 1 .. Len(q)
      PROVE  IF i \in kept THEN m[i] = m[i - 1] + 1 ELSE m[i] = m[i - 1]
  <2>1. m[i] = Cardinality(upto(i)) /\ m[i - 1] = Cardinality(upto(i - 1))
    BY <1>1
  <2>2. upto(i) = IF i \in kept THEN upto(i - 1) \cup {i} ELSE upto(i - 1)
    BY <1>1
  <2>3. IsFiniteSet(upto(i - 1)) /\ i \notin upto(i - 1)
    <3>1. ~(i <= i - 1)
      OBVIOUS
    <3> QED
      BY <1>3, <3>1
  <2> DEFINE U == upto(i - 1)
  <2> HIDE DEF upto, m, kept
  <2>4. Cardinality(U \cup {i}) = Cardinality(U) + 1
    BY <2>3, FS_AddElement
  <2> QED
    BY <2>1, <2>2, <2>4
<1>8. ASSUME NEW k \in 1 .. c
      PROVE  nth(k) \in kept
  <2>1. PICK i \in 1 .. Len(q) : m[i] = k /\ m[i] = m[i - 1] + 1
    <3>1. \A i \in 1 .. Len(q) : m[i] = m[i - 1] \/ m[i] = m[i - 1] + 1
      <4> HIDE DEF m, kept
      <4> QED
        BY <1>7
    <3>2. ASSUME NEW n \in Nat, n = Len(q)
          PROVE  \E i \in 1 .. n : m[i] = k /\ m[i] = m[i - 1] + 1
      <4>1. m \in [0 .. n -> Nat] /\ m[0] = 0 /\ m[n] = c
            /\ \A i \in 1 .. n : m[i] = m[i - 1] \/ m[i] = m[i - 1] + 1
        <5> HIDE DEF m, c
        <5> QED
          BY <1>4, <1>5, <1>6, <3>1, <3>2
      <4>2. k \in 1 .. m[n]
        <5> HIDE DEF m
        <5> QED
          BY <4>1
      <4> HIDE DEF m, c
      <4> QED
        BY <4>1, <4>2, CountsThrough
    <3> HIDE DEF m
    <3> QED
      BY <1>1, <3>2
  <2>2. i \in kept
    <3>1. m[i] # m[i - 1]
      <4> HIDE DEF m
      <4>1. k \in Int /\ k # k + 1
        OBVIOUS
      <4>2. m[i] = k /\ m[i] = m[i - 1] + 1
        BY <2>1
      <4> QED
        BY <4>1, <4>2
    <3> HIDE DEF m, kept, upto
    <3> QED
      BY <3>1, <1>7
  <2>3. Cardinality(upto(i)) = k
    BY <2>1, <1>1
  <2> QED
    BY <2>2, <2>3
<1>9. Kept(q, S) = [k \in 1 .. c |-> q[nth(k)]]
  BY DEF Kept
<1>10. \A k \in 1 .. c : nth(k) \in DOMAIN q /\ q[nth(k)] \in S
  BY <1>8
<1> HIDE DEF nth, c
<1> QED
  BY <1>9, <1>10, <1>3 DEF ElementsOf

LEMMA ClampedIs ==
    ASSUME NEW T, NEW q \in Seq(T), NEW i \in Int
    PROVE  Clamped(i, q) \in Nat
BY DEF Clamped

-----------------------------------------------------------------------------
(* Workers *)

LEMMA EventFields ==
    ASSUME NEW x \in MgEvent
    PROVE  /\ x.t \in Lists =>
                /\ x.live \in BOOLEAN /\ x.kind \in OrNone(AnyKind) /\ x.page \in Nat
                /\ x.source \in Source
           /\ x.t = "bind" => x.live \in BOOLEAN /\ x.al \in Al /\ x.source \in Source
           /\ x.t = "chapters" => x.live \in BOOLEAN /\ x.key \in Key
           /\ x.t = "pages" => x.live \in BOOLEAN /\ x.chapter \in Chapter
                               /\ x.phase \in {"fetching", "done", "failed"}
           /\ x.t = "viewer" => x.chapter \in Chapter
           /\ x.t = "sweep" => x.live \in BOOLEAN /\ x.jobs \in Seq(Key)
           /\ x.t = "push" => x.key \in Key /\ x.want \in Nat /\ x.seen \in Entry
                              /\ x.phase \in {"read", "save", "uptodate", "failed", "pushed"}
BY DEF MgEvent, Lists

\* A worker whose generation is bumped stays, and nothing waits for it.
LEMMA StaleIs ==
    ASSUME NEW n, n \subseteq MgEvent, NEW kinds, kinds \subseteq Timed
    PROVE  /\ Stale(n, kinds) \subseteq MgEvent
           /\ \A K : Out(Stale(n, kinds), K) = {x \in Out(n, K) : x.t \notin kinds}
<1>1. ASSUME NEW x \in n, x.t \in kinds
      PROVE  /\ [x EXCEPT !.live = FALSE] \in MgEvent
             /\ [x EXCEPT !.live = FALSE].t = x.t
             /\ ~[x EXCEPT !.live = FALSE].live
  <2>1. x \in MgEvent /\ x.t \in Timed
    BY <1>1
  <2> QED
    BY <2>1 DEF MgEvent, Timed, Lists
<1>2. Stale(n, kinds) \subseteq MgEvent
  BY <1>1 DEF Stale
<1>3. ASSUME NEW K
      PROVE  Out(Stale(n, kinds), K) = {x \in Out(n, K) : x.t \notin kinds}
  BY <1>1 DEF Stale, Out
<1> QED
  BY <1>2, <1>3

\* A worker spawned leaves those of its kinds behind and is the one waited for.
Spawned(w, v, kinds, msg) ==
    /\ v \in Worlds /\ v.app = w.app /\ v.store = w.store
    /\ \A K, x : x \in Out(v.net, K) <=> \/ x \in Out(w.net, K) /\ x.t \notin kinds
                                         \/ x = msg /\ msg.t \in K

LEMMA SpawnIs ==
    ASSUME NEW w \in Worlds, NEW kinds, kinds \subseteq Timed,
           NEW msg \in MgEvent, msg.t \in kinds, msg.live,
           NEW v, v = Spawn(w, kinds, msg)
    PROVE  Spawned(w, v, kinds, msg)
<1>1. v.app = w.app /\ v.store = w.store /\ v.net = Stale(w.net, kinds) \cup {msg}
  BY DEF Worlds, Spawn
<1>2. /\ Stale(w.net, kinds) \subseteq MgEvent
      /\ \A K : Out(Stale(w.net, kinds), K) = {x \in Out(w.net, K) : x.t \notin kinds}
  BY StaleIs DEF Worlds
<1>3. v \in Worlds
  <2>1. v = [app |-> w.app, net |-> v.net, store |-> w.store]
    BY DEF Worlds, Spawn
  <2> QED
    BY <2>1, <1>1, <1>2 DEF Worlds
<1>4. ASSUME NEW K, NEW x
      PROVE  x \in Out(v.net, K) <=> \/ x \in Out(w.net, K) /\ x.t \notin kinds
                                     \/ x = msg /\ msg.t \in K
  <2>1. x \in Out(v.net, K) <=>
          \/ x \in Out(Stale(w.net, kinds), K)
          \/ x = msg /\ msg.t \in K
    BY <1>1 DEF Out
  <2> QED
    BY <2>1, <1>2
<1> QED
  BY <1>1, <1>3, <1>4 DEF Spawned

-----------------------------------------------------------------------------
(* What an event leaves alone *)

SameLists(w, v) ==
    /\ v.app.list = w.app.list /\ v.app.source = w.app.source
    /\ v.app.feed = w.app.feed /\ v.app.page = w.app.page /\ v.app.more = w.app.more
    /\ v.app.held = w.app.held /\ v.app.chapters = w.app.chapters
    /\ v.store.cache = w.store.cache
    /\ Searching(v.net) = Searching(w.net) /\ Binding(v.net) = Binding(w.net)

SameMarks(w, v) ==
    /\ v.app.marksFor = w.app.marksFor /\ v.app.undo = w.app.undo
    /\ v.app.read = w.app.read /\ v.app.resume = w.app.resume
    /\ v.store.rows = w.store.rows

SameRows(w, v) ==
    /\ v.app.viewers = w.app.viewers /\ v.app.undo = w.app.undo
    /\ v.store.rows = w.store.rows /\ w.store.known \subseteq v.store.known

SameWaits(w, v) ==
    /\ v.app.searching = w.app.searching /\ v.app.sweeping = w.app.sweeping
    /\ v.app.binding = w.app.binding
    /\ v.app.loading = w.app.loading /\ v.app.pending = w.app.pending
    /\ Searching(v.net) = Searching(w.net) /\ Sweeping(v.net) = Sweeping(w.net)
    /\ Binding(v.net) = Binding(w.net) /\ Listing(v.net) = Listing(w.net)

SameFetch(w, v) ==
    /\ v.app.fetching = w.app.fetching /\ v.app.dl = w.app.dl
    /\ Fetching(v.net) = Fetching(w.net)

SameViewers(w, v) ==
    /\ v.app.viewers = w.app.viewers /\ v.app.fetching = w.app.fetching
    /\ Watching(v.net) = Watching(w.net)

SamePushes(w, v) ==
    /\ v.app.syncing = w.app.syncing /\ v.store.synced = w.store.synced
    /\ Pushing(v.net) = Pushing(w.net)

LEMMA Frames ==
    ASSUME NEW w, NEW v, NEW d, NEW s
    PROVE  /\ ListsAreOwn(w) /\ SameLists(w, v) => ListsAreOwn(v)
           /\ MarksHold(w) /\ SameMarks(w, v) => MarksHold(v)
           /\ RowsHold(w) /\ SameRows(w, v) => RowsHold(v)
           /\ WaitsHold(w) /\ SameWaits(w, v) => WaitsHold(v)
           /\ FetchHolds(w, d) /\ SameFetch(w, v) => FetchHolds(v, d)
           /\ ViewersHold(w, d) /\ SameViewers(w, v) => ViewersHold(v, d)
           /\ PushesHold(w, s) /\ SamePushes(w, v) => PushesHold(v, s)
<1>1. ListsAreOwn(w) /\ SameLists(w, v) => ListsAreOwn(v)
  BY DEF SameLists, ListsAreOwn
<1>2. MarksHold(w) /\ SameMarks(w, v) => MarksHold(v)
  BY DEF SameMarks, MarksHold
<1>3. RowsHold(w) /\ SameRows(w, v) => RowsHold(v)
  BY DEF SameRows, RowsHold, Written
<1>4. WaitsHold(w) /\ SameWaits(w, v) => WaitsHold(v)
  BY DEF SameWaits, WaitsHold
<1>5. FetchHolds(w, d) /\ SameFetch(w, v) => FetchHolds(v, d)
  BY DEF SameFetch, FetchHolds
<1>6. ViewersHold(w, d) /\ SameViewers(w, v) => ViewersHold(v, d)
  BY DEF SameViewers, ViewersHold
<1>7. PushesHold(w, s) /\ SamePushes(w, v) => PushesHold(v, s)
  BY DEF SamePushes, PushesHold
<1> QED
  BY <1>1, <1>2, <1>3, <1>4, <1>5, <1>6, <1>7

Same(w, v) ==
    /\ SameLists(w, v) /\ SameMarks(w, v) /\ SameRows(w, v) /\ SameWaits(w, v)
    /\ SameFetch(w, v) /\ SameViewers(w, v) /\ SamePushes(w, v)

\* What moves the cursors, the panes and the order of the library disturbs nothing.
LEMMA QuietHolds ==
    ASSUME NEW w, NEW v \in Worlds, NEW d, NEW s, Holds(w, d, s), Same(w, v)
    PROVE  Holds(v, d, s)
BY Frames DEF Holds, Same

LEMMA LibraryIs ==
    ASSUME NEW st \in Store
    PROVE  library(st) \in Seq(Manga)
BY KeptIs DEF library, Store

LEMMA ReloadHolds ==
    ASSUME NEW w, NEW d, NEW s, Holds(w, d, s), NEW v, v = reload_library(w)
    PROVE  Holds(v, d, s) /\ v.net = w.net /\ v.store = w.store
<1> DEFINE rows == library(w.store)
           i == Clamped(w.app.shelfAt, rows)
           a == [w.app EXCEPT !.shelf = rows, !.shelfAt = i]
<1>1. w \in Worlds /\ w.app \in MgApp /\ rows \in Seq(Manga)
  BY LibraryIs DEF Holds, Worlds
<1>2. i \in Nat
  <2>1. w.app.shelfAt \in Int
    BY <1>1 DEF MgApp
  <2> QED
    BY <1>1, <2>1, ClampedIs
<1>3. v = [app |-> a, net |-> w.net, store |-> w.store]
  BY <1>1 DEF Worlds, reload_library
<1> HIDE DEF rows, i
<1>4. a \in MgApp
  BY <1>1, <1>2, ZenonT(60) DEF MgApp
<1>5. v \in Worlds
  BY <1>1, <1>3, <1>4 DEF Worlds
<1>6. v.app = a /\ v.net = w.net /\ v.store = w.store
  BY <1>3
<1>7. Same(w, v)
  BY <1>1, <1>6 DEF MgApp, Same, SameLists, SameMarks, SameRows, SameWaits, SameFetch,
     SameViewers, SamePushes
<1> QED
  BY <1>6, <1>5, <1>7, QuietHolds

\* The selected row, and what it is called in the database.
LEMMA SelectedIs ==
    ASSUME NEW a \in MgApp
    PROVE  /\ selected(a) \in OrNone(Row)
           /\ a.view = "library" => selected(a) \in OrNone(Manga)
           /\ selected(a) \in Manga => /\ KeyOf(a) \in Key /\ KeyOf(a)[2] = selected(a)
                                       /\ a.view = "library" =>
                                            KeyOf(a)[1] = Native[selected(a)]
                                       /\ a.view = "search" => KeyOf(a)[1] = a.source
           /\ chapters_engaged(a) => selected(a) \in Manga
           /\ None \notin Row /\ None \notin Manga /\ None \notin Chapter
<1>1. /\ a.view \in {"search", "library"} /\ a.list \in Seq(Row) /\ a.shelf \in Seq(Manga)
      /\ a.source \in Source /\ a.held \in OrNone(Manga)
  BY DEF MgApp
<1>2. /\ selected(a) \in OrNone(Row)
      /\ a.view = "library" => selected(a) \in OrNone(Manga)
  BY <1>1 DEF selected, RowAt, OrNone, Row
<1>3. None \notin Row /\ None \notin Manga /\ None \notin Chapter
  BY ListsAssumption DEF Row
<1>4. ASSUME selected(a) \in Manga
      PROVE  /\ KeyOf(a) \in Key /\ KeyOf(a)[2] = selected(a)
             /\ a.view = "library" => KeyOf(a)[1] = Native[selected(a)]
             /\ a.view = "search" => KeyOf(a)[1] = a.source
  BY <1>1, <1>3, <1>4, ListsAssumption DEF KeyOf, Key, selected_source
<1> QED
  BY <1>1, <1>2, <1>3, <1>4 DEF chapters_engaged, OrNone

\* What is on a manga's page has the manga's own source.
LEMMA KeyIsNative ==
    ASSUME NEW w \in Worlds, ListsAreOwn(w), selected(w.app) \in Manga
    PROVE  KeyOf(w.app)[1] = Native[selected(w.app)]
<1>1. w.app \in MgApp
  BY DEF Worlds
<1>2. CASE w.app.view = "library"
  BY <1>1, <1>2, SelectedIs
<1>3. CASE w.app.view = "search"
  <2>1. selected(w.app) = RowAt(w.app.list, w.app.at) /\ None \notin Manga
    BY <1>3, <1>1, SelectedIs DEF selected
  <2>2. Native[selected(w.app)] = w.app.source
    BY <2>1 DEF RowAt, ListsAreOwn
  <2> QED
    BY <2>2, <1>1, <1>3, SelectedIs
<1> QED
  BY <1>1, <1>2, <1>3 DEF MgApp

-----------------------------------------------------------------------------
(* The marks on the screen *)

\* Only the marks and what would undo them may differ.
OnlyMarks(a, b) == b = [a EXCEPT !.marksFor = b.marksFor, !.undo = b.undo,
                                 !.read = b.read, !.resume = b.resume]

LEMMA HydrateHolds ==
    ASSUME NEW w, NEW d, NEW s, Holds(w, d, s), NEW k \in Key,
           NEW v, v = hydrate_progress(w, k)
    PROVE  /\ Holds(v, d, s) /\ v.net = w.net /\ v.store = w.store
           /\ OnlyMarks(w.app, v.app) /\ v.app.marksFor = k
<1> DEFINE read == ReadOf(w.store.rows, k)
           resume == ResumeOf(w.store.rows, k)
           a == [w.app EXCEPT !.marksFor = k, !.undo = None, !.read = read, !.resume = resume]
<1>1. w \in Worlds /\ w.app \in MgApp /\ w.store.rows \subseteq Progress
  BY DEF Holds, Worlds, Store
<1>2. read \in SUBSET Chapter /\ resume \in SUBSET Chapter
  BY <1>1 DEF ReadOf, ResumeOf, Progress
<1>3. CASE w.app.marksFor = k
  <2>1. v = w
    BY <1>3 DEF hydrate_progress
  <2>2. OnlyMarks(w.app, w.app)
    BY <1>1 DEF MgApp, OnlyMarks
  <2> QED
    BY <2>1, <2>2, <1>3
<1>4. CASE w.app.marksFor # k
  <2>1. v = [app |-> a, net |-> w.net, store |-> w.store]
    BY <1>1, <1>4 DEF Worlds, hydrate_progress, ReadOf, ResumeOf
  <2> HIDE DEF read, resume
  <2>2. None \in OrNone(MgReadUndo) /\ k \in OrNone(Key)
    BY DEF OrNone
  <2>3. a \in MgApp
    BY <1>1, <1>2, <2>2, ZenonT(60) DEF MgApp
  <2>4. v \in Worlds
    BY <1>1, <2>1, <2>3 DEF Worlds
  <2>5. v.app = a /\ v.net = w.net /\ v.store = w.store
    BY <2>1
  <2>6. SameLists(w, v) /\ SameWaits(w, v) /\ SameFetch(w, v) /\ SameViewers(w, v)
        /\ SamePushes(w, v)
    BY <1>1, <2>5 DEF MgApp, SameLists, SameWaits, SameFetch, SameViewers, SamePushes
  <2>7. /\ v.app.marksFor = k /\ v.app.undo = None /\ v.app.read = read
        /\ v.app.resume = resume /\ v.app.viewers = w.app.viewers
    BY <1>1, <2>5 DEF MgApp
  <2>8. MarksHold(v)
    BY <2>5, <2>7 DEF MarksHold, read, resume
  <2>9. RowsHold(v)
    BY <2>5, <2>7 DEF RowsHold, Holds
  <2>10. Holds(v, d, s)
    BY <2>4, <2>6, <2>8, <2>9, Frames DEF Holds
  <2>11. OnlyMarks(w.app, v.app)
    BY <1>1, <2>5, <2>7 DEF OnlyMarks
  <2> QED
    BY <2>5, <2>7, <2>10, <2>11
<1> QED
  BY <1>3, <1>4

-----------------------------------------------------------------------------
(* Searches and feeds *)

TimedKinds == {Lists, {"bind"}, {"chapters"}, {"pages"}, {"sweep"}}

SameBut(w, v, kinds) ==
    /\ kinds # Lists => Searching(v.net) = Searching(w.net)
    /\ kinds # {"bind"} => Binding(v.net) = Binding(w.net)
    /\ kinds # {"chapters"} => Listing(v.net) = Listing(w.net)
    /\ kinds # {"pages"} => Fetching(v.net) = Fetching(w.net)
    /\ kinds # {"sweep"} => Sweeping(v.net) = Sweeping(w.net)
    /\ Watching(v.net) = Watching(w.net) /\ Pushing(v.net) = Pushing(w.net)

SpawnedAs(w, v, kinds, msg) ==
    /\ v \in Worlds /\ v.app = w.app /\ v.store = w.store
    /\ Out(v.net, kinds) = {msg} /\ SameBut(w, v, kinds)

\* Each kind of worker is left behind by its own kind only.
LEMMA SpawnedAlone ==
    ASSUME NEW w \in Worlds,
           NEW kinds \in TimedKinds,
           NEW msg \in MgEvent, msg.t \in kinds, msg.live,
           NEW v, v = Spawn(w, kinds, msg)
    PROVE  SpawnedAs(w, v, kinds, msg)
<1>1. kinds \subseteq Timed
  BY DEF Timed, TimedKinds
<1>2. /\ v \in Worlds /\ v.app = w.app /\ v.store = w.store
      /\ \A K, x : x \in Out(v.net, K) <=>
                      \/ x \in Out(w.net, K) /\ x.t \notin kinds
                      \/ x = msg /\ msg.t \in K
  <2>1. Spawned(w, v, kinds, msg)
    BY <1>1, SpawnIs
  <2> QED
    BY <2>1 DEF Spawned
<1>3. Out(v.net, kinds) = {msg}
  BY <1>2 DEF Out
<1>4. ASSUME NEW K, K \cap kinds = {}
      PROVE  Out(v.net, K) = Out(w.net, K)
  <2>1. \A x \in Out(w.net, K) : x.t \notin kinds
    BY <1>4 DEF Out
  <2>2. msg.t \notin K
    BY <1>4
  <2>3. \A x : x \in Out(v.net, K) <=> x \in Out(w.net, K)
    BY <2>1, <2>2, <1>2
  <2> QED
    BY <2>3 DEF Out
<1>5. SameBut(w, v, kinds)
  BY <1>4 DEF TimedKinds, SameBut, Lists, Searching, Binding, Listing, Fetching, Sweeping, Watching, Pushing
<1> QED
  BY <1>2, <1>3, <1>5 DEF SpawnedAs

\* What an application that is about to ask for a list has changed already.
Asks(w, u) ==
    /\ u \in Worlds /\ u.net = w.net /\ ListsAreOwn(u)
    /\ SameMarks(w, u) /\ SameRows(w, u) /\ SameFetch(w, u) /\ SameViewers(w, u)
    /\ SamePushes(w, u)
    /\ u.app.sweeping = w.app.sweeping /\ u.app.binding = w.app.binding
    /\ u.app.loading = w.app.loading /\ u.app.pending = w.app.pending

LEMMA ListStarts ==
    ASSUME NEW w, NEW d, NEW s, Holds(w, d, s),
           NEW u, Asks(w, u),
           NEW t \in Lists, NEW kind \in OrNone(AnyKind), NEW page \in Nat,
           t = "ranked" => HasPage(u.app.source, kind, page),
           t = "similar" => page \in DOMAIN Alike,
           NEW v, v = spawn_list(u, t, kind, page)
    PROVE  Holds(v, d, s)
<1> DEFINE msg == [t |-> t, live |-> TRUE, kind |-> kind, page |-> page, source |-> u.app.source]
<1>1. msg \in MgEvent /\ msg.t \in Lists /\ msg.live
  <2>1. u.app.source \in Source
    BY DEF Asks, Worlds, MgApp
  <2> QED
    BY <2>1 DEF MgEvent, Lists
<1>2. v = Spawn(u, Lists, msg)
  BY DEF spawn_list
<1>3. /\ msg.t = t /\ msg.kind = kind /\ msg.page = page /\ msg.source = u.app.source
  OBVIOUS
<1> HIDE DEF msg
<1>4. /\ v \in Worlds /\ v.app = u.app /\ v.store = u.store
      /\ Out(v.net, Lists) = {msg} /\ SameBut(u, v, Lists)
  <2>1. Lists \in TimedKinds /\ u \in Worlds
    BY DEF TimedKinds, Asks
  <2>2. SpawnedAs(u, v, Lists, msg)
    BY <1>1, <1>2, <2>1, SpawnedAlone
  <2> QED
    BY <2>2 DEF SpawnedAs
<1>5. /\ Searching(v.net) = {msg} /\ Binding(v.net) = Binding(w.net)
      /\ Listing(v.net) = Listing(w.net) /\ Fetching(v.net) = Fetching(w.net)
      /\ Sweeping(v.net) = Sweeping(w.net) /\ Watching(v.net) = Watching(w.net)
      /\ Pushing(v.net) = Pushing(w.net)
  BY <1>4 DEF Asks, SameBut, Searching, Lists
<1>6. ListsAreOwn(v)
  BY <1>3, <1>4, <1>5 DEF Asks, ListsAreOwn
<1>7. WaitsHold(v)
  BY <1>4, <1>5 DEF Asks, Holds, WaitsHold
<1>8. SameMarks(w, v) /\ SameRows(w, v) /\ SameFetch(w, v) /\ SameViewers(w, v)
      /\ SamePushes(w, v)
  BY <1>4, <1>5 DEF Asks, SameMarks, SameRows, SameFetch, SameViewers, SamePushes
<1> QED
  BY <1>4, <1>6, <1>7, <1>8, Frames DEF Holds

LEMMA FirstPages ==
    ASSUME NEW source \in Source, NEW kind \in ElementsOf(Kinds[source])
    PROVE  /\ kind \in AnyKind /\ kind \notin {None, "similar"}
           /\ HasPage(source, kind, 1) /\ 1 \in DOMAIN Alike
<1>1. kind \in AnyKind
  BY DEF AnyKind
<1>2. PICK i \in DOMAIN Kinds[source] : kind = Kinds[source][i]
  BY DEF ElementsOf
<1>3. /\ kind \notin {None, "similar"}
      /\ Ranked[source][kind] \in Seq(Seq({m \in Manga : Native[m] = source}))
      /\ Ranked[source][kind] # << >>
      /\ Alike \in Seq(Seq(Al)) /\ Alike # << >>
  BY <1>2, ListsAssumption
<1>4. 1 \in DOMAIN Ranked[source][kind] /\ 1 \in DOMAIN Alike
  BY <1>3
<1> QED
  BY <1>1, <1>3, <1>4 DEF HasPage

LEMMA StartFeedAsks ==
    ASSUME NEW w, NEW d, NEW s, Holds(w, d, s),
           NEW feed \in ElementsOf(Kinds[w.app.source]) \cup {"similar"},
           NEW u, u = StartFeed(w, feed)
    PROVE  Asks(w, u) /\ u.app.source = w.app.source
<1> DEFINE a == [w.app EXCEPT !.feed = feed, !.page = 0, !.more = FALSE,
                              !.searching = TRUE, !.view = "search", !.focus = "list",
                              !.continuing = None]
<1>1. w \in Worlds /\ w.app \in MgApp /\ w.app.source \in Source
  BY DEF Holds, Worlds, MgApp
<1>2. u = [app |-> a, net |-> w.net, store |-> w.store]
  BY <1>1 DEF Worlds, StartFeed
<1>3. feed \in AnyKind \cup {"similar", None} /\ None \in OrNone(Row) /\ 0 \in Nat
  BY <1>1 DEF AnyKind, OrNone
<1>4. a \in MgApp
  BY <1>1, <1>3, ZenonT(60) DEF MgApp
<1>5. u \in Worlds /\ u.app = a /\ u.net = w.net /\ u.store = w.store
  BY <1>1, <1>2, <1>4 DEF Worlds
<1>6. SameMarks(w, u) /\ SameRows(w, u) /\ SameFetch(w, u) /\ SameViewers(w, u)
      /\ SamePushes(w, u)
  BY <1>1, <1>5 DEF MgApp, SameMarks, SameRows, SameFetch, SameViewers, SamePushes
<1>7. /\ u.app.feed = feed /\ ~u.app.more /\ u.app.list = w.app.list
      /\ u.app.source = w.app.source /\ u.app.held = w.app.held
      /\ u.app.chapters = w.app.chapters
      /\ u.app.sweeping = w.app.sweeping /\ u.app.binding = w.app.binding
      /\ u.app.loading = w.app.loading /\ u.app.pending = w.app.pending
  BY <1>1, <1>5 DEF MgApp
<1> HIDE DEF a
<1>8. ListsAreOwn(u)
  BY <1>5, <1>7 DEF Holds, ListsAreOwn
<1> QED
  BY <1>5, <1>6, <1>7, <1>8 DEF Asks

\* A ranked feed of the active source, and the feed of recommendations.
LEMMA FeedsHold ==
    ASSUME NEW w, NEW d, NEW s, Holds(w, d, s), NEW kind
    PROVE  Holds(open_feed(w, kind), d, s) /\ Holds(show_similar(w), d, s)
<1>1. w.app.source \in Source
  BY DEF Holds, Worlds, MgApp
<1>2. ASSUME kind \in ElementsOf(Kinds[w.app.source])
      PROVE  Holds(spawn_list(StartFeed(w, kind), "ranked", kind, 1), d, s)
  <2> DEFINE u == StartFeed(w, kind)
  <2>1. Asks(w, u) /\ u.app.source = w.app.source
    BY <1>2, StartFeedAsks
  <2>2. HasPage(w.app.source, kind, 1) /\ kind \in OrNone(AnyKind) /\ "ranked" \in Lists
    BY <1>1, <1>2, FirstPages DEF OrNone, Lists
  <2> DEFINE v == spawn_list(u, "ranked", kind, 1)
  <2>3. 1 \in Nat /\ "ranked" # "similar" /\ HasPage(u.app.source, kind, 1)
    BY <2>1, <2>2
  <2> HIDE DEF u
  <2>4. \A x : x = v => Holds(x, d, s)
    BY <2>1, <2>2, <2>3, ListStarts
  <2> QED
    BY <2>4 DEF u
<1>3. Holds(spawn_list(StartFeed(w, "similar"), "similar", None, 1), d, s)
  <2> DEFINE u == StartFeed(w, "similar")
  <2>1. Asks(w, u) /\ u.app.source = w.app.source
    BY StartFeedAsks
  <2>2. None \in OrNone(AnyKind) /\ "similar" \in Lists /\ 1 \in DOMAIN Alike
    <3>1. Alike \in Seq(Seq(Al)) /\ Alike # << >>
      BY ListsAssumption
    <3> QED
      BY <3>1 DEF OrNone, Lists
  <2> DEFINE v == spawn_list(u, "similar", None, 1)
  <2>3. 1 \in Nat /\ "ranked" # "similar"
    OBVIOUS
  <2> HIDE DEF u
  <2>4. \A x : x = v => Holds(x, d, s)
    BY <2>1, <2>2, <2>3, ListStarts
  <2> QED
    BY <2>4 DEF u
<1> QED
  BY <1>2, <1>3 DEF open_feed, show_similar

\* Moving on to a list's next page, when the cursor comes near its end.
NowSearching(w) == [w EXCEPT !.app.searching = TRUE]

LEMMA NextPageAsks ==
    ASSUME NEW w, NEW d, NEW s, Holds(w, d, s), NEW u, u = NowSearching(w)
    PROVE  Asks(w, u) /\ u.app.source = w.app.source
<1> DEFINE a == [w.app EXCEPT !.searching = TRUE]
<1>1. w \in Worlds /\ w.app \in MgApp
  BY DEF Holds, Worlds
<1>2. u = [app |-> a, net |-> w.net, store |-> w.store]
  BY <1>1 DEF Worlds, NowSearching
<1>3. a \in MgApp
  BY <1>1, ZenonT(60) DEF MgApp
<1>4. u \in Worlds /\ u.net = w.net /\ u.store = w.store
  BY <1>1, <1>2, <1>3 DEF Worlds
<1>5. w.app \in MgApp /\ u.app = a
  BY <1>1, <1>2
<1>6. SameLists(w, u) /\ SameMarks(w, u) /\ SameRows(w, u) /\ SameFetch(w, u)
      /\ SameViewers(w, u) /\ SamePushes(w, u)
  BY <1>4, <1>5 DEF MgApp, SameLists, SameMarks, SameRows, SameFetch, SameViewers, SamePushes
<1>7. /\ u.app.sweeping = w.app.sweeping /\ u.app.binding = w.app.binding
      /\ u.app.loading = w.app.loading /\ u.app.pending = w.app.pending
      /\ u.app.source = w.app.source
  BY <1>5 DEF MgApp
<1> QED
  BY <1>4, <1>6, <1>7, Frames DEF Asks, Holds

LEMMA NextPageHolds ==
    ASSUME NEW w, NEW d, NEW s, Holds(w, d, s), NEW v, v = maybe_page_feed(w)
    PROVE  Holds(v, d, s)
<1> DEFINE u == NowSearching(w)
           page == w.app.page + 1
<1>1. Asks(w, u) /\ u.app.source = w.app.source
  BY NextPageAsks
<1>2. \/ v = w
      \/ w.app.more /\ w.app.feed = "similar" /\ v = spawn_list(u, "similar", None, page)
      \/ /\ w.app.more /\ w.app.feed \notin {None, "similar"}
         /\ v = spawn_list(u, "ranked", w.app.feed, page)
  BY DEF maybe_page_feed, NowSearching
<1>3. /\ w.app.feed \in AnyKind \cup {"similar", None} /\ page \in Nat
      /\ w.app.more /\ w.app.feed # None => HasPage(w.app.source, w.app.feed, page)
      /\ "ranked" \in Lists /\ "similar" \in Lists
  BY DEF Holds, Worlds, MgApp, ListsAreOwn, Lists
<1> HIDE DEF u, page
<1>4. CASE w.app.more /\ w.app.feed = "similar" /\ v = spawn_list(u, "similar", None, page)
  <2>1. page \in DOMAIN Alike /\ None \in OrNone(AnyKind) /\ "ranked" # "similar"
    BY <1>3, <1>4, ListsAssumption DEF HasPage, OrNone
  <2> QED
    BY <2>1, <1>1, <1>3, <1>4, ListStarts
<1>5. CASE /\ w.app.more /\ w.app.feed \notin {None, "similar"}
           /\ v = spawn_list(u, "ranked", w.app.feed, page)
  <2>1. /\ HasPage(u.app.source, w.app.feed, page) /\ w.app.feed \in OrNone(AnyKind)
        /\ "ranked" # "similar"
    BY <1>1, <1>3, <1>5 DEF OrNone
  <2> QED
    BY <2>1, <1>1, <1>3, <1>5, ListStarts
<1> QED
  BY <1>2, <1>4, <1>5

-----------------------------------------------------------------------------
(* Cursors and panes *)

\* Nothing but the cursors, the panes, the library's list and what `~' and `r'
\* remember differs.
Quiet(a, b) ==
    /\ b.list = a.list /\ b.source = a.source /\ b.feed = a.feed /\ b.page = a.page
    /\ b.more = a.more /\ b.searching = a.searching /\ b.sweeping = a.sweeping
    /\ b.binding = a.binding /\ b.held = a.held /\ b.chapters = a.chapters
    /\ b.loading = a.loading /\ b.pending = a.pending
    /\ b.marksFor = a.marksFor /\ b.read = a.read /\ b.resume = a.resume /\ b.undo = a.undo
    /\ b.fetching = a.fetching /\ b.dl = a.dl /\ b.viewers = a.viewers
    /\ b.syncing = a.syncing

LEMMA QuietAppHolds ==
    ASSUME NEW w, NEW d, NEW s, Holds(w, d, s), NEW a \in MgApp, Quiet(w.app, a),
           NEW v, v = [app |-> a, net |-> w.net, store |-> w.store]
    PROVE  Holds(v, d, s)
<1>1. v \in Worlds /\ v.app = a /\ v.net = w.net /\ v.store = w.store
  BY DEF Holds, Worlds
<1>2. Same(w, v)
  BY <1>1 DEF Quiet, Same, SameLists, SameMarks, SameRows, SameWaits, SameFetch, SameViewers,
              SamePushes
<1> QED
  BY <1>1, <1>2, QuietHolds

LEMMA CursorsHold ==
    ASSUME NEW w, NEW d, NEW s, Holds(w, d, s), NEW i \in Int
    PROVE  /\ Holds(move_cursor(w, i), d, s) /\ Holds(move_library_cursor(w, i), d, s)
           /\ Holds(move_chapter_cursor(w, i), d, s)
<1>1. w \in Worlds /\ w.app \in MgApp
  BY DEF Holds, Worlds
<1>2. /\ w.app.list \in Seq(Row) /\ w.app.shelf \in Seq(Manga) /\ w.app.chapters \in Seq(Chapter)
      /\ w.app.at + i \in Int /\ w.app.shelfAt + i \in Int /\ w.app.chapterAt + i \in Int
  <2>1. w.app.at \in Nat /\ w.app.shelfAt \in Nat /\ w.app.chapterAt \in Nat
    BY <1>1 DEF MgApp
  <2>2. /\ w.app.list \in Seq(Row) /\ w.app.shelf \in Seq(Manga)
        /\ w.app.chapters \in Seq(Chapter)
    BY <1>1 DEF MgApp
  <2> QED
    BY <2>1, <2>2
<1>3. Holds(move_cursor(w, i), d, s)
  <2> DEFINE n == Clamped(w.app.at + i, w.app.list)
             a == [w.app EXCEPT !.at = n]
             v == [app |-> a, net |-> w.net, store |-> w.store]
  <2>1. n \in Nat
    BY <1>2, ClampedIs
  <2>2. [w EXCEPT !.app.at = Clamped(@ + i, w.app.list)] = v
    BY <1>1 DEF Worlds
  <2> HIDE DEF n
  <2>3. a \in MgApp /\ Quiet(w.app, a)
    <3>1. a \in MgApp
      BY <1>1, <2>1, ZenonT(60) DEF MgApp
    <3>2. Quiet(w.app, a)
      BY <1>1 DEF MgApp, Quiet
    <3> QED
      BY <3>1, <3>2
  <2> HIDE DEF a
  <2>4. Holds(v, d, s)
    BY <2>3, QuietAppHolds
  <2> HIDE DEF v
  <2>5. Holds(maybe_page_feed(v), d, s)
    BY <2>4, NextPageHolds
  <2> QED
    BY <2>2, <2>5 DEF move_cursor
<1>4. Holds(move_library_cursor(w, i), d, s)
  <2> DEFINE n == Clamped(w.app.shelfAt + i, w.app.shelf)
             a == [w.app EXCEPT !.shelfAt = n]
             v == [app |-> a, net |-> w.net, store |-> w.store]
  <2>1. n \in Nat
    BY <1>2, ClampedIs
  <2>2. [w EXCEPT !.app.shelfAt = Clamped(@ + i, w.app.shelf)] = v
    BY <1>1 DEF Worlds
  <2> HIDE DEF n
  <2>3. a \in MgApp
    BY <1>1, <2>1, ZenonT(60) DEF MgApp
  <2>4. Quiet(w.app, a)
    BY <1>1 DEF MgApp, Quiet
  <2> HIDE DEF a
  <2>5. Holds(v, d, s)
    BY <2>3, <2>4, QuietAppHolds
  <2> QED
    BY <2>2, <2>5 DEF move_library_cursor
<1>5. Holds(move_chapter_cursor(w, i), d, s)
  <2> DEFINE n == Clamped(w.app.chapterAt + i, w.app.chapters)
             a == [w.app EXCEPT !.chapterAt = n]
             v == [app |-> a, net |-> w.net, store |-> w.store]
  <2>1. n \in Nat
    BY <1>2, ClampedIs
  <2>2. [w EXCEPT !.app.chapterAt = Clamped(@ + i, w.app.chapters)] = v
    BY <1>1 DEF Worlds
  <2> HIDE DEF n
  <2>3. a \in MgApp
    BY <1>1, <2>1, ZenonT(60) DEF MgApp
  <2>4. Quiet(w.app, a)
    BY <1>1 DEF MgApp, Quiet
  <2> HIDE DEF a
  <2>5. Holds(v, d, s)
    BY <2>3, <2>4, QuietAppHolds
  <2> QED
    BY <2>2, <2>5 DEF move_chapter_cursor
<1> QED
  BY <1>3, <1>4, <1>5

LEMMA FocusHolds ==
    ASSUME NEW w, NEW d, NEW s, Holds(w, d, s), NEW f \in {"list", "chapters"}
    PROVE  Holds([w EXCEPT !.app.focus = f], d, s)
<1> DEFINE a == [w.app EXCEPT !.focus = f]
           v == [app |-> a, net |-> w.net, store |-> w.store]
<1>1. w \in Worlds /\ w.app \in MgApp
  BY DEF Holds, Worlds
<1>2. [w EXCEPT !.app.focus = f] = v
  BY <1>1 DEF Worlds
<1>3. Quiet(w.app, a)
  BY <1>1 DEF MgApp, Quiet
<1>5. a \in MgApp
  BY <1>1, ZenonT(60) DEF MgApp
<1> HIDE DEF a
<1>6. Holds(v, d, s)
  BY <1>3, <1>5, QuietAppHolds
<1> QED
  BY <1>2, <1>6

LEMMA ContinuingHolds ==
    ASSUME NEW w, NEW d, NEW s, Holds(w, d, s), NEW r \in OrNone(Row)
    PROVE  Holds([w EXCEPT !.app.continuing = r], d, s)
<1> DEFINE a == [w.app EXCEPT !.continuing = r]
           v == [app |-> a, net |-> w.net, store |-> w.store]
<1>1. w \in Worlds /\ w.app \in MgApp
  BY DEF Holds, Worlds
<1>2. [w EXCEPT !.app.continuing = r] = v
  BY <1>1 DEF Worlds
<1>3. Quiet(w.app, a)
  BY <1>1 DEF MgApp, Quiet
<1>5. a \in MgApp
  BY <1>1, ZenonT(60) DEF MgApp
<1> HIDE DEF a
<1>6. Holds(v, d, s)
  BY <1>3, <1>5, QuietAppHolds
<1> QED
  BY <1>2, <1>6

LEMMA SeedHolds ==
    ASSUME NEW w, NEW d, NEW s, Holds(w, d, s), NEW r \in OrNone(Row)
    PROVE  Holds([w EXCEPT !.app.seed = r], d, s)
<1> DEFINE a == [w.app EXCEPT !.seed = r]
           v == [app |-> a, net |-> w.net, store |-> w.store]
<1>1. w \in Worlds /\ w.app \in MgApp
  BY DEF Holds, Worlds
<1>2. [w EXCEPT !.app.seed = r] = v
  BY <1>1 DEF Worlds
<1>3. Quiet(w.app, a)
  BY <1>1 DEF MgApp, Quiet
<1>5. a \in MgApp
  BY <1>1, ZenonT(60) DEF MgApp
<1> HIDE DEF a
<1>6. Holds(v, d, s)
  BY <1>3, <1>5, QuietAppHolds
<1> QED
  BY <1>2, <1>6

LEMMA ChapterAtHolds ==
    ASSUME NEW w, NEW d, NEW s, Holds(w, d, s), NEW i \in Nat
    PROVE  Holds([w EXCEPT !.app.focus = "chapters", !.app.chapterAt = i], d, s)
<1> DEFINE a == [w.app EXCEPT !.focus = "chapters", !.chapterAt = i]
           v == [app |-> a, net |-> w.net, store |-> w.store]
<1>1. w \in Worlds /\ w.app \in MgApp
  BY DEF Holds, Worlds
<1>2. ASSUME NEW x, x = [w EXCEPT !.app.focus = "chapters", !.app.chapterAt = i]
      PROVE  x = v
  BY <1>1, <1>2 DEF Worlds
<1>3. Quiet(w.app, a)
  BY <1>1 DEF MgApp, Quiet
<1>5. a \in MgApp
  BY <1>1, ZenonT(60) DEF MgApp
<1> HIDE DEF a
<1>6. Holds(v, d, s)
  BY <1>3, <1>5, QuietAppHolds
<1> QED
  BY <1>2, <1>6

LEMMA ViewHolds ==
    ASSUME NEW w, NEW d, NEW s, Holds(w, d, s), NEW to \in {"search", "library"}
    PROVE  Holds([w EXCEPT !.app.view = to, !.app.focus = "list", !.app.continuing = None], d, s)
<1> DEFINE a == [w.app EXCEPT !.view = to, !.focus = "list", !.continuing = None]
           v == [app |-> a, net |-> w.net, store |-> w.store]
<1>1. w \in Worlds /\ w.app \in MgApp
  BY DEF Holds, Worlds
<1>2. ASSUME NEW x, x = [w EXCEPT !.app.view = to, !.app.focus = "list", !.app.continuing = None]
      PROVE  x = v
  BY <1>1, <1>2 DEF Worlds
<1>3. Quiet(w.app, a)
  BY <1>1 DEF MgApp, Quiet
<1>4. None \in OrNone(Row)
  BY DEF OrNone
<1>5. a \in MgApp
  BY <1>1, <1>4, ZenonT(60) DEF MgApp
<1> HIDE DEF a
<1>6. Holds(v, d, s)
  BY <1>3, <1>5, QuietAppHolds
<1> QED
  BY <1>2, <1>6

-----------------------------------------------------------------------------
(* Finding a row's manga, and its chapters *)

NowBinding(w, al) == [w EXCEPT !.app.binding = al]

LEMMA BindStarts ==
    ASSUME NEW w, NEW d, NEW s, Holds(w, d, s), NEW al \in Al,
           NEW v, v = spawn_bind(NowBinding(w, al), al)
    PROVE  Holds(v, d, s)
<1> DEFINE a == [w.app EXCEPT !.binding = al]
           u == [app |-> a, net |-> w.net, store |-> w.store]
           msg == [t |-> "bind", live |-> TRUE, al |-> al, source |-> w.app.source]
<1>1. w \in Worlds /\ w.app \in MgApp
  BY DEF Holds, Worlds
<1>2. NowBinding(w, al) = u
  BY <1>1 DEF Worlds, NowBinding
<1>3. a \in MgApp
  <2>1. al \in OrNone(Al)
    BY DEF OrNone
  <2> QED
    BY <1>1, <2>1, ZenonT(60) DEF MgApp
<1>4. u \in Worlds /\ u.app = a /\ u.net = w.net /\ u.store = w.store
  BY <1>1, <1>3 DEF Worlds
<1>5. a.source = w.app.source /\ a.binding = al
  BY <1>1 DEF MgApp
<1>6. v = Spawn(u, {"bind"}, msg)
  BY <1>2, <1>4, <1>5 DEF spawn_bind
<1>7. msg \in MgEvent /\ msg.t \in {"bind"} /\ msg.live /\ msg.source = w.app.source
      /\ msg.al = al
  BY <1>1 DEF MgEvent, MgApp
<1> HIDE DEF u, msg
<1>8. /\ v \in Worlds /\ v.app = a /\ v.store = w.store
      /\ Out(v.net, {"bind"}) = {msg} /\ SameBut(u, v, {"bind"})
  <2>1. {"bind"} \in TimedKinds
    BY DEF TimedKinds
  <2>2. SpawnedAs(u, v, {"bind"}, msg)
    <3> HIDE DEF a
    <3> QED
      BY <2>1, <1>4, <1>6, <1>7, SpawnedAlone
  <2> QED
    BY <2>2, <1>4 DEF SpawnedAs
<1>9. /\ Binding(v.net) = {msg} /\ Searching(v.net) = Searching(w.net)
      /\ Listing(v.net) = Listing(w.net) /\ Fetching(v.net) = Fetching(w.net)
      /\ Sweeping(v.net) = Sweeping(w.net) /\ Watching(v.net) = Watching(w.net)
      /\ Pushing(v.net) = Pushing(w.net)
  BY <1>8, <1>4 DEF SameBut, Binding, Lists
<1>10. /\ a.list = w.app.list /\ a.feed = w.app.feed /\ a.page = w.app.page
       /\ a.more = w.app.more /\ a.held = w.app.held /\ a.chapters = w.app.chapters
       /\ a.searching = w.app.searching /\ a.sweeping = w.app.sweeping
       /\ a.loading = w.app.loading /\ a.pending = w.app.pending
  BY <1>1 DEF MgApp
<1>11. /\ a.marksFor = w.app.marksFor /\ a.undo = w.app.undo /\ a.read = w.app.read
       /\ a.resume = w.app.resume /\ a.viewers = w.app.viewers /\ a.syncing = w.app.syncing
       /\ a.fetching = w.app.fetching /\ a.dl = w.app.dl
  BY <1>1 DEF MgApp
<1> HIDE DEF a
<1>12. ListsAreOwn(v)
  BY <1>5, <1>7, <1>8, <1>9, <1>10 DEF ListsAreOwn, Holds
<1>13. WaitsHold(v)
  BY <1>5, <1>7, <1>8, <1>9, <1>10 DEF WaitsHold, Holds
<1>14. SameMarks(w, v) /\ SameRows(w, v) /\ SameFetch(w, v) /\ SameViewers(w, v)
       /\ SamePushes(w, v)
  BY <1>8, <1>9, <1>11 DEF SameMarks, SameRows, SameFetch, SameViewers, SamePushes
<1> QED
  BY <1>8, <1>12, <1>13, <1>14, Frames DEF Holds

\* Enter on an unbound row.
LEMMA StartBindHolds ==
    ASSUME NEW w, NEW d, NEW s, Holds(w, d, s), NEW al \in Al
    PROVE  Holds(start_bind(w, al), d, s)
<1>1. start_bind(w, al) = IF w.app.binding = al THEN w ELSE spawn_bind(NowBinding(w, al), al)
  BY DEF start_bind, NowBinding
<1>2. \A v : v = spawn_bind(NowBinding(w, al), al) => Holds(v, d, s)
  BY BindStarts
<1> QED
  BY <1>1, <1>2

\* The database learns of manga and of chapter lists; the progress stays.
LEMMA StoreHolds ==
    ASSUME NEW w, NEW d, NEW s, Holds(w, d, s), NEW st \in Store,
           st.rows = w.store.rows, w.store.known \subseteq st.known,
           st.synced = w.store.synced,
           \A k \in Key : ElementsOf(st.cache[k]) \subseteq ElementsOf(Listed[k[2]]),
           NEW v, v = [app |-> w.app, net |-> w.net, store |-> st]
    PROVE  Holds(v, d, s)
<1>1. v \in Worlds /\ v.app = w.app /\ v.net = w.net /\ v.store = st
  BY DEF Holds, Worlds
<1>2. ListsAreOwn(v)
  BY <1>1 DEF Holds, ListsAreOwn
<1>3. SameMarks(w, v) /\ SameRows(w, v) /\ SameWaits(w, v) /\ SameFetch(w, v)
      /\ SameViewers(w, v) /\ SamePushes(w, v)
  BY <1>1 DEF SameMarks, SameRows, SameWaits, SameFetch, SameViewers, SamePushes
<1> QED
  BY <1>1, <1>2, <1>3, Frames DEF Holds

LEMMA UpsertIs ==
    ASSUME NEW st \in Store, NEW k \in Key
    PROVE  /\ upsert_manga(st, k) \in Store /\ upsert_manga(st, k).rows = st.rows
           /\ upsert_manga(st, k).known = st.known \cup {k}
           /\ upsert_manga(st, k).synced = st.synced /\ upsert_manga(st, k).cache = st.cache
           /\ upsert_manga(st, k).followed = st.followed /\ upsert_manga(st, k).order = st.order
BY DEF Store, upsert_manga

LEMMA UpsertHolds ==
    ASSUME NEW w, NEW d, NEW s, Holds(w, d, s), NEW k \in Key,
           NEW v, v = [app |-> w.app, net |-> w.net, store |-> upsert_manga(w.store, k)]
    PROVE  Holds(v, d, s)
<1> DEFINE st == upsert_manga(w.store, k)
<1>1. w.store \in Store
  BY DEF Holds, Worlds
<1>2. /\ st \in Store /\ st.rows = w.store.rows /\ st.known = w.store.known \cup {k}
      /\ st.synced = w.store.synced /\ st.cache = w.store.cache
  BY <1>1, UpsertIs
<1>3. \A j \in Key : ElementsOf(st.cache[j]) \subseteq ElementsOf(Listed[j[2]])
  BY <1>2 DEF Holds, ListsAreOwn
<1> HIDE DEF st
<1>4. w.store.known \subseteq st.known
  BY <1>2
<1> QED
  BY <1>2, <1>3, <1>4, StoreHolds DEF st

\* A chapter list on the page of its manga.
Showing(w, m, q) == [w EXCEPT !.app.chapters = q, !.app.held = m, !.app.chapterAt = 1,
                              !.app.focus = "chapters"]

LEMMA ShownHolds ==
    ASSUME NEW w, NEW d, NEW s, Holds(w, d, s), NEW m \in Manga, NEW q \in Seq(Chapter),
           ElementsOf(q) \subseteq ElementsOf(Listed[m]),
           NEW v, v = Showing(w, m, q)
    PROVE  Holds(v, d, s)
<1> DEFINE a == [w.app EXCEPT !.chapters = q, !.held = m, !.chapterAt = 1,
                              !.focus = "chapters"]
<1>1. w \in Worlds /\ w.app \in MgApp
  BY DEF Holds, Worlds
<1>0. v = [app |-> a, net |-> w.net, store |-> w.store]
  BY <1>1 DEF Worlds, Showing
<1>2. a \in MgApp
  <2>1. m \in OrNone(Manga) /\ 1 \in Nat
    BY DEF OrNone
  <2> QED
    BY <1>1, <2>1, ZenonT(60) DEF MgApp
<1>3. v \in Worlds /\ v.app = a /\ v.net = w.net /\ v.store = w.store
  BY <1>0, <1>1, <1>2 DEF Worlds
<1>4. /\ a.chapters = q /\ a.held = m /\ a.list = w.app.list /\ a.source = w.app.source
      /\ a.feed = w.app.feed /\ a.more = w.app.more /\ a.page = w.app.page
  BY <1>1 DEF MgApp
<1>5. ListsAreOwn(v)
  <2> HIDE DEF a
  <2> QED
    BY <1>3, <1>4 DEF Holds, ListsAreOwn
<1>6. SameMarks(w, v) /\ SameRows(w, v) /\ SameWaits(w, v) /\ SameFetch(w, v)
      /\ SameViewers(w, v) /\ SamePushes(w, v)
  BY <1>1, <1>3 DEF MgApp, SameMarks, SameRows, SameWaits, SameFetch, SameViewers, SamePushes
<1> QED
  BY <1>3, <1>5, <1>6, Frames DEF Holds

NowLoading(w, m) == [w EXCEPT !.app.loading = TRUE, !.app.pending = m]

LEMMA NowLoadingIs ==
    ASSUME NEW w \in Worlds, NEW m, NEW u, u = NowLoading(w, m), w.app \in MgApp
    PROVE  u = [app |-> [w.app EXCEPT !.loading = TRUE, !.pending = m],
                net |-> w.net, store |-> w.store]
BY DEF Worlds, NowLoading, MgApp

LEMMA ListingStarts ==
    ASSUME NEW w, NEW d, NEW s, Holds(w, d, s), NEW k \in Key,
           NEW v, v = spawn_chapters(NowLoading(w, k[2]), k)
    PROVE  Holds(v, d, s)
<1> DEFINE a == [w.app EXCEPT !.loading = TRUE, !.pending = k[2]]
           u == [app |-> a, net |-> w.net, store |-> w.store]
           msg == [t |-> "chapters", live |-> TRUE, key |-> k]
<1>1. w \in Worlds /\ w.app \in MgApp
  BY DEF Holds, Worlds
<1>2. NowLoading(w, k[2]) = u
  BY <1>1, NowLoadingIs
<1>3. a \in MgApp
  <2>1. k[2] \in OrNone(Manga)
    BY DEF OrNone, Key
  <2> QED
    BY <1>1, <2>1, ZenonT(60) DEF MgApp
<1>4. u \in Worlds /\ u.app = a /\ u.net = w.net /\ u.store = w.store
  BY <1>1, <1>3 DEF Worlds
<1>5. v = Spawn(u, {"chapters"}, msg)
  BY <1>2 DEF spawn_chapters
<1>6. msg \in MgEvent /\ msg.t \in {"chapters"} /\ msg.live /\ msg.key = k
  BY DEF MgEvent
<1>7. /\ a.loading /\ a.pending = k[2] /\ a.searching = w.app.searching
      /\ a.sweeping = w.app.sweeping /\ a.binding = w.app.binding
  BY <1>1 DEF MgApp
<1>8. /\ a.list = w.app.list /\ a.source = w.app.source /\ a.feed = w.app.feed
      /\ a.page = w.app.page /\ a.more = w.app.more /\ a.held = w.app.held
      /\ a.chapters = w.app.chapters
  BY <1>1 DEF MgApp
<1>9. /\ a.marksFor = w.app.marksFor /\ a.undo = w.app.undo /\ a.read = w.app.read
      /\ a.resume = w.app.resume /\ a.viewers = w.app.viewers /\ a.syncing = w.app.syncing
      /\ a.fetching = w.app.fetching /\ a.dl = w.app.dl
  BY <1>1 DEF MgApp
<1> HIDE DEF u, a, msg
<1>10. SpawnedAs(u, v, {"chapters"}, msg)
  <2>1. {"chapters"} \in TimedKinds
    BY DEF TimedKinds
  <2> QED
    BY <2>1, <1>4, <1>5, <1>6, SpawnedAlone
<1>11. v \in Worlds /\ v.app = a /\ v.store = w.store
  BY <1>4, <1>10 DEF SpawnedAs
<1>12. /\ Binding(v.net) = Binding(w.net) /\ Searching(v.net) = Searching(w.net)
       /\ Listing(v.net) = {msg} /\ Fetching(v.net) = Fetching(w.net)
       /\ Sweeping(v.net) = Sweeping(w.net) /\ Watching(v.net) = Watching(w.net)
       /\ Pushing(v.net) = Pushing(w.net)
  BY <1>10, <1>4 DEF SpawnedAs, SameBut, Listing, Lists
<1>13. WaitsHold(v)
  BY <1>6, <1>7, <1>11, <1>12 DEF WaitsHold, Holds
<1>14. SameLists(w, v) /\ SameMarks(w, v) /\ SameRows(w, v) /\ SameFetch(w, v)
       /\ SameViewers(w, v) /\ SamePushes(w, v)
  BY <1>8, <1>9, <1>11, <1>12
  DEF SameLists, SameMarks, SameRows, SameFetch, SameViewers, SamePushes
<1> QED
  BY <1>11, <1>13, <1>14, Frames DEF Holds

\* Enter on a manga, or `r' before its chapters are there.
LEMMA RequestHolds ==
    ASSUME NEW w, NEW d, NEW s, Holds(w, d, s)
    PROVE  Holds(request_chapters(w), d, s)
<1> DEFINE m == selected(w.app)
           k == KeyOf(w.app)
           h == hydrate_progress(w, k)
           known == [h EXCEPT !.store = upsert_manga(w.store, k)]
           cached == w.store.cache[k]
           shown == IF cached = << >> THEN known ELSE Showing(known, m, cached)
           v == spawn_chapters(NowLoading(shown, m), k)
<1>1. w \in Worlds /\ w.app \in MgApp
  BY DEF Holds, Worlds
<1>2. request_chapters(w) = IF m = None THEN w
                            ELSE IF ~Bound(m) THEN start_bind(w, m)
                            ELSE IF w.app.held = m THEN [w EXCEPT !.app.focus = "chapters"]
                            ELSE IF w.app.pending = m THEN w ELSE v
  BY DEF request_chapters, NowLoading, Showing
<1>3. m \in OrNone(Row)
  BY <1>1, SelectedIs
<1>4. ASSUME m \in Al
      PROVE  Holds(start_bind(w, m), d, s)
  <2> HIDE DEF m
  <2> QED
    BY <1>4, StartBindHolds
<1>5. Holds([w EXCEPT !.app.focus = "chapters"], d, s)
  BY FocusHolds
<1>6. ASSUME m \in Manga
      PROVE  Holds(v, d, s)
  <2>1. k \in Key /\ k[2] = m
    BY <1>1, <1>6, SelectedIs
  <2>2. Holds(h, d, s) /\ h.net = w.net /\ h.store = w.store
    <3> HIDE DEF k
    <3> QED
      BY <2>1, HydrateHolds
  <2>3. known = [app |-> h.app, net |-> h.net, store |-> upsert_manga(h.store, k)]
    <3> HIDE DEF h
    <3> QED
      BY <2>2 DEF Holds, Worlds
  <2>4. Holds(known, d, s)
    <3> HIDE DEF h, k, known
    <3> QED
      BY <2>1, <2>2, <2>3, UpsertHolds
  <2>5. cached \in Seq(Chapter) /\ ElementsOf(cached) \subseteq ElementsOf(Listed[m])
    <3> HIDE DEF k, m
    <3>1. w.store \in Store
      BY <1>1 DEF Worlds
    <3>2. cached \in Seq(Chapter)
      BY <2>1, <3>1 DEF Store
    <3> QED
      BY <2>1, <3>2 DEF Holds, ListsAreOwn
  <2>6. Holds(shown, d, s)
    <3> HIDE DEF known, m, cached
    <3> QED
      BY <1>6, <2>4, <2>5, ShownHolds
  <2> HIDE DEF shown, k, m
  <2> QED
    BY <2>1, <2>6, ListingStarts
<1> HIDE DEF m, v
<1> QED
  BY <1>2, <1>3, <1>4, <1>5, <1>6 DEF Bound, OrNone, Row

-----------------------------------------------------------------------------
(* Reading *)

Joins(n, after, msg) ==
    \A K : Out(after, K) = IF msg.t \in K THEN Out(n, K) \cup {msg} ELSE Out(n, K)

LEMMA UntimedJoins ==
    ASSUME NEW n, NEW msg, msg.t \notin Timed
    PROVE  Joins(n, n \cup {msg}, msg)
<1> SUFFICES ASSUME NEW K
             PROVE  Out(n \cup {msg}, K) = IF msg.t \in K THEN Out(n, K) \cup {msg} ELSE Out(n, K)
  BY DEF Joins
<1>1. CASE msg.t \in K
  BY <1>1 DEF Out
<1>2. CASE msg.t \notin K
  BY <1>2 DEF Out
<1> QED
  BY <1>1, <1>2

\* A viewer's or a push's worker joins those out.
LEMMA ViewerJoins ==
    ASSUME NEW n, NEW after, NEW msg, Joins(n, after, msg), msg.t = "viewer"
    PROVE  /\ Watching(after) = Watching(n) \cup {msg}
           /\ Binding(after) = Binding(n) /\ Searching(after) = Searching(n)
           /\ Listing(after) = Listing(n) /\ Fetching(after) = Fetching(n)
           /\ Sweeping(after) = Sweeping(n) /\ Pushing(after) = Pushing(n)
BY DEF Joins, Watching, Binding, Searching, Listing, Fetching, Sweeping, Pushing, Lists

LEMMA PushJoins ==
    ASSUME NEW n, NEW after, NEW msg, Joins(n, after, msg), msg.t = "push"
    PROVE  /\ Pushing(after) = Pushing(n) \cup {msg}
           /\ Binding(after) = Binding(n) /\ Searching(after) = Searching(n)
           /\ Listing(after) = Listing(n) /\ Fetching(after) = Fetching(n)
           /\ Sweeping(after) = Sweeping(n) /\ Watching(after) = Watching(n)
BY DEF Joins, Watching, Binding, Searching, Listing, Fetching, Sweeping, Pushing, Lists

LEMMA NumberIs ==
    ASSUME NEW m \in Manga, NEW c
    PROVE  NumberOf(m, c) \in Nat
<1>1. Listed[m] \in Seq(Chapter)
  BY ListsAssumption
<1>2. CASE c \in ElementsOf(Listed[m])
  <2>1. \E i \in DOMAIN Listed[m] : Listed[m][i] = c
    BY <1>2 DEF ElementsOf
  <2> QED
    BY <1>1, <1>2, <2>1 DEF NumberOf
<1>3. CASE c \notin ElementsOf(Listed[m])
  BY <1>3 DEF NumberOf
<1> QED
  BY <1>2, <1>3

LEMMA PinIs ==
    ASSUME NEW w \in Worlds, ListsAreOwn(w), chapters_engaged(w.app),
           NEW c \in ElementsOf(w.app.chapters),
           NEW pin, pin = PinFor(w.app, selected(w.app), c)
    PROVE  /\ pin \in MgOpenViewer /\ pin.chapter = c /\ pin.key = KeyOf(w.app)
           /\ pin.key \in Key /\ Written({pin.key}, pin)
<1> DEFINE m == selected(w.app)
<1>1. w.app \in MgApp /\ m \in Manga /\ w.app.held = m
  BY SelectedIs DEF Worlds, chapters_engaged
<1>2. KeyOf(w.app) \in Key /\ KeyOf(w.app)[2] = m /\ KeyOf(w.app)[1] = Native[m]
  BY <1>1, SelectedIs, KeyIsNative
<1>3. c \in Chapter
  <2>1. w.app.chapters \in Seq(Chapter)
    BY <1>1 DEF MgApp
  <2> QED
    BY <2>1 DEF ElementsOf
<1>4. c \in ElementsOf(Listed[m])
  BY <1>1, SelectedIs DEF ListsAreOwn
<1>5. NumberOf(m, c) \in Nat
  BY <1>1, NumberIs
<1>6. /\ pin.chapter = c /\ pin.key = KeyOf(w.app)
  BY DEF PinFor
<1>7. pin \in MgOpenViewer
  <2> DEFINE b == m \in Finished /\ w.app.chapters # << >>
                    /\ w.app.chapters[Len(w.app.chapters)] = c
  <2>1. pin = [chapter |-> c, key |-> KeyOf(w.app), number |-> NumberOf(m, c), finishes |-> b]
    BY DEF PinFor
  <2>2. b \in BOOLEAN
    OBVIOUS
  <2> HIDE DEF b
  <2> QED
    BY <1>2, <1>3, <1>5, <2>1, <2>2 DEF MgOpenViewer
<1> QED
  BY <1>2, <1>4, <1>6, <1>7 DEF Written

LEMMA SpawnViewerIs ==
    ASSUME NEW w \in Worlds, NEW c, NEW v, v = spawn_viewer_wait(w, c)
    PROVE  v = [app |-> w.app, store |-> w.store,
                net |-> w.net \cup {[t |-> "viewer", chapter |-> c,
                   nth |-> Cardinality({x \in w.net : x.t = "viewer" /\ x.chapter = c})]}]
BY DEF Worlds, spawn_viewer_wait

Opened(w, pin) == [w EXCEPT !.app.viewers = {x \in @ : x.chapter # pin.chapter} \cup {pin}]

\* A viewer opens for a chapter on the disk that none is open for.
LEMMA ViewerOpens ==
    ASSUME NEW w, NEW d, NEW s, Holds(w, d, s), NEW pin \in MgOpenViewer,
           Written(w.store.known, pin), pin.chapter \in d, w.app.fetching # pin.chapter,
           \A x \in w.app.viewers : x.chapter # pin.chapter,
           NEW v, v = spawn_viewer_wait(Opened(w, pin), pin.chapter)
    PROVE  Holds(v, d, s)
<1> DEFINE c == pin.chapter
           views == w.app.viewers \cup {pin}
           a == [w.app EXCEPT !.viewers = views]
           beside == {x \in w.net : x.t = "viewer" /\ x.chapter = c}
           msg == [t |-> "viewer", chapter |-> c, nth |-> Cardinality(beside)]
<1>1. w \in Worlds /\ w.app \in MgApp /\ w.app.viewers \subseteq MgOpenViewer
  BY DEF Holds, Worlds, MgApp
<1>2. Opened(w, pin) = [app |-> a, net |-> w.net, store |-> w.store]
  <2>1. {x \in w.app.viewers : x.chapter # c} = w.app.viewers
    OBVIOUS
  <2>2. ASSUME NEW u, u = Opened(w, pin)
        PROVE  u = [app |-> [w.app EXCEPT !.viewers = {x \in w.app.viewers : x.chapter # c}
                                                          \cup {pin}],
                    net |-> w.net, store |-> w.store]
    BY <1>1, <2>2 DEF Worlds, Opened
  <2> QED
    BY <2>1, <2>2
<1>3. beside = {}
  <2> SUFFICES ASSUME NEW x \in beside PROVE FALSE
    OBVIOUS
  <2>1. x \in Watching(w.net)
    BY DEF Watching, Out, Timed, Lists
  <2> QED
    BY <2>1 DEF Holds, ViewersHold
<1>4. Cardinality(beside) = 0
  BY <1>3, FS_EmptySet
<1>5. msg \in MgEvent /\ msg.t = "viewer" /\ msg.chapter = c
  BY <1>4 DEF MgEvent, MgOpenViewer
<1>7. a \in MgApp
  <2>1. views \in SUBSET MgOpenViewer
    BY <1>1
  <2> HIDE DEF views
  <2> QED
    BY <1>1, <2>1, ZenonT(60) DEF MgApp
<1>6. v = [app |-> a, net |-> w.net \cup {msg}, store |-> w.store]
  <2> DEFINE u == Opened(w, pin)
  <2>1. u \in Worlds /\ u.app = a /\ u.net = w.net /\ u.store = w.store
    BY <1>1, <1>2, <1>7 DEF Worlds
  <2> HIDE DEF u
  <2>2. v = [app |-> u.app, store |-> u.store,
             net |-> u.net \cup {[t |-> "viewer", chapter |-> c,
                nth |-> Cardinality({x \in u.net : x.t = "viewer" /\ x.chapter = c})]}]
    BY <2>1, SpawnViewerIs DEF u
  <2> QED
    BY <2>1, <2>2
<1>8. a.viewers = views /\ a.fetching = w.app.fetching /\ a.undo = w.app.undo
  BY <1>1 DEF MgApp
<1> HIDE DEF msg
<1>9. v \in Worlds /\ v.app = a /\ v.net = w.net \cup {msg} /\ v.store = w.store
  BY <1>1, <1>5, <1>6, <1>7 DEF Worlds
<1>10. /\ Watching(v.net) = Watching(w.net) \cup {msg}
       /\ Binding(v.net) = Binding(w.net) /\ Searching(v.net) = Searching(w.net)
       /\ Listing(v.net) = Listing(w.net) /\ Fetching(v.net) = Fetching(w.net)
       /\ Sweeping(v.net) = Sweeping(w.net) /\ Pushing(v.net) = Pushing(w.net)
  <2>1. msg.t \notin Timed
    BY <1>5 DEF Timed, Lists
  <2>2. Joins(w.net, v.net, msg)
    BY <1>9, <2>1, UntimedJoins
  <2> QED
    BY <1>5, <2>2, ViewerJoins
<1>11. SameLists(w, v) /\ SameMarks(w, v) /\ SameWaits(w, v) /\ SameFetch(w, v)
       /\ SamePushes(w, v)
  BY <1>1, <1>9, <1>10 DEF MgApp, SameLists, SameMarks, SameWaits, SameFetch, SamePushes
<1> HIDE DEF a
<1>12. RowsHold(v)
  BY <1>8, <1>9 DEF Holds, RowsHold
<1>13. ViewersHold(v, d)
  <2>1. \A x \in views : x.chapter \in d /\ x.chapter # w.app.fetching
    BY DEF Holds, ViewersHold
  <2>2. \A x, y \in views : x.chapter = y.chapter => x = y
    BY DEF Holds, ViewersHold
  <2>3. \A x \in Watching(w.net) : x.chapter # c
    BY DEF Holds, ViewersHold
  <2>4. \A x, y \in Watching(v.net) : x.chapter = y.chapter => x = y
    BY <2>3, <1>5, <1>10 DEF Holds, ViewersHold
  <2>5. \A x \in views : \E y \in Watching(v.net) : y.chapter = x.chapter
    BY <1>5, <1>10 DEF Holds, ViewersHold
  <2>6. \A x \in Watching(v.net) : \E y \in views : y.chapter = x.chapter
    BY <1>5, <1>10 DEF Holds, ViewersHold
  <2>7. v.app.viewers = views /\ v.app.fetching = w.app.fetching
    BY <1>8, <1>9
  <2> HIDE DEF views
  <2> QED
    BY <2>1, <2>2, <2>4, <2>5, <2>6, <2>7 DEF ViewersHold
<1> QED
  BY <1>9, <1>11, <1>12, <1>13, Frames DEF Holds

LEMMA OpenViewerHolds ==
    ASSUME NEW w, NEW d, NEW s, Holds(w, d, s), chapters_engaged(w.app),
           NEW c \in ElementsOf(w.app.chapters), c \in d, w.app.fetching # c,
           \A x \in w.app.viewers : x.chapter # c,
           NEW v, v = open_viewer(w, selected(w.app), c)
    PROVE  Holds(v, d, s)
<1> DEFINE pin == PinFor(w.app, selected(w.app), c)
           k == KeyOf(w.app)
           u == [app |-> w.app, net |-> w.net, store |-> upsert_manga(w.store, k)]
<1>1. w \in Worlds /\ ListsAreOwn(w)
  BY DEF Holds
<1>2. pin \in MgOpenViewer /\ pin.chapter = c /\ pin.key = k /\ k \in Key /\ Written({pin.key}, pin)
  BY <1>1, PinIs
<1> HIDE DEF pin
<1>3. Holds(u, d, s)
  <2> HIDE DEF k
  <2> QED
    BY <1>2, UpsertHolds
<1>4. u.app = w.app /\ u.net = w.net /\ u.store = upsert_manga(w.store, k)
  OBVIOUS
<1>5. v = spawn_viewer_wait(Opened(u, pin), pin.chapter)
  <2>1. v = spawn_viewer_wait([w EXCEPT !.store = upsert_manga(@, k),
               !.app.viewers = {x \in @ : x.chapter # c} \cup {pin}], c)
    BY DEF open_viewer, pin
  <2> HIDE DEF k
  <2>2. ASSUME NEW y, y = [w EXCEPT !.store = upsert_manga(@, k),
                              !.app.viewers = {x \in @ : x.chapter # c} \cup {pin}]
        PROVE  y = Opened(u, pin)
    <3>1. y = [app |-> [w.app EXCEPT !.viewers = {x \in w.app.viewers : x.chapter # c}
                                                   \cup {pin}],
               net |-> w.net, store |-> upsert_manga(w.store, k)]
      BY <1>1, <2>2 DEF Worlds
    <3>2. Opened(u, pin) = [app |-> [w.app EXCEPT !.viewers =
                                        {x \in w.app.viewers : x.chapter # c} \cup {pin}],
                            net |-> w.net, store |-> upsert_manga(w.store, k)]
      BY <1>2 DEF Opened
    <3> QED
      BY <3>1, <3>2
  <2> QED
    BY <1>2, <2>1, <2>2
<1>6. Written(u.store.known, pin)
  <2>1. u.store.known = w.store.known \cup {k}
    BY <1>1, <1>2, <1>4, UpsertIs DEF Worlds
  <2> QED
    BY <1>2, <2>1 DEF Written
<1> HIDE DEF u, k
<1> QED
  BY <1>2, <1>3, <1>4, <1>5, <1>6, ViewerOpens

-----------------------------------------------------------------------------
(* Fetching pages *)

Unfetched(w, d, s) ==
    /\ w \in Worlds
    /\ ListsAreOwn(w) /\ MarksHold(w) /\ RowsHold(w) /\ WaitsHold(w)
    /\ ViewersHold(w, d) /\ PushesHold(w, s)
    /\ Fetching(w.net) = {}

LEMMA NothingFetched ==
    ASSUME NEW w, NEW d, NEW s, Holds(w, d, s), w.app.fetching = None
    PROVE  Unfetched(w, d, s) /\ ~w.app.dl.on
<1>1. Fetching(w.net) = {}
  <2> SUFFICES ASSUME NEW x \in Fetching(w.net) PROVE FALSE
    OBVIOUS
  <2>1. x \in MgEvent /\ x.t = "pages"
    BY DEF Fetching, Out, Holds, Worlds
  <2>2. x.chapter = None
    BY DEF Holds, FetchHolds
  <2>3. x.chapter \in Chapter
    BY <2>1, EventFields
  <2> QED
    BY <2>2, <2>3, ListsAssumption
<1>2. ~w.app.dl.on
  BY DEF Holds, FetchHolds
<1> QED
  BY <1>1, <1>2 DEF Holds, Unfetched

AddsUp(dl) == dl.done + dl.failed + Len(dl.left) + 1 = dl.total

LEMMA FetchStarts ==
    ASSUME NEW u, NEW d, NEW s, Unfetched(u, d, s), NEW c \in Chapter, u.app.fetching = c,
           u.app.dl.on => AddsUp(u.app.dl),
           NEW v, v = spawn_pages(u, c)
    PROVE  Holds(v, d, s)
<1> DEFINE msg == [t |-> "pages", live |-> TRUE, chapter |-> c, phase |-> "fetching"]
<1>1. u \in Worlds /\ {"pages"} \in TimedKinds
  BY DEF Unfetched, TimedKinds
<1>2. v = Spawn(u, {"pages"}, msg)
  BY DEF spawn_pages
<1>3. msg \in MgEvent /\ msg.t \in {"pages"} /\ msg.live /\ msg.chapter = c
      /\ msg.phase = "fetching"
  BY DEF MgEvent
<1> HIDE DEF msg
<1>4. SpawnedAs(u, v, {"pages"}, msg)
  BY <1>1, <1>2, <1>3, SpawnedAlone
<1>5. v \in Worlds /\ v.app = u.app /\ v.store = u.store
  BY <1>4 DEF SpawnedAs
<1>6. /\ Binding(v.net) = Binding(u.net) /\ Searching(v.net) = Searching(u.net)
      /\ Listing(v.net) = Listing(u.net) /\ Fetching(v.net) = {msg}
      /\ Sweeping(v.net) = Sweeping(u.net) /\ Watching(v.net) = Watching(u.net)
      /\ Pushing(v.net) = Pushing(u.net)
  BY <1>4 DEF SpawnedAs, SameBut, Fetching, Lists
<1>7. FetchHolds(v, d)
  <2>1. c # None
    BY ListsAssumption
  <2> QED
    BY <1>3, <1>5, <1>6, <2>1 DEF FetchHolds, AddsUp
<1>8. SameLists(u, v) /\ SameMarks(u, v) /\ SameRows(u, v) /\ SameWaits(u, v)
      /\ SameViewers(u, v) /\ SamePushes(u, v)
  BY <1>5, <1>6 DEF SameLists, SameMarks, SameRows, SameWaits, SameViewers, SamePushes
<1> QED
  BY <1>5, <1>7, <1>8, Frames DEF Holds, Unfetched

\* Nothing but the fetch and the download run differs.
FetchOnly(a, b) ==
    /\ b.list = a.list /\ b.source = a.source /\ b.feed = a.feed /\ b.page = a.page
    /\ b.more = a.more /\ b.searching = a.searching /\ b.sweeping = a.sweeping
    /\ b.binding = a.binding /\ b.held = a.held /\ b.chapters = a.chapters
    /\ b.loading = a.loading /\ b.pending = a.pending
    /\ b.marksFor = a.marksFor /\ b.read = a.read /\ b.resume = a.resume /\ b.undo = a.undo
    /\ b.viewers = a.viewers /\ b.syncing = a.syncing

LEMMA FetchMarked ==
    ASSUME NEW w, NEW d, NEW s, Unfetched(w, d, s), NEW a \in MgApp, FetchOnly(w.app, a),
           \A x \in w.app.viewers : x.chapter # a.fetching,
           NEW u, u = [app |-> a, net |-> w.net, store |-> w.store]
    PROVE  Unfetched(u, d, s)
<1>1. u \in Worlds /\ u.app = a /\ u.net = w.net /\ u.store = w.store
  BY DEF Unfetched, Worlds
<1>2. SameLists(w, u) /\ SameMarks(w, u) /\ SameRows(w, u) /\ SameWaits(w, u)
      /\ SamePushes(w, u)
  BY <1>1 DEF FetchOnly, SameLists, SameMarks, SameRows, SameWaits, SamePushes
<1>3. ViewersHold(u, d)
  BY <1>1 DEF FetchOnly, Unfetched, ViewersHold
<1> QED
  BY <1>1, <1>2, <1>3, Frames DEF Unfetched

\* Enter on a chapter.
LEMMA OpenChapterHolds ==
    ASSUME NEW w, NEW s, Holds(w, disk, s)
    PROVE  Holds(open_chapter(w), disk, s)
<1> DEFINE c == w.app.chapters[w.app.chapterAt]
           a == [w.app EXCEPT !.fetching = c]
           u == [app |-> a, net |-> w.net, store |-> w.store]
<1>1. w \in Worlds /\ w.app \in MgApp /\ w.app.chapters \in Seq(Chapter)
  BY DEF Holds, Worlds, MgApp
<1>2. ASSUME NEW y, y = [w EXCEPT !.app.fetching = c]
      PROVE  y = u
  BY <1>1, <1>2 DEF Worlds
<1>3. \/ open_chapter(w) = w
      \/ /\ chapters_engaged(w.app) /\ w.app.chapterAt \in DOMAIN w.app.chapters
         /\ FreeToOpen(w.app, c)
         /\ \/ c \in disk /\ open_chapter(w) = open_viewer(w, selected(w.app), c)
            \/ open_chapter(w) = spawn_pages(u, c)
  BY <1>2 DEF open_chapter
<1>4. ASSUME w.app.chapterAt \in DOMAIN w.app.chapters, FreeToOpen(w.app, c)
      PROVE  /\ c \in ElementsOf(w.app.chapters) /\ c \in Chapter /\ c # None
             /\ w.app.fetching = None
             /\ \A x \in w.app.viewers : x.chapter # c
  BY <1>1, <1>4, ListsAssumption DEF ElementsOf, FreeToOpen
<1>5. ASSUME chapters_engaged(w.app), w.app.chapterAt \in DOMAIN w.app.chapters,
             FreeToOpen(w.app, c), c \in disk
      PROVE  Holds(open_viewer(w, selected(w.app), c), disk, s)
  <2> HIDE DEF c
  <2>1. \A v : v = open_viewer(w, selected(w.app), c) => Holds(v, disk, s)
    BY <1>4, <1>5, OpenViewerHolds
  <2> QED
    BY <2>1
<1>6. ASSUME w.app.chapterAt \in DOMAIN w.app.chapters, FreeToOpen(w.app, c)
      PROVE  Holds(spawn_pages(u, c), disk, s)
  <2> HIDE DEF c
  <2>1. c \in Chapter /\ w.app.fetching = None /\ \A x \in w.app.viewers : x.chapter # c
    BY <1>4, <1>6
  <2>2. Unfetched(w, disk, s) /\ ~w.app.dl.on
    BY <2>1, NothingFetched
  <2>3. a \in MgApp
    <3>1. c \in OrNone(Chapter)
      BY <2>1 DEF OrNone
    <3> QED
      BY <1>1, <3>1, ZenonT(60) DEF MgApp
  <2>4. FetchOnly(w.app, a) /\ a.fetching = c /\ a.dl = w.app.dl
    BY <1>1 DEF MgApp, FetchOnly
  <2>5. u.app = a
    OBVIOUS
  <2> HIDE DEF a
  <2>6. Unfetched(u, disk, s)
    BY <2>1, <2>2, <2>3, <2>4, FetchMarked
  <2> HIDE DEF u
  <2>7. \A v : v = spawn_pages(u, c) => Holds(v, disk, s)
    BY <2>1, <2>2, <2>4, <2>5, <2>6, FetchStarts
  <2> QED
    BY <2>7
<1> HIDE DEF c, u
<1> QED
  BY <1>3, <1>5, <1>6

LEMMA SubSeqIs ==
    ASSUME NEW T, NEW q \in Seq(T), NEW i \in Nat \ {0}, NEW n \in 0 .. Len(q)
    PROVE  /\ SubSeq(q, i, n) \in Seq(T)
           /\ i <= n + 1 => Len(SubSeq(q, i, n)) = n - i + 1
           /\ ElementsOf(SubSeq(q, i, n)) \subseteq ElementsOf(q)
<1>1. \A j \in i .. n : j \in DOMAIN q /\ q[j] \in T
  OBVIOUS
<1>2. /\ SubSeq(q, i, n) \in Seq(T)
      /\ i <= n + 1 => Len(SubSeq(q, i, n)) = n - i + 1
  BY <1>1
<1>3. ASSUME NEW j \in DOMAIN SubSeq(q, i, n)
      PROVE  SubSeq(q, i, n)[j] \in ElementsOf(q)
  <2>1. SubSeq(q, i, n)[j] = q[i + j - 1] /\ i + j - 1 \in i .. n
    BY <1>1
  <2> QED
    BY <1>1, <2>1 DEF ElementsOf
<1> QED
  BY <1>2, <1>3 DEF ElementsOf

Downloads == [on : BOOLEAN, left : Seq(Chapter), total : Nat, done : Nat, failed : Nat]

DownloadMoves(w, i) ==
    [w EXCEPT !.app.fetching = w.app.dl.left[i], !.app.dl = MovedTo(w.app.dl, i)]

LEMMA AddsUpIs ==
    ASSUME NEW done \in Nat, NEW failed \in Nat, NEW left \in Nat, NEW i \in 1 .. left, NEW e,
           e.done = done + i - 1, e.failed = failed, e.total = done + failed + left,
           Len(e.left) = left - i
    PROVE  AddsUp(e)
BY DEF AddsUp

LEMMA MovedRunAddsUp ==
    ASSUME NEW dl \in Downloads, NEW i \in 1 .. Len(dl.left),
           dl.done + dl.failed + Len(dl.left) = dl.total
    PROVE  MovedTo(dl, i) \in Downloads /\ AddsUp(MovedTo(dl, i))
<1> DEFINE rest == SubSeq(dl.left, i + 1, Len(dl.left))
           n == dl.done + i - 1
           e == MovedTo(dl, i)
<1>1. /\ dl.left \in Seq(Chapter) /\ dl.done \in Nat /\ dl.failed \in Nat /\ dl.total \in Nat
      /\ Len(dl.left) \in Nat
  BY DEF Downloads
<1>2. n \in Nat
  BY <1>1
<1>3. rest \in Seq(Chapter) /\ Len(rest) = Len(dl.left) - i
  <2>1. i + 1 \in Nat \ {0} /\ Len(dl.left) \in 0 .. Len(dl.left)
    BY <1>1
  <2> QED
    BY <1>1, <2>1, SubSeqIs
<1>4. e = [dl EXCEPT !.on = TRUE, !.done = n, !.left = rest]
  BY DEF Downloads, MovedTo
<1> HIDE DEF rest
<1>5. /\ e.done = n /\ e.left = rest /\ e.failed = dl.failed /\ e.total = dl.total
  BY <1>4 DEF Downloads
<1>6. AddsUp(e)
  <2>1. Len(e.left) = Len(dl.left) - i /\ e.total = dl.done + dl.failed + Len(dl.left)
    BY <1>3, <1>5
  <2> HIDE DEF e
  <2> QED
    BY <1>1, <1>5, <2>1, AddsUpIs
<1> HIDE DEF n
<1>7. e \in Downloads
  BY <1>2, <1>3, <1>4, Zenon DEF Downloads
<1> QED
  BY <1>6, <1>7

LEMMA DownloadMovesHolds ==
    ASSUME NEW w, NEW d, NEW s, Unfetched(w, d, s), NEW i \in 1 .. Len(w.app.dl.left),
           w.app.dl.done + w.app.dl.failed + Len(w.app.dl.left) = w.app.dl.total,
           w.app.dl.left[i] \notin d,
           NEW v, v = spawn_pages(DownloadMoves(w, i), w.app.dl.left[i])
    PROVE  Holds(v, d, s)
<1> DEFINE q == w.app.dl.left
           c == q[i]
           dl == MovedTo(w.app.dl, i)
           a == [w.app EXCEPT !.fetching = c, !.dl = dl]
           u == [app |-> a, net |-> w.net, store |-> w.store]
<1>1. w \in Worlds /\ w.app \in MgApp
  BY DEF Unfetched, Worlds
<1>2. w.app.dl \in Downloads
  BY <1>1 DEF MgApp, Downloads
<1>3. c \in Chapter
  <2>1. q \in Seq(Chapter)
    BY <1>2 DEF Downloads
  <2> HIDE DEF q
  <2> QED
    BY <2>1 DEF q
<1>4. dl \in Downloads /\ AddsUp(dl)
  <2> DEFINE run == w.app.dl
  <2>1. run \in Downloads /\ i \in 1 .. Len(run.left) /\ run.done + run.failed + Len(run.left) = run.total
    BY <1>2
  <2> HIDE DEF run
  <2> QED
    BY <2>1, MovedRunAddsUp DEF run
<1>5. ASSUME NEW y, y = DownloadMoves(w, i)
      PROVE  y = u
  BY <1>1, <1>5 DEF Worlds, DownloadMoves
<1>6. v = spawn_pages(u, c)
  BY <1>5
<1> HIDE DEF dl, c
<1>7. a \in MgApp
  <2>1. c \in OrNone(Chapter)
    BY <1>3 DEF OrNone
  <2> QED
    BY <1>1, <1>4, <2>1, ZenonT(60) DEF MgApp, Downloads
<1>8. FetchOnly(w.app, a) /\ a.fetching = c /\ a.dl = dl
  BY <1>1 DEF MgApp, FetchOnly
<1> HIDE DEF a
<1>9. \A x \in w.app.viewers : x.chapter # a.fetching
  BY <1>8 DEF Unfetched, ViewersHold, c
<1>10. Unfetched(u, d, s) /\ u.app = a
  BY <1>7, <1>8, <1>9, FetchMarked
<1> HIDE DEF u
<1> QED
  BY <1>3, <1>4, <1>6, <1>8, <1>10, FetchStarts

\* The next chapter of a download run that is not on the disk.
LEMMA NextDownloadHolds ==
    ASSUME NEW w, NEW s, Unfetched(w, disk, s), w.app.fetching = None,
           w.app.dl.done + w.app.dl.failed + Len(w.app.dl.left) = w.app.dl.total,
           NEW v, v = start_next_download(w)
    PROVE  Holds(v, disk, s)
<1> DEFINE q == w.app.dl.left
           waiting == {i \in DOMAIN q : q[i] \notin disk}
           first == CHOOSE x \in waiting : \A y \in waiting : x <= y
           off == [w.app EXCEPT !.dl = NoDownload]
<1>1. w \in Worlds /\ w.app \in MgApp
  BY DEF Unfetched, Worlds
<1>2. q \in Seq(Chapter)
  <2>1. w.app.dl \in Downloads
    BY <1>1 DEF MgApp, Downloads
  <2> QED
    BY <2>1 DEF Downloads
<1>3. CASE waiting = {}
  <2>1. ASSUME NEW y, y = [w EXCEPT !.app.dl = NoDownload]
        PROVE  y = [app |-> off, net |-> w.net, store |-> w.store]
    BY <1>1, <2>1 DEF Worlds
  <2>2. v = [app |-> off, net |-> w.net, store |-> w.store]
    BY <1>3, <2>1 DEF start_next_download
  <2>3. off \in MgApp
    <3>1. NoDownload \in Downloads
      BY DEF NoDownload, Downloads
    <3> QED
      BY <1>1, <3>1, ZenonT(60) DEF MgApp, Downloads
  <2>4. FetchOnly(w.app, off) /\ off.fetching = w.app.fetching /\ off.dl = NoDownload
    BY <1>1 DEF MgApp, FetchOnly
  <2> HIDE DEF off
  <2>5. \A x \in w.app.viewers : x.chapter # off.fetching
    BY <2>4 DEF Unfetched, ViewersHold
  <2>6. Unfetched(v, disk, s)
    BY <2>2, <2>3, <2>4, <2>5, FetchMarked
  <2>7. FetchHolds(v, disk)
    BY <2>2, <2>4, <2>6 DEF Unfetched, FetchHolds, NoDownload
  <2> QED
    BY <2>6, <2>7 DEF Unfetched, Holds
<1>4. CASE waiting # {}
  <2>1. first \in waiting /\ first \in 1 .. Len(q)
    <3>1. DOMAIN q = 1 .. Len(q)
      BY <1>2
    <3>2. waiting \subseteq Nat
      BY <3>1
    <3>3. \E x \in waiting : \A y \in waiting : x <= y
      <4> HIDE DEF waiting
      <4> QED
        BY <1>4, <3>2, Least
    <3>4. first \in waiting
      <4> HIDE DEF waiting
      <4> QED
        BY <3>3
    <3> QED
      BY <3>1, <3>4
  <2>2. q[first] \notin disk
    <3> HIDE DEF first
    <3> QED
      BY <2>1
  <2>3. v = spawn_pages(DownloadMoves(w, first), w.app.dl.left[first])
    BY <1>4 DEF start_next_download, DownloadMoves
  <2> HIDE DEF first
  <2> QED
    BY <2>1, <2>2, <2>3, DownloadMovesHolds
<1> QED
  BY <1>3, <1>4

-----------------------------------------------------------------------------
(* The keys *)

LEMMA NextUnreadIs ==
    ASSUME NEW T, NEW q \in Seq(T), NEW done
    PROVE  next_unread_index(q, done) \in Nat
<1>1. DOMAIN q \subseteq Nat
  OBVIOUS
<1> QED
  BY <1>1 DEF next_unread_index

LEMMA ContinueHereHolds ==
    ASSUME NEW w, NEW s, Holds(w, disk, s)
    PROVE  Holds(ContinueHere(w), disk, s)
<1> DEFINE i == next_unread_index(w.app.chapters, w.app.read)
           u == [w EXCEPT !.app.focus = "chapters", !.app.chapterAt = i]
<1>1. i \in Nat
  <2>1. w.app.chapters \in Seq(Chapter)
    BY DEF Holds, Worlds, MgApp
  <2> QED
    BY <2>1, NextUnreadIs
<1>2. ContinueHere(w) = IF i = 0 THEN w ELSE open_chapter(u)
  BY DEF ContinueHere
<1>3. Holds(u, disk, s)
  <2> HIDE DEF i
  <2> QED
    BY <1>1, ChapterAtHolds
<1>4. Holds(open_chapter(u), disk, s)
  <2> HIDE DEF u
  <2> QED
    BY <1>3, OpenChapterHolds
<1> QED
  BY <1>2, <1>4

\* `r': on to the next chapter, through its manga's list when that is not here.
LEMMA ContinueReadingHolds ==
    ASSUME NEW w, NEW s, Holds(w, disk, s)
    PROVE  Holds(continue_reading(w), disk, s)
<1> DEFINE u == request_chapters(w)
           r == selected(w.app)
<1>1. Holds(u, disk, s)
  BY RequestHolds
<1>2. r \in OrNone(Row)
  <2>1. w.app \in MgApp
    BY DEF Holds, Worlds
  <2> QED
    BY <2>1, SelectedIs
<1>3. continue_reading(w) = IF chapters_engaged(w.app) THEN ContinueHere(w)
                            ELSE IF chapters_engaged(u.app) THEN ContinueHere(u)
                            ELSE [u EXCEPT !.app.continuing = r]
  BY DEF continue_reading
<1> HIDE DEF u, r
<1>4. Holds(ContinueHere(w), disk, s) /\ Holds(ContinueHere(u), disk, s)
  BY <1>1, ContinueHereHolds
<1>5. Holds([u EXCEPT !.app.continuing = r], disk, s)
  BY <1>1, <1>2, ContinuingHolds
<1> QED
  BY <1>3, <1>4, <1>5

\* `~': more like the row selected.
LEMMA OpenSimilarHolds ==
    ASSUME NEW w, NEW d, NEW s, Holds(w, d, s)
    PROVE  Holds(open_similar(w), d, s)
<1> DEFINE r == selected(w.app)
           u == [w EXCEPT !.app.seed = r]
<1>1. r \in OrNone(Row)
  <2>1. w.app \in MgApp
    BY DEF Holds, Worlds
  <2> QED
    BY <2>1, SelectedIs
<1>2. open_similar(w) = IF r = None THEN w ELSE show_similar(u)
  BY DEF open_similar
<1> HIDE DEF r
<1>3. Holds(u, d, s)
  BY <1>1, SeedHolds
<1> HIDE DEF u
<1> QED
  BY <1>2, <1>3, FeedsHold

LEMMA StepFeedHolds ==
    ASSUME NEW w, NEW d, NEW s, Holds(w, d, s), NEW n
    PROVE  Holds(step_feed(w, n), d, s)
<1>1. \A kind : Holds(open_feed(w, kind), d, s) /\ Holds(show_similar(w), d, s)
  BY FeedsHold
<1> QED
  BY <1>1 DEF step_feed

StartSearch(w) == [w EXCEPT !.app.searching = TRUE, !.app.feed = None, !.app.view = "search"]

LEMMA StartSearchAsks ==
    ASSUME NEW w, NEW d, NEW s, Holds(w, d, s), NEW u, u = StartSearch(w)
    PROVE  Asks(w, u)
<1> DEFINE a == [w.app EXCEPT !.searching = TRUE, !.feed = None, !.view = "search"]
<1>1. w \in Worlds /\ w.app \in MgApp
  BY DEF Holds, Worlds
<1>2. u = [app |-> a, net |-> w.net, store |-> w.store]
  BY <1>1 DEF Worlds, StartSearch
<1>3. None \in AnyKind \cup {"similar", None}
  OBVIOUS
<1>4. a \in MgApp
  BY <1>1, <1>3, ZenonT(60) DEF MgApp
<1>5. u \in Worlds /\ u.app = a /\ u.net = w.net /\ u.store = w.store
  BY <1>1, <1>2, <1>4 DEF Worlds
<1>6. SameMarks(w, u) /\ SameRows(w, u) /\ SameFetch(w, u) /\ SameViewers(w, u)
      /\ SamePushes(w, u)
  BY <1>1, <1>5 DEF MgApp, SameMarks, SameRows, SameFetch, SameViewers, SamePushes
<1>7. /\ u.app.feed = None /\ u.app.list = w.app.list
      /\ u.app.source = w.app.source /\ u.app.held = w.app.held
      /\ u.app.chapters = w.app.chapters
      /\ u.app.sweeping = w.app.sweeping /\ u.app.binding = w.app.binding
      /\ u.app.loading = w.app.loading /\ u.app.pending = w.app.pending
  BY <1>1, <1>5 DEF MgApp
<1> HIDE DEF a
<1>8. ListsAreOwn(u)
  BY <1>5, <1>7 DEF Holds, ListsAreOwn
<1> QED
  BY <1>5, <1>6, <1>7, <1>8 DEF Asks

LEMMA SearchHolds ==
    ASSUME NEW w, NEW d, NEW s, Holds(w, d, s)
    PROVE  Holds(start_search(w), d, s)
<1> DEFINE u == StartSearch(w)
           v == spawn_list(u, "search", None, 1)
<1>1. Asks(w, u)
  BY StartSearchAsks
<1>2. start_search(w) = v
  BY DEF start_search, StartSearch
<1>3. /\ "search" \in Lists /\ None \in OrNone(AnyKind) /\ 1 \in Nat
      /\ "search" # "ranked" /\ "search" # "similar"
  BY DEF Lists, OrNone
<1> HIDE DEF u
<1>4. \A x : x = v => Holds(x, d, s)
  BY <1>1, <1>3, ListStarts
<1> QED
  BY <1>2, <1>4

\* `s': nothing of the old source is shown, and no worker of it is waited for.
LEMMA SourceHolds ==
    ASSUME NEW w, NEW d, NEW s, Holds(w, d, s), NEW next \in Source
    PROVE  Holds(cycle_source(w, next), d, s)
<1> DEFINE a == [w.app EXCEPT
                  !.source = next, !.list = << >>, !.at = 1, !.searching = FALSE,
                  !.feed = None, !.page = 0, !.more = FALSE, !.binding = None,
                  !.held = None, !.pending = None, !.chapters = << >>,
                  !.loading = FALSE, !.chapterAt = 1, !.focus = "list"]
           n == Stale(w.net, SourceScoped)
           v == [app |-> a, net |-> n, store |-> w.store]
<1>1. w \in Worlds /\ w.app \in MgApp /\ w.net \subseteq MgEvent
  BY DEF Holds, Worlds
<1>2. cycle_source(w, next) = w \/ cycle_source(w, next) = v
  <2>1. ASSUME NEW y, y = [w EXCEPT !.app = a, !.net = Stale(@, SourceScoped)]
        PROVE  y = v
    <3> HIDE DEF a
    <3> QED
      BY <1>1, <2>1 DEF Worlds
  <2>2. cycle_source(w, next) = IF w.app.view # "search" THEN w
                                ELSE [w EXCEPT !.app = a, !.net = Stale(@, SourceScoped)]
    BY DEF cycle_source
  <2> HIDE DEF v, a
  <2> QED
    BY <2>1, <2>2
<1>3. a \in MgApp
  <2>1. /\ << >> \in Seq(Row) /\ << >> \in Seq(Chapter) /\ None \in AnyKind \cup {"similar", None}
        /\ None \in OrNone(Al) /\ None \in OrNone(Manga) /\ 1 \in Nat /\ 0 \in Nat
    BY DEF OrNone
  <2> QED
    BY <1>1, <2>1, ZenonT(60) DEF MgApp
<1>4. /\ n \subseteq MgEvent
      /\ \A K : Out(n, K) = {x \in Out(w.net, K) : x.t \notin SourceScoped}
  <2>1. SourceScoped \subseteq Timed
    BY DEF SourceScoped, Timed, Lists
  <2> QED
    BY <1>1, <2>1, StaleIs
<1>5. /\ Searching(n) = {} /\ Binding(n) = {} /\ Listing(n) = {}
      /\ Fetching(n) = Fetching(w.net) /\ Sweeping(n) = Sweeping(w.net)
      /\ Watching(n) = Watching(w.net) /\ Pushing(n) = Pushing(w.net)
  <2>1. ASSUME NEW K, K \subseteq SourceScoped
        PROVE  Out(n, K) = {}
    BY <1>4, <2>1 DEF Out
  <2>2. ASSUME NEW K, K \cap SourceScoped = {}
        PROVE  Out(n, K) = Out(w.net, K)
    <3>1. \A x \in Out(w.net, K) : x.t \notin SourceScoped
      BY <2>2 DEF Out
    <3> QED
      BY <1>4, <3>1
  <2>3. /\ Lists \subseteq SourceScoped /\ {"bind"} \subseteq SourceScoped
        /\ {"chapters"} \subseteq SourceScoped
    BY DEF SourceScoped
  <2>4. /\ {"pages"} \cap SourceScoped = {} /\ {"sweep"} \cap SourceScoped = {}
        /\ {"viewer"} \cap SourceScoped = {} /\ {"push"} \cap SourceScoped = {}
    BY DEF SourceScoped, Lists
  <2> HIDE DEF n
  <2> QED
    BY <2>1, <2>2, <2>3, <2>4, Zenon
       DEF Searching, Binding, Listing, Fetching, Sweeping, Watching, Pushing
<1> HIDE DEF n
<1>6. v \in Worlds /\ v.app = a /\ v.net = n /\ v.store = w.store
  BY <1>1, <1>3, <1>4 DEF Worlds
<1>7. /\ a.list = << >> /\ a.feed = None /\ ~a.more /\ a.held = None
      /\ ~a.searching /\ a.binding = None /\ ~a.loading /\ a.sweeping = w.app.sweeping
  BY <1>1 DEF MgApp
<1>8. SameMarks(w, v) /\ SameRows(w, v) /\ SameFetch(w, v) /\ SameViewers(w, v)
      /\ SamePushes(w, v)
  BY <1>1, <1>5, <1>6 DEF MgApp, SameMarks, SameRows, SameFetch, SameViewers, SamePushes
<1> HIDE DEF a, v
<1>9. ListsAreOwn(v)
  <2>1. \A k \in Key : ElementsOf(w.store.cache[k]) \subseteq ElementsOf(Listed[k[2]])
    BY DEF Holds, ListsAreOwn
  <2>2. DOMAIN v.app.list = {}
    BY <1>6, <1>7
  <2> QED
    BY <1>5, <1>6, <1>7, <2>1, <2>2 DEF ListsAreOwn
<1>10. WaitsHold(v)
  BY <1>5, <1>6, <1>7 DEF Holds, WaitsHold
<1>11. Holds(v, d, s)
  BY <1>6, <1>8, <1>9, <1>10, Frames DEF Holds
<1> QED
  BY <1>2, <1>11

LEMMA PutChaptersHolds ==
    ASSUME NEW w, NEW d, NEW s, Holds(w, d, s), NEW k \in Key, NEW q \in Seq(Chapter),
           ElementsOf(q) \subseteq ElementsOf(Listed[k[2]]),
           NEW v, v = [app |-> w.app, net |-> w.net, store |-> put_chapters(w.store, k, q)]
    PROVE  Holds(v, d, s)
<1> DEFINE cache == [w.store.cache EXCEPT ![k] = q]
           st == [w.store EXCEPT !.cache = cache]
<1>1. w.store \in Store /\ w.store.cache \in [Key -> Seq(Chapter)]
  BY DEF Holds, Worlds, Store
<1>2. put_chapters(w.store, k, q) = st
  BY <1>1 DEF put_chapters, Store
<1>3. /\ cache \in [Key -> Seq(Chapter)]
      /\ \A j \in Key : cache[j] = IF j = k THEN q ELSE w.store.cache[j]
  BY <1>1
<1> HIDE DEF cache
<1>4. /\ st \in Store /\ st.rows = w.store.rows /\ st.known = w.store.known
      /\ st.synced = w.store.synced /\ st.cache = cache
  BY <1>1, <1>3 DEF Store
<1>5. \A j \in Key : ElementsOf(st.cache[j]) \subseteq ElementsOf(Listed[j[2]])
  BY <1>3, <1>4 DEF Holds, ListsAreOwn
<1> HIDE DEF st
<1> QED
  BY <1>2, <1>4, <1>5, StoreHolds

LEMMA FollowedHolds ==
    ASSUME NEW w, NEW d, NEW s, Holds(w, d, s), NEW f \in SUBSET Key,
           NEW v, v = [app |-> w.app, net |-> w.net, store |-> [w.store EXCEPT !.followed = f]]
    PROVE  Holds(v, d, s)
<1> DEFINE st == [w.store EXCEPT !.followed = f]
<1>1. w.store \in Store
  BY DEF Holds, Worlds
<1>2. /\ st \in Store /\ st.rows = w.store.rows /\ st.known = w.store.known
      /\ st.synced = w.store.synced /\ st.cache = w.store.cache
  BY <1>1 DEF Store
<1>3. \A j \in Key : ElementsOf(st.cache[j]) \subseteq ElementsOf(Listed[j[2]])
  BY <1>2 DEF Holds, ListsAreOwn
<1> HIDE DEF st
<1> QED
  BY <1>2, <1>3, StoreHolds DEF st

\* `f': into the library, with the chapters on the screen, or out of it.
LEMMA FollowingHolds ==
    ASSUME NEW w, NEW d, NEW s, Holds(w, d, s)
    PROVE  Holds(toggle_following(w), d, s)
<1> DEFINE k == KeyOf(w.app)
           q == w.app.chapters
           fill == chapters_engaged(w.app) /\ q # << >>
           st == IF fill THEN put_chapters(w.store, k, q) ELSE w.store
           u == [app |-> w.app, net |-> w.net, store |-> st]
           x == [app |-> w.app, net |-> w.net, store |-> upsert_manga(st, k)]
           y == [app |-> w.app, net |-> w.net,
                 store |-> [upsert_manga(st, k) EXCEPT !.followed =
                              upsert_manga(st, k).followed \cup {k}]]
           z == [app |-> w.app, net |-> w.net,
                 store |-> [w.store EXCEPT !.followed = w.store.followed \ {k}]]
<1>1. w \in Worlds /\ w.app \in MgApp /\ w.store \in Store /\ q \in Seq(Chapter)
  BY DEF Holds, Worlds, MgApp
<1>2. CASE selected(w.app) = None \/ ~Bound(selected(w.app))
  BY <1>2 DEF toggle_following
<1>3. CASE selected(w.app) # None /\ Bound(selected(w.app))
  <2>1. k \in Key /\ k[2] = selected(w.app)
    BY <1>1, <1>3, SelectedIs DEF Bound
  <2>2. fill => ElementsOf(q) \subseteq ElementsOf(Listed[k[2]])
    BY <1>1, <2>1, SelectedIs DEF Holds, ListsAreOwn, chapters_engaged
  <2>3. toggle_following(w) = IF k \in w.store.followed THEN reload_library(z)
                              ELSE reload_library(y)
    <3>1. ASSUME NEW t, t = [w EXCEPT !.store.followed = @ \ {k}]
          PROVE  t = z
      <4> HIDE DEF k
      <4> QED
        BY <1>1, <3>1 DEF Worlds
    <3>2. ASSUME NEW t, t = [w EXCEPT !.store =
                               [upsert_manga(st, k) EXCEPT !.followed = @ \cup {k}]]
          PROVE  t = y
      <4> DEFINE up == upsert_manga(st, k)
      <4>1. t = [w EXCEPT !.store = [up EXCEPT !.followed = up.followed \cup {k}]]
        BY <3>2
      <4> HIDE DEF k, st, up
      <4> QED
        BY <1>1, <4>1 DEF Worlds, up
    <3> DEFINE t1 == [w EXCEPT !.store.followed = @ \ {k}]
               t2 == [w EXCEPT !.store = [upsert_manga(st, k) EXCEPT !.followed = @ \cup {k}]]
    <3> HIDE DEF y, z
    <3>3. toggle_following(w) = IF k \in w.store.followed THEN reload_library(t1)
                                ELSE reload_library(t2)
      BY <1>3 DEF toggle_following
    <3>4. t1 = z /\ t2 = y
      <4>1. \A t : t = t1 => t = z
        BY <3>1
      <4>2. \A t : t = t2 => t = y
        BY <3>2
      <4> HIDE DEF t1, t2
      <4> QED
        BY <4>1, <4>2
    <3> HIDE DEF t1, t2
    <3> QED
      BY <3>3, <3>4
  <2>4. Holds(z, d, s)
    <3>1. w.store.followed \ {k} \in SUBSET Key
      BY <1>1 DEF Store
    <3> HIDE DEF k
    <3> QED
      BY <3>1, FollowedHolds
  <2> HIDE DEF k
  <2>5. Holds(u, d, s)
    <3>1. CASE fill
      <4> HIDE DEF q
      <4> QED
        BY <1>1, <2>1, <2>2, <3>1, PutChaptersHolds
    <3>2. CASE ~fill
      <4>1. u = w
        BY <1>1, <3>2 DEF Worlds
      <4> QED
        BY <4>1
    <3> QED
      BY <3>1, <3>2
  <2> HIDE DEF st
  <2>6. u.app = w.app /\ u.net = w.net /\ u.store = st
    OBVIOUS
  <2>7. Holds(x, d, s)
    <3> HIDE DEF u
    <3> QED
      BY <2>1, <2>5, <2>6, UpsertHolds
  <2>8. x.app = w.app /\ x.net = w.net /\ x.store = upsert_manga(st, k)
    OBVIOUS
  <2> HIDE DEF x
  <2>9. Holds(y, d, s)
    <3>1. x.store.followed \cup {k} \in SUBSET Key
      BY <2>1, <2>7 DEF Holds, Worlds, Store
    <3> QED
      BY <2>7, <2>8, <3>1, FollowedHolds
  <2> HIDE DEF y, z
  <2> QED
    BY <2>3, <2>4, <2>9, ReloadHolds
<1> QED
  BY <1>2, <1>3

QueueOf(q) == [NoDownload EXCEPT !.left = q, !.total = Len(q)]

LEMMA QueueIs ==
    ASSUME NEW q \in Seq(Chapter)
    PROVE  /\ QueueOf(q) \in Downloads
           /\ QueueOf(q).left = q
           /\ QueueOf(q).done + QueueOf(q).failed + Len(QueueOf(q).left) = QueueOf(q).total
<1>1. NoDownload \in Downloads /\ NoDownload.done = 0 /\ NoDownload.failed = 0
  BY DEF NoDownload, Downloads
<1>2. Len(q) \in Nat
  OBVIOUS
<1>3. QueueOf(q) \in Downloads
  BY <1>1, <1>2, Zenon DEF QueueOf, Downloads
<1>4. /\ QueueOf(q).left = q /\ QueueOf(q).done = 0 /\ QueueOf(q).failed = 0
      /\ QueueOf(q).total = Len(q)
  BY <1>1 DEF QueueOf, Downloads
<1> QED
  BY <1>2, <1>3, <1>4

\* `D': the unread chapters are queued.
LEMMA QueueHolds ==
    ASSUME NEW w, NEW s, Holds(w, disk, s)
    PROVE  Holds(queue_downloads(w), disk, s)
<1> DEFINE q == Kept(w.app.chapters, Chapter \ w.app.read)
           a == [w.app EXCEPT !.dl = QueueOf(q)]
           u == [app |-> a, net |-> w.net, store |-> w.store]
<1>1. w \in Worlds /\ w.app \in MgApp
  BY DEF Holds, Worlds
<1>2. q \in Seq(Chapter)
  <2>1. w.app.chapters \in Seq(Chapter)
    BY <1>1 DEF MgApp
  <2> QED
    BY <2>1, KeptIs
<1>3. ASSUME NEW y, y = [w EXCEPT !.app.dl = QueueOf(q)]
      PROVE  y = u
  <2> HIDE DEF q
  <2> QED
    BY <1>1, <1>3 DEF Worlds
<1>4. \/ queue_downloads(w) = w
      \/ w.app.fetching = None /\ queue_downloads(w) = start_next_download(u)
  <2>1. \/ queue_downloads(w) = w
        \/ /\ w.app.fetching = None
           /\ queue_downloads(w) = start_next_download([w EXCEPT !.app.dl = QueueOf(q)])
    BY DEF queue_downloads, QueueOf
  <2> HIDE DEF u, q
  <2> QED
    BY <2>1, <1>3
<1> HIDE DEF q
<1>5. ASSUME w.app.fetching = None
      PROVE  Holds(start_next_download(u), disk, s)
  <2>1. Unfetched(w, disk, s)
    BY <1>5, NothingFetched
  <2>2. a \in MgApp
    <3>1. QueueOf(q) \in Downloads
      BY <1>2, QueueIs
    <3> QED
      BY <1>1, <3>1, ZenonT(60) DEF MgApp, Downloads
  <2>3. FetchOnly(w.app, a) /\ a.fetching = w.app.fetching /\ a.dl = QueueOf(q)
    BY <1>1 DEF MgApp, FetchOnly
  <2> HIDE DEF a
  <2>4. \A x \in w.app.viewers : x.chapter # a.fetching
    BY <2>3 DEF Holds, ViewersHold
  <2>5. Unfetched(u, disk, s) /\ u.app = a
    BY <2>1, <2>2, <2>3, <2>4, FetchMarked
  <2>6. u.app.dl.done + u.app.dl.failed + Len(u.app.dl.left) = u.app.dl.total
    BY <1>2, <2>3, <2>5, QueueIs
  <2> HIDE DEF u
  <2> QED
    BY <1>5, <2>3, <2>5, <2>6, NextDownloadHolds
<1> HIDE DEF u
<1> QED
  BY <1>4, <1>5

NowSweeping(w) == [w EXCEPT !.app.sweeping = TRUE]

LEMMA SweepStarts ==
    ASSUME NEW w, NEW d, NEW s, Holds(w, d, s), NEW jobs \in Seq(Key),
           NEW v, v = Spawn(NowSweeping(w), {"sweep"},
                            [t |-> "sweep", live |-> TRUE, jobs |-> jobs])
    PROVE  Holds(v, d, s)
<1> DEFINE a == [w.app EXCEPT !.sweeping = TRUE]
           u == [app |-> a, net |-> w.net, store |-> w.store]
           msg == [t |-> "sweep", live |-> TRUE, jobs |-> jobs]
<1>1. w \in Worlds /\ w.app \in MgApp
  BY DEF Holds, Worlds
<1>2. ASSUME NEW y, y = NowSweeping(w)
      PROVE  y = u
  BY <1>1, <1>2 DEF NowSweeping, Worlds, MgApp
<1>3. a \in MgApp
  BY <1>1, ZenonT(60) DEF MgApp
<1>4. u \in Worlds /\ u.app = a /\ u.net = w.net /\ u.store = w.store
  BY <1>1, <1>3 DEF Worlds
<1>5. v = Spawn(u, {"sweep"}, msg)
  BY <1>2
<1>6. msg \in MgEvent /\ msg.t \in {"sweep"} /\ msg.live
  BY DEF MgEvent
<1>7. /\ a.searching = w.app.searching
      /\ a.loading = w.app.loading /\ a.pending = w.app.pending /\ a.binding = w.app.binding
  BY <1>1 DEF MgApp
<1>8. /\ a.list = w.app.list /\ a.source = w.app.source /\ a.feed = w.app.feed
      /\ a.page = w.app.page /\ a.more = w.app.more /\ a.held = w.app.held
      /\ a.chapters = w.app.chapters
  BY <1>1 DEF MgApp
<1>9. /\ a.marksFor = w.app.marksFor /\ a.undo = w.app.undo /\ a.read = w.app.read
      /\ a.resume = w.app.resume /\ a.viewers = w.app.viewers /\ a.syncing = w.app.syncing
      /\ a.fetching = w.app.fetching /\ a.dl = w.app.dl
  BY <1>1 DEF MgApp
<1> HIDE DEF u, a, msg
<1>10. SpawnedAs(u, v, {"sweep"}, msg)
  <2>1. {"sweep"} \in TimedKinds
    BY DEF TimedKinds
  <2> QED
    BY <2>1, <1>4, <1>5, <1>6, SpawnedAlone
<1>11. v \in Worlds /\ v.app = a /\ v.store = w.store
  BY <1>4, <1>10 DEF SpawnedAs
<1>12. /\ Binding(v.net) = Binding(w.net) /\ Searching(v.net) = Searching(w.net)
       /\ Sweeping(v.net) = {msg} /\ Fetching(v.net) = Fetching(w.net)
       /\ Listing(v.net) = Listing(w.net) /\ Watching(v.net) = Watching(w.net)
       /\ Pushing(v.net) = Pushing(w.net)
  BY <1>10, <1>4 DEF SpawnedAs, SameBut, Sweeping, Lists
<1>13. WaitsHold(v)
  BY <1>7, <1>11, <1>12 DEF WaitsHold, Holds
<1>14. SameLists(w, v) /\ SameMarks(w, v) /\ SameRows(w, v) /\ SameFetch(w, v)
       /\ SameViewers(w, v) /\ SamePushes(w, v)
  BY <1>8, <1>9, <1>11, <1>12
  DEF SameLists, SameMarks, SameRows, SameFetch, SameViewers, SamePushes
<1> QED
  BY <1>11, <1>13, <1>14, Frames DEF Holds

\* `U': every series of the library is asked for its chapters.
LEMMA SweepHolds ==
    ASSUME NEW w, NEW d, NEW s, Holds(w, d, s)
    PROVE  Holds(start_sweep(w), d, s)
<1> DEFINE v == reload_library(w)
           q == v.app.shelf
           jobs == [i \in DOMAIN q |-> <<Native[q[i]], q[i]>>]
           msg == [t |-> "sweep", live |-> TRUE, jobs |-> jobs]
           u == Spawn(NowSweeping(v), {"sweep"}, msg)
<1>1. Holds(v, d, s)
  BY ReloadHolds
<1>2. start_sweep(w) = IF w.app.sweeping THEN w ELSE IF jobs = << >> THEN v ELSE u
  BY DEF start_sweep, NowSweeping
<1>3. jobs \in Seq(Key)
  <2>1. q \in Seq(Manga)
    <3> HIDE DEF v
    <3> QED
      BY <1>1 DEF Holds, Worlds, MgApp
  <2> HIDE DEF q
  <2>2. Len(q) \in Nat /\ DOMAIN q = 1 .. Len(q)
    BY <2>1
  <2>3. \A i \in DOMAIN q : <<Native[q[i]], q[i]>> \in Key
    BY <2>1, ListsAssumption DEF Key
  <2>4. jobs \in [1 .. Len(q) -> Key]
    BY <2>2, <2>3
  <2> QED
    BY <2>2, <2>4
<1> HIDE DEF v, jobs
<1>4. \A x : x = u => Holds(x, d, s)
  BY <1>1, <1>3, SweepStarts
<1> HIDE DEF u
<1> QED
  BY <1>1, <1>2, <1>4

-----------------------------------------------------------------------------
(* Pushing progress *)

PushWorker(k, want, finishes) ==
    [t |-> "push", key |-> k, want |-> want, finishes |-> finishes,
     phase |-> "read", seen |-> [progress |-> 0, done |-> FALSE]]

LEMMA PushWorkerIs ==
    ASSUME NEW k \in Key, NEW want \in Nat, NEW finishes \in BOOLEAN
    PROVE  /\ PushWorker(k, want, finishes) \in MgEvent
           /\ PushWorker(k, want, finishes).t = "push"
           /\ PushWorker(k, want, finishes).phase = "read"
<1>1. [progress |-> 0, done |-> FALSE] \in Entry
  BY DEF Entry
<1> DEFINE e == [progress |-> 0, done |-> FALSE]
<1> HIDE DEF e
<1>2. e \in Entry
  BY <1>1 DEF e
<1>3. PushWorker(k, want, finishes) = [t |-> "push", key |-> k, want |-> want,
        finishes |-> finishes, phase |-> "read", seen |-> e]
  BY DEF PushWorker, e
<1>4. [t |-> "push", key |-> k, want |-> want, finishes |-> finishes, phase |-> "read",
       seen |-> e] \in MgEvent
  BY <1>2 DEF MgEvent
<1> QED
  BY <1>3, <1>4

LEMMA SpawnPushIs ==
    ASSUME NEW w \in Worlds, w.app \in MgApp, NEW k, NEW want, NEW finishes,
           NEW v, v = spawn_sync_push(w, k, want, finishes)
    PROVE  v = [app |-> [w.app EXCEPT !.syncing = TRUE],
                net |-> w.net \cup {PushWorker(k, want, finishes)}, store |-> w.store]
<1> DEFINE msg == PushWorker(k, want, finishes)
           n == w.net \cup {msg}
<1>1. v = [w EXCEPT !.app.syncing = TRUE, !.net = n]
  BY DEF spawn_sync_push, PushWorker
<1> HIDE DEF n
<1>2. v = [app |-> [w.app EXCEPT !.syncing = TRUE], net |-> n, store |-> w.store]
  BY <1>1 DEF Worlds, MgApp
<1> QED
  BY <1>2 DEF n

LEMMA PushStarts ==
    ASSUME NEW w, NEW d, NEW s, Holds(w, d, s), ~w.app.syncing,
           NEW k \in Key, NEW want \in Nat, NEW finishes \in BOOLEAN,
           NEW v, v = spawn_sync_push(w, k, want, finishes)
    PROVE  Holds(v, d, s)
<1> DEFINE a == [w.app EXCEPT !.syncing = TRUE]
           msg == PushWorker(k, want, finishes)
<1>1. w \in Worlds /\ w.app \in MgApp
  BY DEF Holds, Worlds
<1>2. v = [app |-> a, net |-> w.net \cup {msg}, store |-> w.store]
  BY <1>1, SpawnPushIs
<1>3. a \in MgApp
  BY <1>1, ZenonT(60) DEF MgApp
<1>4. msg \in MgEvent /\ msg.t = "push" /\ msg.phase = "read"
  BY PushWorkerIs
<1> HIDE DEF msg
<1>5. v \in Worlds /\ v.app = a /\ v.net = w.net \cup {msg} /\ v.store = w.store
  BY <1>1, <1>2, <1>3, <1>4 DEF Worlds
<1>6. /\ Pushing(v.net) = Pushing(w.net) \cup {msg}
      /\ Binding(v.net) = Binding(w.net) /\ Searching(v.net) = Searching(w.net)
      /\ Listing(v.net) = Listing(w.net) /\ Fetching(v.net) = Fetching(w.net)
      /\ Sweeping(v.net) = Sweeping(w.net) /\ Watching(v.net) = Watching(w.net)
  <2>1. msg.t \notin Timed
    BY <1>4 DEF Timed, Lists
  <2>2. Joins(w.net, v.net, msg)
    BY <1>5, <2>1, UntimedJoins
  <2> QED
    BY <1>4, <2>2, PushJoins
<1>7. SameLists(w, v) /\ SameMarks(w, v) /\ SameRows(w, v) /\ SameWaits(w, v)
      /\ SameFetch(w, v) /\ SameViewers(w, v)
  <2>1. SameLists(w, v)
    <3>1. /\ a.list = w.app.list /\ a.source = w.app.source /\ a.feed = w.app.feed
          /\ a.page = w.app.page /\ a.more = w.app.more /\ a.held = w.app.held
          /\ a.chapters = w.app.chapters
      BY <1>1 DEF MgApp
    <3> HIDE DEF a
    <3> QED
      BY <1>5, <1>6, <3>1 DEF SameLists
  <2>2. SameMarks(w, v) /\ SameRows(w, v)
    BY <1>1, <1>5, <1>6 DEF MgApp, SameMarks, SameRows
  <2>3. SameWaits(w, v)
    BY <1>1, <1>5, <1>6 DEF MgApp, SameWaits
  <2>4. SameFetch(w, v) /\ SameViewers(w, v)
    BY <1>1, <1>5, <1>6 DEF MgApp, SameFetch, SameViewers
  <2> QED
    BY <2>1, <2>2, <2>3, <2>4
<1>8. PushesHold(v, s)
  <2>1. a.syncing
    BY <1>1 DEF MgApp
  <2>2. Pushing(w.net) = {}
    BY DEF Holds, PushesHold
  <2> HIDE DEF a
  <2> QED
    BY <2>1, <2>2, <1>4, <1>5, <1>6 DEF Holds, PushesHold
<1> QED
  BY <1>5, <1>7, <1>8, Frames DEF Holds

LEMMA MaybePushHolds ==
    ASSUME NEW w, NEW d, NEW s, Holds(w, d, s),
           NEW k \in Key, NEW want \in Nat, NEW finishes \in BOOLEAN
    PROVE  Holds(maybe_push_progress(w, k, want, finishes), d, s)
<1>1. \/ maybe_push_progress(w, k, want, finishes) = w
      \/ /\ ~w.app.syncing
         /\ maybe_push_progress(w, k, want, finishes) = spawn_sync_push(w, k, want, finishes)
  BY DEF maybe_push_progress
<1>2. ASSUME ~w.app.syncing
      PROVE  Holds(spawn_sync_push(w, k, want, finishes), d, s)
  <2>1. \A v : v = spawn_sync_push(w, k, want, finishes) => Holds(v, d, s)
    BY <1>2, PushStarts
  <2> QED
    BY <2>1
<1> QED
  BY <1>1, <1>2

\* `S': as far as the manga selected is read.
LEMMA SyncSelectionHolds ==
    ASSUME NEW w, NEW d, NEW s, Holds(w, d, s)
    PROVE  Holds(sync_selection(w), d, s)
<1> DEFINE m == selected(w.app)
           k == KeyOf(w.app)
           v == hydrate_progress(w, k)
           q == IF chapters_engaged(v.app) THEN v.app.chapters ELSE v.store.cache[k]
           readAt == {i \in DOMAIN q : q[i] \in v.app.read}
           last == q[CHOOSE i \in readAt : \A j \in readAt :
                       NumberOf(m, q[i]) >= NumberOf(m, q[j])]
           want == IF readAt = {} THEN 0 ELSE NumberOf(m, last)
           finishes == m \in Finished /\ q[Len(q)] \in v.app.read
           u == spawn_sync_push(v, k, want, finishes)
<1>1. w \in Worlds /\ w.app \in MgApp
  BY DEF Holds, Worlds
<1>2. sync_selection(w) = IF \/ m = None \/ ~Bound(m) \/ m \notin Tracked
                             \/ ~sync_ready(w.app) \/ w.app.syncing
                          THEN w ELSE IF want = 0 THEN v ELSE u
  BY DEF sync_selection
<1>3. ASSUME Bound(m), ~w.app.syncing
      PROVE  Holds(v, d, s) /\ Holds(u, d, s)
  <2>1. k \in Key /\ m \in Manga
    BY <1>1, <1>3, SelectedIs DEF Bound
  <2>2. Holds(v, d, s) /\ OnlyMarks(w.app, v.app)
    <3> HIDE DEF k
    <3> QED
      BY <2>1, HydrateHolds
  <2> HIDE DEF v
  <2>3. ~v.app.syncing
    <3>1. v.app.syncing = w.app.syncing
      BY <1>1, <2>2 DEF OnlyMarks, MgApp
    <3> QED
      BY <1>3, <3>1
  <2> HIDE DEF k, m, last, readAt
  <2>4. want \in Nat /\ finishes \in BOOLEAN
    BY <2>1, NumberIs
  <2> HIDE DEF want, finishes
  <2>5. \A x : x = u => Holds(x, d, s)
    BY <2>1, <2>2, <2>3, <2>4, PushStarts
  <2> HIDE DEF u
  <2> QED
    BY <2>2, <2>5
<1> HIDE DEF m, v, u, want
<1> QED
  BY <1>2, <1>3

-----------------------------------------------------------------------------
(* Marking chapters *)

RowsAt(rows, k, c) == {r \in rows : r.key = k /\ r.chapter = c}

\* Nothing but the marks differs.
MarksOnly(a, b) ==
    /\ b.list = a.list /\ b.source = a.source /\ b.feed = a.feed /\ b.page = a.page
    /\ b.more = a.more /\ b.searching = a.searching /\ b.sweeping = a.sweeping
    /\ b.binding = a.binding /\ b.held = a.held /\ b.chapters = a.chapters
    /\ b.loading = a.loading /\ b.pending = a.pending /\ b.marksFor = a.marksFor
    /\ b.fetching = a.fetching /\ b.dl = a.dl /\ b.viewers = a.viewers
    /\ b.syncing = a.syncing

Undoable(known, undo) ==
    undo # None /\ undo.prior # None =>
      /\ undo.prior.key = undo.key /\ undo.prior.chapter = undo.chapter
      /\ Written(known, undo.prior)

\* Rows are written, and the marks on the screen with them.
LEMMA MarksWritten ==
    ASSUME NEW w, NEW d, NEW s, Holds(w, d, s),
           NEW a \in MgApp, MarksOnly(w.app, a),
           NEW st \in Store, st.known = w.store.known, st.synced = w.store.synced,
           st.cache = w.store.cache,
           \A r \in st.rows : Written(st.known, r),
           a.marksFor # None => /\ a.read = ReadOf(st.rows, a.marksFor)
                                /\ a.resume = ResumeOf(st.rows, a.marksFor),
           Undoable(st.known, a.undo),
           NEW v, v = [app |-> a, net |-> w.net, store |-> st]
    PROVE  Holds(v, d, s)
<1>1. v \in Worlds /\ v.app = a /\ v.net = w.net /\ v.store = st
  BY DEF Holds, Worlds
<1>2. MarksHold(v)
  BY <1>1 DEF MarksHold, Undoable
<1>3. RowsHold(v)
  BY <1>1 DEF MarksOnly, Undoable, Holds, RowsHold
<1>4. SameLists(w, v) /\ SameWaits(w, v) /\ SameFetch(w, v) /\ SameViewers(w, v)
      /\ SamePushes(w, v)
  BY <1>1 DEF MarksOnly, SameLists, SameWaits, SameFetch, SameViewers, SamePushes
<1> QED
  BY <1>1, <1>2, <1>3, <1>4, Frames DEF Holds

LEMMA OrderIs ==
    ASSUME NEW order \in Orders
    PROVE  order \in Seq(Manga)
<1>1. Cardinality(Manga) \in Nat
  BY ListsAssumption, FS_CardinalityType
<1> QED
  BY <1>1 DEF Orders

LEMMA ReadNowIs ==
    ASSUME NEW st \in Store, NEW r \in Progress,
           NEW after, after = ReadNow(st, r)
    PROVE  /\ after \in Store /\ after.known = st.known /\ after.synced = st.synced
           /\ after.cache = st.cache
           /\ after.rows = (st.rows \ RowsAt(st.rows, r.key, r.chapter)) \cup {r}
<1> DEFINE order == <<r.key[2]>> \o Kept(st.order, Manga \ {r.key[2]})
           rows == (st.rows \ RowsAt(st.rows, r.key, r.chapter)) \cup {r}
           put == [st EXCEPT !.rows = rows]
<1>1. st.order \in Seq(Manga) /\ st.rows \subseteq Progress /\ r.key[2] \in Manga
  BY DEF Store, Progress, Key
<1>2. order \in Seq(Manga)
  <2>1. Kept(st.order, Manga \ {r.key[2]}) \in Seq(Manga)
    BY <1>1, KeptIs
  <2> QED
    BY <1>1, <2>1
<1>3. rows \in SUBSET Progress
  BY <1>1 DEF RowsAt
<1>4. put = PutRow(st, r)
  BY DEF PutRow, RowOf, RowsAt
<1> HIDE DEF rows
<1>5. put \in Store /\ put.order = st.order /\ put.known = st.known /\ put.synced = st.synced
      /\ put.cache = st.cache /\ put.rows = rows
  BY <1>3 DEF Store
<1>6. after = [put EXCEPT !.order = order]
  <2> HIDE DEF put
  <2> QED
    BY <1>4, <1>5 DEF ReadNow
<1> HIDE DEF put, order
<1> QED
  BY <1>2, <1>5, <1>6 DEF Store, rows

LEMMA PriorIs ==
    ASSUME NEW st \in Store, NEW k, NEW c, Prior(st, k, c) # None
    PROVE  Prior(st, k, c) \in st.rows /\ Prior(st, k, c).key = k /\ Prior(st, k, c).chapter = c
<1>1. RowOf(st, k, c) # {}
  BY DEF Prior
<1>2. Prior(st, k, c) \in RowOf(st, k, c)
  BY <1>1 DEF Prior
<1> QED
  BY <1>2 DEF RowOf

\* The database without the mark, and the screen.
Unmarked(st, u) ==
    IF u.key = None THEN st
    ELSE IF u.prior = None THEN WithoutRow(st, u.key, u.chapter) ELSE PutRow(st, u.prior)

Back(a, u, S, had) ==
    IF a.marksFor # u.key THEN S ELSE IF had THEN S \cup {u.chapter} ELSE S \ {u.chapter}

HadRead(u) == u.prior # None /\ u.prior.read

HadResume(u) == u.prior # None /\ u.prior.resume

\* The marks of the chapter are as told, those of others as before.
MarkedAs(before, after, u, read, resume) ==
    \A j : j # None =>
      /\ ReadOf(after, j) = IF j # u.key THEN ReadOf(before, j)
           ELSE IF read THEN ReadOf(before, j) \cup {u.chapter}
           ELSE ReadOf(before, j) \ {u.chapter}
      /\ ResumeOf(after, j) = IF j # u.key THEN ResumeOf(before, j)
           ELSE IF resume THEN ResumeOf(before, j) \cup {u.chapter}
           ELSE ResumeOf(before, j) \ {u.chapter}

LEMMA DroppedMarks ==
    ASSUME NEW rows, NEW u, NEW after, after = rows \ RowsAt(rows, u.key, u.chapter)
    PROVE  MarkedAs(rows, after, u, FALSE, FALSE)
<1>1. \A x : x \in after <=> x \in rows /\ ~(x.key = u.key /\ x.chapter = u.chapter)
  BY DEF RowsAt
<1>2. \A j, c : c \in ReadOf(after, j) <=> c \in ReadOf(rows, j) /\ ~(j = u.key /\ c = u.chapter)
  BY <1>1 DEF ReadOf
<1>3. \A j, c : c \in ResumeOf(after, j)
                 <=> c \in ResumeOf(rows, j) /\ ~(j = u.key /\ c = u.chapter)
  BY <1>1 DEF ResumeOf
<1> QED
  BY <1>2, <1>3 DEF MarkedAs

LEMMA PutMarks ==
    ASSUME NEW rows, NEW r, NEW after,
           after = (rows \ RowsAt(rows, r.key, r.chapter)) \cup {r}
    PROVE  MarkedAs(rows, after, r, r.read, r.resume)
<1>1. \A x : x \in after <=> x = r \/ (x \in rows /\ ~(x.key = r.key /\ x.chapter = r.chapter))
  BY DEF RowsAt
<1>2. \A j, c : c \in ReadOf(after, j) <=>
                  \/ c = r.chapter /\ r.key = j /\ r.read
                  \/ c \in ReadOf(rows, j) /\ ~(j = r.key /\ c = r.chapter)
  BY <1>1 DEF ReadOf
<1>3. \A j, c : c \in ResumeOf(after, j) <=>
                  \/ c = r.chapter /\ r.key = j /\ r.resume
                  \/ c \in ResumeOf(rows, j) /\ ~(j = r.key /\ c = r.chapter)
  BY <1>1 DEF ResumeOf
<1>4. ASSUME NEW j
      PROVE  ReadOf(after, j) = IF j # r.key THEN ReadOf(rows, j)
                                ELSE IF r.read THEN ReadOf(rows, j) \cup {r.chapter}
                                ELSE ReadOf(rows, j) \ {r.chapter}
  <2>1. \A c : c \in ReadOf(after, j) <=>
                 c \in IF j # r.key THEN ReadOf(rows, j)
                       ELSE IF r.read THEN ReadOf(rows, j) \cup {r.chapter}
                       ELSE ReadOf(rows, j) \ {r.chapter}
    BY <1>2
  <2> QED
    BY <2>1
<1>5. ASSUME NEW j
      PROVE  ResumeOf(after, j) = IF j # r.key THEN ResumeOf(rows, j)
                                  ELSE IF r.resume THEN ResumeOf(rows, j) \cup {r.chapter}
                                  ELSE ResumeOf(rows, j) \ {r.chapter}
  <2>1. \A c : c \in ResumeOf(after, j) <=>
                 c \in IF j # r.key THEN ResumeOf(rows, j)
                       ELSE IF r.resume THEN ResumeOf(rows, j) \cup {r.chapter}
                       ELSE ResumeOf(rows, j) \ {r.chapter}
    BY <1>3
  <2> QED
    BY <2>1
<1> QED
  BY <1>4, <1>5 DEF MarkedAs

UnmarkedAs(st, u, after) ==
    /\ after \in Store /\ after.known = st.known /\ after.synced = st.synced
    /\ after.cache = st.cache
    /\ after.rows \subseteq st.rows \cup (IF u.prior # None THEN {u.prior} ELSE {})
    /\ MarkedAs(st.rows, after.rows, u, HadRead(u), HadResume(u))

LEMMA UnmarkedIs ==
    ASSUME NEW st \in Store, NEW u \in MgReadUndo,
           u.prior # None => u.prior.key = u.key /\ u.prior.chapter = u.chapter,
           NEW after, after = Unmarked(st, u)
    PROVE  UnmarkedAs(st, u, after)
<1>1. /\ u.key \in OrNone(Key) /\ u.chapter \in Chapter /\ u.prior \in OrNone(Progress)
      /\ st.rows \subseteq Progress
  BY DEF MgReadUndo, Store
<1>2. CASE u.key = None
  BY <1>2 DEF Unmarked, UnmarkedAs, MarkedAs
<1>3. CASE u.key # None /\ u.prior = None
  <2> DEFINE rows == st.rows \ RowsAt(st.rows, u.key, u.chapter)
  <2>1. after = [st EXCEPT !.rows = rows]
    BY <1>3 DEF Unmarked, WithoutRow, RowOf, RowsAt
  <2>2. rows \in SUBSET Progress
    BY <1>1
  <2>3. rows \subseteq st.rows
    OBVIOUS
  <2>4. rows = st.rows \ RowsAt(st.rows, u.key, u.chapter)
    OBVIOUS
  <2> HIDE DEF rows
  <2>5. /\ after \in Store /\ after.known = st.known /\ after.synced = st.synced
        /\ after.cache = st.cache /\ after.rows = rows
    BY <2>1, <2>2 DEF Store
  <2>6. HadRead(u) = FALSE /\ HadResume(u) = FALSE
    BY <1>3 DEF HadRead, HadResume
  <2>7. MarkedAs(st.rows, rows, u, FALSE, FALSE)
    BY <2>4, DroppedMarks
  <2> QED
    BY <2>3, <2>5, <2>6, <2>7 DEF UnmarkedAs, MarkedAs
<1>4. CASE u.key # None /\ u.prior # None
  <2> DEFINE r == u.prior
             rows == (st.rows \ RowsAt(st.rows, r.key, r.chapter)) \cup {r}
  <2>1. after = [st EXCEPT !.rows = rows]
    BY <1>4 DEF Unmarked, PutRow, RowOf, RowsAt
  <2>2. rows \in SUBSET Progress
    BY <1>1, <1>4 DEF OrNone
  <2>3. rows \subseteq st.rows \cup {r}
    OBVIOUS
  <2>4. rows = (st.rows \ RowsAt(st.rows, r.key, r.chapter)) \cup {r}
    OBVIOUS
  <2>5. r.key = u.key /\ r.chapter = u.chapter /\ (HadRead(u) <=> r.read)
        /\ (HadResume(u) <=> r.resume)
    BY <1>4 DEF HadRead, HadResume
  <2>6. r # None /\ r = u.prior
    BY <1>4
  <2> HIDE DEF rows, r
  <2>7. /\ after \in Store /\ after.known = st.known /\ after.synced = st.synced
        /\ after.cache = st.cache /\ after.rows = rows
    BY <2>1, <2>2 DEF Store
  <2>8. MarkedAs(st.rows, rows, r, r.read, r.resume)
    BY <2>4, PutMarks
  <2>9. MarkedAs(st.rows, rows, u, HadRead(u), HadResume(u))
    BY <2>5, <2>8 DEF MarkedAs
  <2> QED
    BY <2>3, <2>6, <2>7, <2>9 DEF UnmarkedAs
<1> QED
  BY <1>2, <1>3, <1>4

\* `u': the row goes back as it was.
LEMMA UndoHolds ==
    ASSUME NEW w, NEW d, NEW s, Holds(w, d, s), w.app.undo # None, NEW order \in Orders
    PROVE  Holds(undo_read(w, order), d, s)
<1> DEFINE u == w.app.undo
           un == Unmarked(w.store, u)
           st == [un EXCEPT !.order = order]
           R == Back(w.app, u, w.app.read, HadRead(u))
           S == Back(w.app, u, w.app.resume, HadResume(u))
           a == [w.app EXCEPT !.undo = None, !.read = R, !.resume = S]
           v == [app |-> a, net |-> w.net, store |-> st]
<1>1. w \in Worlds /\ w.app \in MgApp /\ w.store \in Store /\ u \in MgReadUndo
  BY DEF Holds, Worlds, MgApp, OrNone
<1>2. undo_read(w, order) = reload_library(v)
  <2>1. ASSUME NEW y, y = [w EXCEPT !.store = st, !.app.undo = None, !.app.read = R,
                                    !.app.resume = S]
        PROVE  y = v
    <3> HIDE DEF st, R, S
    <3> QED
      BY <1>1, <2>1 DEF Worlds
  <2> DEFINE y == [w EXCEPT !.store = st, !.app.undo = None, !.app.read = R, !.app.resume = S]
  <2>2. undo_read(w, order) = reload_library(y)
    BY <1>1 DEF undo_read, Unmarked, Back, HadRead, HadResume, Worlds, MgApp
  <2>3. y = v
    <3>1. \A t : t = y => t = v
      BY <2>1
    <3> HIDE DEF y
    <3> QED
      BY <3>1
  <2> HIDE DEF y, v
  <2> QED
    BY <2>2, <2>3
<1>3. u.prior # None => /\ u.prior.key = u.key /\ u.prior.chapter = u.chapter
                        /\ Written(w.store.known, u.prior)
  BY DEF Holds, MarksHold, RowsHold
<1>4. UnmarkedAs(w.store, u, un)
  <2>1. un = Unmarked(w.store, u)
    OBVIOUS
  <2> HIDE DEF u, un
  <2> QED
    BY <1>1, <1>3, <2>1, UnmarkedIs
<1>5. /\ st \in Store /\ st.known = w.store.known /\ st.synced = w.store.synced
      /\ st.cache = w.store.cache /\ st.rows = un.rows
  <2>1. order \in Seq(Manga)
    BY OrderIs
  <2> HIDE DEF un
  <2> QED
    BY <1>4, <2>1 DEF Store, UnmarkedAs
<1>6. R \in SUBSET Chapter /\ S \in SUBSET Chapter
  BY <1>1 DEF Back, MgApp, MgReadUndo
<1>7. w.app.marksFor # None => /\ R = ReadOf(st.rows, w.app.marksFor)
                               /\ S = ResumeOf(st.rows, w.app.marksFor)
  <2>1. w.app.marksFor # None => /\ w.app.read = ReadOf(w.store.rows, w.app.marksFor)
                                 /\ w.app.resume = ResumeOf(w.store.rows, w.app.marksFor)
    BY DEF Holds, MarksHold
  <2> HIDE DEF st, un
  <2> QED
    BY <1>4, <1>5, <2>1 DEF Back, UnmarkedAs, MarkedAs
<1>8. \A r \in st.rows : Written(st.known, r)
  <2>1. \A r \in w.store.rows : Written(w.store.known, r)
    BY DEF Holds, RowsHold
  <2> HIDE DEF st, un, u
  <2> QED
    BY <1>3, <1>4, <1>5, <2>1 DEF UnmarkedAs
<1> HIDE DEF R, S
<1>9. a \in MgApp
  <2>1. None \in OrNone(MgReadUndo)
    BY DEF OrNone
  <2> QED
    BY <1>1, <1>6, <2>1, ZenonT(60) DEF MgApp
<1>10. /\ MarksOnly(w.app, a) /\ a.undo = None /\ a.marksFor = w.app.marksFor
       /\ a.read = R /\ a.resume = S
  BY <1>1 DEF MgApp, MarksOnly
<1> HIDE DEF a, st, un
<1>11. Undoable(st.known, a.undo)
  BY <1>10 DEF Undoable
<1>12. Holds(v, d, s)
  BY <1>5, <1>7, <1>8, <1>9, <1>10, <1>11, MarksWritten
<1> HIDE DEF v
<1> QED
  BY <1>2, <1>12, ReloadHolds

-----------------------------------------------------------------------------
(* Answers *)

\* The world without a worker: nothing else differs.
Taken(w, x) == [app |-> w.app, net |-> w.net \ {x}, store |-> w.store]

LEMMA TakenIs ==
    ASSUME NEW w \in Worlds, NEW x \in w.net, NEW u, u = Taken(w, x)
    PROVE  /\ u \in Worlds /\ u.app = w.app /\ u.store = w.store
           /\ \A K : Out(u.net, K) = Out(w.net, K) \ {x}
           /\ x.t \notin Lists => Searching(u.net) = Searching(w.net)
           /\ x.t # "bind" => Binding(u.net) = Binding(w.net)
           /\ x.t # "chapters" => Listing(u.net) = Listing(w.net)
           /\ x.t # "pages" => Fetching(u.net) = Fetching(w.net)
           /\ x.t # "sweep" => Sweeping(u.net) = Sweeping(w.net)
           /\ x.t # "viewer" => Watching(u.net) = Watching(w.net)
           /\ x.t # "push" => Pushing(u.net) = Pushing(w.net)
<1>1. u \in Worlds /\ u.app = w.app /\ u.store = w.store /\ u.net = w.net \ {x}
  BY DEF Worlds, Taken
<1>2. ASSUME NEW K
      PROVE  /\ Out(u.net, K) = Out(w.net, K) \ {x}
             /\ x.t \notin K => x \notin Out(w.net, K)
  BY <1>1 DEF Out
<1>3. \A K : x.t \notin K => Out(u.net, K) = Out(w.net, K)
  BY <1>2
<1>4. \A K : Out(u.net, K) = Out(w.net, K) \ {x}
  BY <1>2
<1> QED
  BY <1>1, <1>3, <1>4
  DEF Searching, Binding, Listing, Fetching, Sweeping, Watching, Pushing

\* An answer of an older generation is dropped, and nothing waited for it.
LEMMA DroppedHolds ==
    ASSUME NEW w, NEW d, NEW s, Holds(w, d, s), NEW x \in w.net, x.t \in Timed, ~x.live,
           NEW u, u = Taken(w, x)
    PROVE  Holds(u, d, s)
<1>1. w \in Worlds
  BY DEF Holds
<1>2. u \in Worlds /\ u.app = w.app /\ u.store = w.store
      /\ \A K : Out(u.net, K) = Out(w.net, K) \ {x}
  BY <1>1, TakenIs
<1>3. \A K : Out(u.net, K) = Out(w.net, K)
  <2>1. \A K : x \notin Out(w.net, K)
    BY DEF Out
  <2> QED
    BY <1>2, <2>1
<1>4. /\ Searching(u.net) = Searching(w.net) /\ Binding(u.net) = Binding(w.net)
      /\ Listing(u.net) = Listing(w.net) /\ Fetching(u.net) = Fetching(w.net)
      /\ Sweeping(u.net) = Sweeping(w.net) /\ Watching(u.net) = Watching(w.net)
      /\ Pushing(u.net) = Pushing(w.net)
  BY <1>3 DEF Searching, Binding, Listing, Fetching, Sweeping, Watching, Pushing
<1>5. Same(w, u)
  BY <1>2, <1>4 DEF Same, SameLists, SameMarks, SameRows, SameWaits, SameFetch, SameViewers,
                    SamePushes
<1> QED
  BY <1>2, <1>5, QuietHolds

\* The list that was being searched for is not any more.
SearchOver(w) == [w EXCEPT !.app.searching = FALSE]

LEMMA SearchEnds ==
    ASSUME NEW w, NEW d, NEW s, Holds(w, d, s), NEW x \in w.net, x.t \in Lists,
           NEW v, v = SearchOver(Taken(w, x))
    PROVE  Holds(v, d, s) /\ v.app.source = w.app.source
<1> DEFINE u == Taken(w, x)
           a == [w.app EXCEPT !.searching = FALSE]
<1>1. w \in Worlds /\ w.app \in MgApp
  BY DEF Holds, Worlds
<1>2. x.t \notin {"bind", "chapters", "pages", "sweep", "viewer", "push"}
  BY DEF Lists
<1>3. /\ u \in Worlds /\ u.app = w.app /\ u.store = w.store
      /\ Searching(u.net) = Searching(w.net) \ {x}
      /\ Binding(u.net) = Binding(w.net)
      /\ Listing(u.net) = Listing(w.net) /\ Fetching(u.net) = Fetching(w.net)
      /\ Sweeping(u.net) = Sweeping(w.net) /\ Watching(u.net) = Watching(w.net)
      /\ Pushing(u.net) = Pushing(w.net)
  <2>1. \A z : z = u => /\ z \in Worlds /\ z.app = w.app /\ z.store = w.store
                        /\ Searching(z.net) = Searching(w.net) \ {x}
                        /\ Binding(z.net) = Binding(w.net)
                        /\ Listing(z.net) = Listing(w.net) /\ Fetching(z.net) = Fetching(w.net)
                        /\ Sweeping(z.net) = Sweeping(w.net) /\ Watching(z.net) = Watching(w.net)
                        /\ Pushing(z.net) = Pushing(w.net)
    BY <1>1, <1>2, TakenIs DEF Searching
  <2> HIDE DEF u
  <2> QED
    BY <2>1
<1> HIDE DEF u
<1>4. v = [app |-> a, net |-> u.net, store |-> w.store]
  <2>1. v = SearchOver(u)
    BY DEF u
  <2> QED
    BY <1>1, <1>3, <2>1 DEF SearchOver, Worlds, MgApp
<1>5. a \in MgApp
  BY <1>1, ZenonT(60) DEF MgApp
<1>6. v \in Worlds /\ v.app = a /\ v.net = u.net /\ v.store = w.store
  BY <1>1, <1>3, <1>4, <1>5 DEF Worlds
<1>7. SameMarks(w, v) /\ SameRows(w, v) /\ SameFetch(w, v) /\ SameViewers(w, v)
      /\ SamePushes(w, v)
  BY <1>1, <1>3, <1>6 DEF MgApp, SameMarks, SameRows, SameFetch, SameViewers, SamePushes
<1>8. /\ a.list = w.app.list /\ a.source = w.app.source /\ a.feed = w.app.feed
      /\ a.page = w.app.page /\ a.more = w.app.more /\ a.held = w.app.held
      /\ a.chapters = w.app.chapters /\ ~a.searching /\ a.sweeping = w.app.sweeping
      /\ a.binding = w.app.binding /\ a.loading = w.app.loading /\ a.pending = w.app.pending
  BY <1>1 DEF MgApp
<1> HIDE DEF a
<1>9. ListsAreOwn(v)
  BY <1>3, <1>6, <1>8 DEF Holds, ListsAreOwn
<1>10. WaitsHold(v)
  BY <1>3, <1>6, <1>8 DEF Holds, WaitsHold
<1> QED
  BY <1>6, <1>7, <1>8, <1>9, <1>10, Frames DEF Holds

OwnRows(source, q) == \A i \in DOMAIN q : q[i] \in Manga => Native[q[i]] = source

Filled(w, q) == [w EXCEPT !.app.list = q]

LEMMA FilledHolds ==
    ASSUME NEW w, NEW d, NEW s, Holds(w, d, s), NEW q \in Seq(Row), OwnRows(w.app.source, q),
           NEW v, v = Filled(w, q)
    PROVE  /\ Holds(v, d, s) /\ v.app.source = w.app.source /\ v.app.feed = w.app.feed
           /\ v.app.list = q
<1> DEFINE a == [w.app EXCEPT !.list = q]
<1>1. w \in Worlds /\ w.app \in MgApp
  BY DEF Holds, Worlds
<1>2. v = [app |-> a, net |-> w.net, store |-> w.store]
  BY <1>1 DEF Filled, Worlds
<1>3. a \in MgApp
  BY <1>1, ZenonT(60) DEF MgApp
<1>4. v \in Worlds /\ v.app = a /\ v.net = w.net /\ v.store = w.store
  BY <1>1, <1>2, <1>3 DEF Worlds
<1>5. SameMarks(w, v) /\ SameRows(w, v) /\ SameWaits(w, v) /\ SameFetch(w, v)
      /\ SameViewers(w, v) /\ SamePushes(w, v)
  BY <1>1, <1>4
  DEF MgApp, SameMarks, SameRows, SameWaits, SameFetch, SameViewers, SamePushes
<1>6. /\ a.list = q /\ a.source = w.app.source /\ a.feed = w.app.feed
      /\ a.page = w.app.page /\ a.more = w.app.more /\ a.held = w.app.held
      /\ a.chapters = w.app.chapters
  BY <1>1 DEF MgApp
<1> HIDE DEF a
<1>7. ListsAreOwn(v)
  BY <1>4, <1>6 DEF Holds, ListsAreOwn, OwnRows
<1> QED
  BY <1>4, <1>5, <1>6, <1>7, Frames DEF Holds

LEMMA TakeResultsHolds ==
    ASSUME NEW w, NEW d, NEW s, Holds(w, d, s), NEW q \in Seq(Row), OwnRows(w.app.source, q),
           NEW v, v = take_results(w, q)
    PROVE  Holds(v, d, s) /\ v.app.source = w.app.source /\ v.app.feed = w.app.feed
<1> DEFINE a == [w.app EXCEPT !.list = q, !.at = 1, !.held = None, !.pending = None,
                   !.chapters = << >>, !.loading = FALSE, !.focus = "list", !.chapterAt = 1]
<1>1. w \in Worlds /\ w.app \in MgApp
  BY DEF Holds, Worlds
<1>2. v = [app |-> a, net |-> w.net, store |-> w.store]
  BY <1>1 DEF take_results, Worlds, MgApp
<1>3. a \in MgApp
  <2>1. 1 \in Nat /\ None \in OrNone(Manga) /\ << >> \in Seq(Chapter)
        /\ "list" \in {"list", "chapters"}
    BY DEF OrNone
  <2> QED
    BY <1>1, <2>1, ZenonT(60) DEF MgApp
<1>4. v \in Worlds /\ v.app = a /\ v.net = w.net /\ v.store = w.store
  BY <1>1, <1>2, <1>3 DEF Worlds
<1>5. SameMarks(w, v) /\ SameRows(w, v) /\ SameFetch(w, v) /\ SameViewers(w, v)
      /\ SamePushes(w, v)
  BY <1>1, <1>4 DEF MgApp, SameMarks, SameRows, SameFetch, SameViewers, SamePushes
<1>6. /\ a.list = q /\ a.source = w.app.source /\ a.feed = w.app.feed
      /\ a.page = w.app.page /\ a.more = w.app.more /\ a.held = None
      /\ ~a.loading /\ a.searching = w.app.searching /\ a.sweeping = w.app.sweeping
      /\ a.binding = w.app.binding
  BY <1>1 DEF MgApp
<1> HIDE DEF a
<1>7. ListsAreOwn(v)
  BY <1>4, <1>6 DEF Holds, ListsAreOwn, OwnRows
<1>8. WaitsHold(v)
  BY <1>4, <1>6 DEF Holds, WaitsHold
<1> QED
  BY <1>4, <1>5, <1>6, <1>7, <1>8, Frames DEF Holds

Turned(w, page, more) == [w EXCEPT !.app.page = page, !.app.more = more]

LEMMA TurnedHolds ==
    ASSUME NEW w, NEW d, NEW s, Holds(w, d, s), NEW page \in Nat, NEW more \in BOOLEAN,
           more => HasPage(w.app.source, w.app.feed, page + 1),
           NEW v, v = Turned(w, page, more)
    PROVE  Holds(v, d, s)
<1> DEFINE a == [w.app EXCEPT !.page = page, !.more = more]
<1>1. w \in Worlds /\ w.app \in MgApp
  BY DEF Holds, Worlds
<1>2. v = [app |-> a, net |-> w.net, store |-> w.store]
  BY <1>1 DEF Turned, Worlds
<1>3. a \in MgApp
  BY <1>1, ZenonT(60) DEF MgApp
<1>4. v \in Worlds /\ v.app = a /\ v.net = w.net /\ v.store = w.store
  BY <1>1, <1>2, <1>3 DEF Worlds
<1>5. SameMarks(w, v) /\ SameRows(w, v) /\ SameWaits(w, v) /\ SameFetch(w, v)
      /\ SameViewers(w, v) /\ SamePushes(w, v)
  BY <1>1, <1>4
  DEF MgApp, SameMarks, SameRows, SameWaits, SameFetch, SameViewers, SamePushes
<1>6. /\ a.list = w.app.list /\ a.source = w.app.source /\ a.feed = w.app.feed
      /\ a.page = page /\ a.held = w.app.held /\ a.chapters = w.app.chapters
  BY <1>1 DEF MgApp
<1>7. a.more <=> more
  BY <1>1 DEF MgApp
<1> HIDE DEF a
<1>8. ListsAreOwn(v)
  BY <1>4, <1>6, <1>7 DEF Holds, ListsAreOwn
<1> QED
  BY <1>4, <1>5, <1>8, Frames DEF Holds

LEMMA FeedNames ==
    "similar" \notin AnyKind /\ "similar" # None
<1> SUFFICES ASSUME "similar" \in AnyKind PROVE FALSE
  BY ListsAssumption
<1>1. PICK v \in Source : "similar" \in ElementsOf(Kinds[v])
  BY DEF AnyKind
<1>2. PICK i \in DOMAIN Kinds[v] : Kinds[v][i] = "similar"
  BY <1>1 DEF ElementsOf
<1> QED
  BY <1>1, <1>2, ListsAssumption

\* A page is of the source that was asked, and says whether another follows.
LEMMA PageIs ==
    ASSUME NEW w, NEW d, NEW s, Holds(w, d, s), NEW x \in Searching(w.net)
    PROVE  /\ Page(x) \in Seq(Row) /\ OwnRows(w.app.source, Page(x))
           /\ x.t \in Lists /\ x \in w.net /\ x.page \in Nat
<1>1. x \in MgEvent /\ x.t \in Lists /\ x \in w.net
  BY DEF Holds, Worlds, Searching, Out
<1>2. /\ x.source = w.app.source /\ x.source \in Source /\ x.page \in Nat
      /\ x.t = "ranked" => HasPage(x.source, x.kind, x.page)
      /\ x.t = "similar" => x.page \in DOMAIN Alike
      /\ x.kind \in OrNone(AnyKind)
  BY <1>1, EventFields DEF Holds, ListsAreOwn
<1> DEFINE own == {m \in Manga : Native[m] = x.source}
<1>3. CASE x.t = "search"
  <2>1. Page(x) = Found[x.source] /\ Found[x.source] \in Seq(own)
    BY <1>2, <1>3, ListsAssumption DEF Page
  <2> QED
    BY <1>1, <1>2, <2>1 DEF OwnRows, Row
<1>4. CASE x.t = "ranked"
  <2>1. x.kind # "similar"
    BY <1>2, FeedNames DEF OrNone
  <2>2. x.kind \in ElementsOf(Kinds[x.source]) /\ x.page \in DOMAIN Ranked[x.source][x.kind]
    BY <1>2, <1>4, <2>1 DEF HasPage
  <2>3. Ranked[x.source][x.kind] \in Seq(Seq(own))
    BY <1>2, <2>2, ListsAssumption DEF ElementsOf
  <2>4. Page(x) \in Seq(own)
    BY <1>4, <2>2, <2>3 DEF Page
  <2>5. \A q \in Seq(own) : q \in Seq(Row) /\ OwnRows(x.source, q)
    BY DEF OwnRows, Row
  <2> HIDE DEF own
  <2>6. Page(x) \in Seq(Row) /\ OwnRows(x.source, Page(x))
    BY <2>4, <2>5
  <2> QED
    BY <1>1, <1>2, <2>6
<1>5. CASE x.t = "similar"
  <2>1. Page(x) = Alike[x.page] /\ Page(x) \in Seq(Al)
    BY <1>2, <1>5, ListsAssumption DEF Page
  <2>2. Manga \cap Al = {}
    BY ListsAssumption
  <2> QED
    BY <1>1, <1>2, <2>1, <2>2 DEF OwnRows, Row
<1> QED
  BY <1>1, <1>2, <1>3, <1>4, <1>5 DEF Lists

LEMMA NextPageIs ==
    ASSUME NEW w, NEW d, NEW s, Holds(w, d, s), NEW x \in Searching(w.net),
           x.t # "search", Wanted(w.app, x)
    PROVE  /\ HasNext(x) \in BOOLEAN
           /\ HasNext(x) => HasPage(w.app.source, w.app.feed, x.page + 1)
<1>1. x \in MgEvent /\ x.t \in {"ranked", "similar"}
  BY DEF Holds, Worlds, Searching, Out, Lists
<1>2. /\ x.source = w.app.source /\ x.source \in Source /\ x.page \in Nat
      /\ x.t = "ranked" => HasPage(x.source, x.kind, x.page)
      /\ x.t = "similar" => x.page \in DOMAIN Alike
      /\ x.kind \in OrNone(AnyKind)
  BY <1>1, EventFields DEF Holds, ListsAreOwn, Searching, Out, Lists
<1>3. CASE x.t = "similar"
  <2>1. w.app.feed = "similar"
    BY <1>3 DEF Wanted
  <2>2. HasNext(x) \in BOOLEAN /\ (HasNext(x) <=> x.page < Len(Alike))
    BY <1>3 DEF HasNext
  <2>3. Alike \in Seq(Seq(Al))
    BY ListsAssumption
  <2> QED
    BY <1>2, <1>3, <2>1, <2>2, <2>3 DEF HasPage
<1>4. CASE x.t = "ranked"
  <2>1. w.app.feed = x.kind
    BY <1>4 DEF Wanted
  <2>2. x.kind # "similar"
    BY <1>2, FeedNames DEF OrNone
  <2>3. x.kind \in ElementsOf(Kinds[x.source]) /\ x.page \in DOMAIN Ranked[x.source][x.kind]
    BY <1>2, <1>4, <2>2 DEF HasPage
  <2>4. Ranked[x.source][x.kind] \in Seq(Seq({m \in Manga : Native[m] = x.source}))
    BY <1>2, <2>3, ListsAssumption DEF ElementsOf
  <2>5. HasNext(x) \in BOOLEAN /\ (HasNext(x) <=> x.page < Len(Ranked[x.source][x.kind]))
    BY <1>4 DEF HasNext
  <2> QED
    BY <1>2, <1>4, <2>1, <2>2, <2>3, <2>4, <2>5 DEF HasPage
<1> QED
  BY <1>1, <1>3, <1>4

\* A page of a list: the first one replaces it, a later one adds to it.
LEMMA ListDoneHolds ==
    ASSUME NEW w, NEW d, NEW s, Holds(w, d, s), NEW x \in Searching(w.net)
    PROVE  Holds(ListDone(Taken(w, x), x), d, s)
<1> DEFINE v == SearchOver(Taken(w, x))
           added == v.app.list \o Kept(Page(x), Row \ ElementsOf(v.app.list))
           filled == IF x.page = 1 THEN take_results(v, Page(x)) ELSE Filled(v, added)
           turned == Turned(filled, x.page, HasNext(x))
<1>1. /\ Page(x) \in Seq(Row) /\ OwnRows(w.app.source, Page(x))
      /\ x.t \in Lists /\ x \in w.net /\ x.page \in Nat
  BY PageIs
<1>2. ListDone(Taken(w, x), x) = IF ~Wanted(v.app, x) THEN v
                                 ELSE IF x.t = "search" THEN filled ELSE turned
  BY DEF ListDone, SearchOver, Filled, Turned
<1>3. /\ Holds(v, d, s) /\ v.app.source = w.app.source /\ v.app.feed = w.app.feed
      /\ v.app.page = w.app.page
  <2>1. w \in Worlds /\ w.app \in MgApp
    BY DEF Holds, Worlds
  <2>2. v.app.feed = w.app.feed /\ v.app.page = w.app.page
    BY <2>1 DEF SearchOver, Taken, MgApp
  <2>3. \A z : z = v => Holds(z, d, s) /\ z.app.source = w.app.source
    BY <1>1, SearchEnds
  <2> HIDE DEF v
  <2> QED
    BY <2>2, <2>3
<1> HIDE DEF v
<1>4. v.app.list \in Seq(Row) /\ OwnRows(w.app.source, v.app.list)
  BY <1>3 DEF Holds, Worlds, MgApp, ListsAreOwn, OwnRows
<1>5. added \in Seq(Row) /\ OwnRows(w.app.source, added)
  <2> DEFINE new == Kept(Page(x), Row \ ElementsOf(v.app.list))
  <2>1. new \in Seq(Row) /\ ElementsOf(new) \subseteq ElementsOf(Page(x))
    BY <1>1, KeptIs
  <2>2. OwnRows(w.app.source, new)
    <3> HIDE DEF new
    <3> SUFFICES ASSUME NEW i \in DOMAIN new, new[i] \in Manga
                 PROVE  Native[new[i]] = w.app.source
      BY DEF OwnRows
    <3>1. new[i] \in ElementsOf(Page(x))
      BY <2>1 DEF ElementsOf
    <3>2. PICK j \in DOMAIN Page(x) : Page(x)[j] = new[i]
      BY <3>1 DEF ElementsOf
    <3> QED
      BY <1>1, <3>2 DEF OwnRows
  <2> HIDE DEF new
  <2>3. \A q, r \in Seq(Row) : OwnRows(w.app.source, q) /\ OwnRows(w.app.source, r)
                               => OwnRows(w.app.source, q \o r)
    BY DEF OwnRows
  <2>4. added = v.app.list \o new
    BY DEF new
  <2> HIDE DEF added
  <2> QED
    BY <1>4, <2>1, <2>2, <2>3, <2>4
<1>6. Holds(filled, d, s) /\ filled.app.source = w.app.source /\ filled.app.feed = w.app.feed
  <2>1. \A z : z = take_results(v, Page(x)) =>
               Holds(z, d, s) /\ z.app.source = v.app.source /\ z.app.feed = v.app.feed
    BY <1>1, <1>3, TakeResultsHolds
  <2> HIDE DEF added
  <2>2. \A z : z = Filled(v, added) =>
               Holds(z, d, s) /\ z.app.source = v.app.source /\ z.app.feed = v.app.feed
    BY <1>3, <1>5, FilledHolds
  <2> QED
    BY <1>3, <2>1, <2>2
<1> HIDE DEF filled
<1>7. ASSUME Wanted(v.app, x), x.t # "search"
      PROVE  Holds(turned, d, s)
  <2>1. Wanted(w.app, x)
    BY <1>3, <1>7 DEF Wanted
  <2>2. HasNext(x) \in BOOLEAN /\ (HasNext(x) => HasPage(w.app.source, w.app.feed, x.page + 1))
    BY <1>7, <2>1, NextPageIs
  <2>3. \A z : z = turned => Holds(z, d, s)
    BY <1>1, <1>6, <2>2, TurnedHolds
  <2> QED
    BY <2>3
<1> HIDE DEF turned
<1> QED
  BY <1>2, <1>3, <1>6, <1>7

\* No answer, or one that did not come.
LEMMA ListFailedHolds ==
    ASSUME NEW w, NEW d, NEW s, Holds(w, d, s), NEW x \in Searching(w.net)
    PROVE  Holds(ListFailed(Taken(w, x), x), d, s)
<1>1. x \in w.net /\ x.t \in Lists
  BY DEF Searching, Out
<1>2. \A v : v = SearchOver(Taken(w, x)) => Holds(v, d, s)
  BY <1>1, SearchEnds
<1> QED
  BY <1>2 DEF ListFailed, SearchOver

\* The row that asked is being looked for no more.
BindOver(w) == [w EXCEPT !.app.binding = None]

LEMMA BindEnds ==
    ASSUME NEW w, NEW d, NEW s, Holds(w, d, s), NEW x \in w.net, x.t = "bind",
           NEW v, v = BindOver(Taken(w, x))
    PROVE  Holds(v, d, s) /\ v.app.source = w.app.source
<1> DEFINE u == Taken(w, x)
           a == [w.app EXCEPT !.binding = None]
<1>1. w \in Worlds /\ w.app \in MgApp
  BY DEF Holds, Worlds
<1>2. /\ u \in Worlds /\ u.app = w.app /\ u.store = w.store
      /\ Binding(u.net) = Binding(w.net) \ {x}
      /\ Searching(u.net) = Searching(w.net)
      /\ Listing(u.net) = Listing(w.net) /\ Fetching(u.net) = Fetching(w.net)
      /\ Sweeping(u.net) = Sweeping(w.net) /\ Watching(u.net) = Watching(w.net)
      /\ Pushing(u.net) = Pushing(w.net)
  <2>1. x.t \notin Lists
    BY DEF Lists
  <2>2. \A z : z = u => /\ z \in Worlds /\ z.app = w.app /\ z.store = w.store
                        /\ Binding(z.net) = Binding(w.net) \ {x}
                        /\ Searching(z.net) = Searching(w.net)
                        /\ Listing(z.net) = Listing(w.net) /\ Fetching(z.net) = Fetching(w.net)
                        /\ Sweeping(z.net) = Sweeping(w.net) /\ Watching(z.net) = Watching(w.net)
                        /\ Pushing(z.net) = Pushing(w.net)
    BY <1>1, <2>1, TakenIs DEF Binding
  <2> HIDE DEF u
  <2> QED
    BY <2>2
<1> HIDE DEF u
<1>3. v = [app |-> a, net |-> u.net, store |-> w.store]
  <2>1. v = BindOver(u)
    BY DEF u
  <2> QED
    BY <1>1, <1>2, <2>1 DEF BindOver, Worlds
<1>4. a \in MgApp
  <2>1. None \in OrNone(Al)
    BY DEF OrNone
  <2> QED
    BY <1>1, <2>1, ZenonT(60) DEF MgApp
<1>5. v \in Worlds /\ v.app = a /\ v.net = u.net /\ v.store = w.store
  BY <1>1, <1>2, <1>3, <1>4 DEF Worlds
<1>6. SameMarks(w, v) /\ SameRows(w, v) /\ SameFetch(w, v) /\ SameViewers(w, v)
      /\ SamePushes(w, v)
  BY <1>1, <1>2, <1>5 DEF MgApp, SameMarks, SameRows, SameFetch, SameViewers, SamePushes
<1>7. /\ a.list = w.app.list /\ a.source = w.app.source /\ a.feed = w.app.feed
      /\ a.page = w.app.page /\ a.more = w.app.more /\ a.held = w.app.held
      /\ a.chapters = w.app.chapters /\ a.searching = w.app.searching
      /\ a.sweeping = w.app.sweeping /\ a.binding = None
      /\ a.loading = w.app.loading /\ a.pending = w.app.pending
  BY <1>1 DEF MgApp
<1> HIDE DEF a
<1>8. ListsAreOwn(v)
  BY <1>2, <1>5, <1>7 DEF Holds, ListsAreOwn
<1>9. WaitsHold(v)
  BY <1>2, <1>5, <1>7 DEF Holds, WaitsHold
<1> QED
  BY <1>5, <1>6, <1>7, <1>8, <1>9, Frames DEF Holds

Rebound(v, x) ==
    LET asked == {i \in DOMAIN v.app.list : v.app.list[i] = x.al}
        i == CHOOSE y \in asked : \A z \in asked : y <= z
        m == Match[x.al][x.source]
        bound == [v EXCEPT !.app.list[i] = m]
    IN  IF asked = {} THEN v
        ELSE IF m = None THEN [v EXCEPT !.app.continuing = None]
        ELSE IF v.app.view = "search" /\ v.app.at = i THEN request_chapters(bound)
        ELSE [bound EXCEPT !.app.continuing = None]

\* The row that asked becomes the source's row, if it still is in the list.
LEMMA BindDoneHolds ==
    ASSUME NEW w, NEW d, NEW s, Holds(w, d, s), NEW x \in Binding(w.net)
    PROVE  Holds(BindDone(Taken(w, x), x), d, s)
<1> DEFINE v == BindOver(Taken(w, x))
           asked == {i \in DOMAIN v.app.list : v.app.list[i] = x.al}
           i == CHOOSE y \in asked : \A z \in asked : y <= z
           m == Match[x.al][x.source]
           rows == [v.app.list EXCEPT ![i] = m]
           bound == Filled(v, rows)
<1>1. x \in w.net /\ x.t = "bind" /\ x \in MgEvent
  BY DEF Holds, Worlds, Binding, Out
<1>2. x.al \in Al /\ x.source \in Source /\ x.source = w.app.source
  BY <1>1, EventFields DEF Holds, ListsAreOwn
<1>3. Holds(v, d, s) /\ v.app.source = w.app.source
  <2>1. \A z : z = v => Holds(z, d, s) /\ z.app.source = w.app.source
    BY <1>1, BindEnds
  <2> HIDE DEF v
  <2> QED
    BY <2>1
<1>4. v \in Worlds /\ v.app \in MgApp
  BY <1>3 DEF Holds, Worlds
<1>5. BindDone(Taken(w, x), x) =
        IF asked = {} THEN v
        ELSE IF m = None THEN [v EXCEPT !.app.continuing = None]
        ELSE IF v.app.view = "search" /\ v.app.at = i THEN request_chapters(bound)
        ELSE [bound EXCEPT !.app.continuing = None]
  <2>1. ASSUME NEW u
        PROVE  BindDone(u, x) = Rebound(BindOver(u), x)
    BY DEF BindDone, Rebound, BindOver
  <2>2. BindDone(Taken(w, x), x) = Rebound(v, x)
    BY <2>1
  <2> HIDE DEF v
  <2>3. [v EXCEPT !.app.list[i] = m] = bound
    <3> HIDE DEF i, m
    <3> QED
      BY <1>4 DEF Filled, Worlds, MgApp
  <2>4. Rebound(v, x) =
          IF asked = {} THEN v
          ELSE IF m = None THEN [v EXCEPT !.app.continuing = None]
          ELSE IF v.app.view = "search" /\ v.app.at = i
               THEN request_chapters([v EXCEPT !.app.list[i] = m])
          ELSE [[v EXCEPT !.app.list[i] = m] EXCEPT !.app.continuing = None]
    BY Zenon DEF Rebound
  <2> HIDE DEF asked, i, m, bound
  <2> QED
    BY <2>2, <2>3, <2>4
<1> HIDE DEF v
<1>6. ASSUME asked # {}, m # None
      PROVE  Holds(bound, d, s)
  <2>1. v.app.list \in Seq(Row) /\ OwnRows(w.app.source, v.app.list)
    BY <1>3 DEF Holds, Worlds, MgApp, ListsAreOwn, OwnRows
  <2>2. i \in DOMAIN v.app.list
    <3>1. asked \subseteq Nat
      BY <2>1
    <3>2. \E y \in asked : \A z \in asked : y <= z
      <4> HIDE DEF asked
      <4> QED
        BY <1>6, <3>1, Least
    <3>3. i \in asked
      BY <3>2
    <3> QED
      BY <3>3
  <2>3. m \in Manga /\ Native[m] = w.app.source
    BY <1>2, <1>6, ListsAssumption
  <2> HIDE DEF i, m
  <2>4. rows \in Seq(Row) /\ OwnRows(w.app.source, rows)
    BY <2>1, <2>2, <2>3 DEF OwnRows, Row
  <2> HIDE DEF rows
  <2>5. \A z : z = bound => Holds(z, d, s)
    BY <1>3, <2>4, FilledHolds
  <2> QED
    BY <2>5
<1>7. \A z : Holds(z, d, s) => Holds([z EXCEPT !.app.continuing = None], d, s)
  BY ContinuingHolds DEF OrNone
<1> HIDE DEF bound, asked, m, i
<1>8. asked # {} /\ m # None => Holds(request_chapters(bound), d, s)
  BY <1>6, RequestHolds
<1> QED
  BY <1>3, <1>5, <1>6, <1>7, <1>8

LEMMA BindFailedHolds ==
    ASSUME NEW w, NEW d, NEW s, Holds(w, d, s), NEW x \in Binding(w.net)
    PROVE  Holds(BindFailed(Taken(w, x), x), d, s)
<1> DEFINE v == BindOver(Taken(w, x))
<1>1. x \in w.net /\ x.t = "bind"
  BY DEF Binding, Out
<1>2. Holds(v, d, s)
  <2>1. \A z : z = v => Holds(z, d, s)
    BY <1>1, BindEnds
  <2> QED
    BY <2>1
<1>3. BindFailed(Taken(w, x), x) = [v EXCEPT !.app.continuing = None]
  <2>1. ASSUME NEW u, u = Taken(w, x)
        PROVE  BindFailed(u, x) = [BindOver(u) EXCEPT !.app.continuing = None]
    BY DEF BindFailed, BindOver
  <2> QED
    BY <2>1
<1>4. \A z : Holds(z, d, s) => Holds([z EXCEPT !.app.continuing = None], d, s)
  BY ContinuingHolds DEF OrNone
<1> HIDE DEF v
<1> QED
  BY <1>2, <1>3, <1>4

\* The chapters that were being asked for are not any more.
ListingOver(w) == [w EXCEPT !.app.loading = FALSE, !.app.pending = None]

LEMMA ListingEnds ==
    ASSUME NEW w, NEW d, NEW s, Holds(w, d, s), NEW x \in w.net, x.t = "chapters",
           NEW v, v = ListingOver(Taken(w, x))
    PROVE  Holds(v, d, s)
<1> DEFINE u == Taken(w, x)
           a == [w.app EXCEPT !.loading = FALSE, !.pending = None]
<1>1. w \in Worlds /\ w.app \in MgApp
  BY DEF Holds, Worlds
<1>2. /\ u \in Worlds /\ u.app = w.app /\ u.store = w.store
      /\ Binding(u.net) = Binding(w.net)
      /\ Searching(u.net) = Searching(w.net) /\ Fetching(u.net) = Fetching(w.net)
      /\ Sweeping(u.net) = Sweeping(w.net) /\ Watching(u.net) = Watching(w.net)
      /\ Pushing(u.net) = Pushing(w.net)
  <2>1. x.t \notin Lists
    BY DEF Lists
  <2>2. \A z : z = u => /\ z \in Worlds /\ z.app = w.app /\ z.store = w.store
                        /\ Binding(z.net) = Binding(w.net)
                        /\ Searching(z.net) = Searching(w.net)
                        /\ Fetching(z.net) = Fetching(w.net)
                        /\ Sweeping(z.net) = Sweeping(w.net) /\ Watching(z.net) = Watching(w.net)
                        /\ Pushing(z.net) = Pushing(w.net)
    BY <1>1, <2>1, TakenIs
  <2> HIDE DEF u
  <2> QED
    BY <2>2
<1> HIDE DEF u
<1>3. v = [app |-> a, net |-> u.net, store |-> w.store]
  <2>1. ASSUME NEW y \in Worlds, NEW z, z = ListingOver(y)
        PROVE  z = [app |-> [y.app EXCEPT !.loading = FALSE, !.pending = None],
                    net |-> y.net, store |-> y.store]
    <3>1. z = [y EXCEPT !.app.loading = FALSE, !.app.pending = None]
      BY <2>1 DEF ListingOver
    <3> QED
      BY <3>1 DEF Worlds
  <2>2. v = ListingOver(u)
    BY DEF u
  <2>3. u.app = w.app /\ u.store = w.store /\ u \in Worlds
    BY <1>2
  <2> QED
    BY <2>1, <2>2, <2>3
<1>4. a \in MgApp
  <2>1. None \in OrNone(Manga)
    BY DEF OrNone
  <2> QED
    BY <1>1, <2>1, ZenonT(60) DEF MgApp
<1>5. v \in Worlds /\ v.app = a /\ v.net = u.net /\ v.store = w.store
  BY <1>1, <1>2, <1>3, <1>4 DEF Worlds
<1>6. SameLists(w, v) /\ SameMarks(w, v) /\ SameRows(w, v) /\ SameFetch(w, v)
      /\ SameViewers(w, v) /\ SamePushes(w, v)
  BY <1>1, <1>2, <1>5
  DEF MgApp, SameLists, SameMarks, SameRows, SameFetch, SameViewers, SamePushes
<1>7. /\ a.searching = w.app.searching /\ a.sweeping = w.app.sweeping
      /\ a.binding = w.app.binding /\ ~a.loading
  BY <1>1 DEF MgApp
<1> HIDE DEF a
<1>8. WaitsHold(v)
  BY <1>2, <1>5, <1>7 DEF Holds, WaitsHold
<1> QED
  BY <1>5, <1>6, <1>8, Frames DEF Holds

\* A list that came is the one shown and the one kept.
Arrived(w, k, q) == [w EXCEPT !.app.chapters = q, !.app.held = k[2], !.app.chapterAt = 1,
                              !.store = put_chapters(@, k, q)]

LEMMA ArrivedHolds ==
    ASSUME NEW w, NEW d, NEW s, Holds(w, d, s), NEW k \in Key, NEW q \in Seq(Chapter),
           ElementsOf(q) \subseteq ElementsOf(Listed[k[2]]),
           NEW v, v = Arrived(w, k, q)
    PROVE  Holds(v, d, s)
<1> DEFINE u == [app |-> w.app, net |-> w.net, store |-> put_chapters(w.store, k, q)]
           m == k[2]
           a == [w.app EXCEPT !.chapters = q, !.held = m, !.chapterAt = 1]
<1>1. w \in Worlds /\ w.app \in MgApp
  BY DEF Holds, Worlds
<1>2. Holds(u, d, s)
  <2>1. \A z : z = u => Holds(z, d, s)
    BY PutChaptersHolds
  <2> QED
    BY <2>1
<1>3. u \in Worlds /\ u.app = w.app /\ u.net = w.net /\ u.store = put_chapters(w.store, k, q)
  BY <1>2 DEF Holds
<1>4. m \in Manga
  BY DEF Key
<1> HIDE DEF u
<1>5. v = [app |-> a, net |-> u.net, store |-> u.store]
  <2> DEFINE st == put_chapters(w.store, k, q)
  <2>1. v = [w EXCEPT !.app.chapters = q, !.app.held = m, !.app.chapterAt = 1, !.store = st]
    BY <1>1 DEF Arrived, Worlds
  <2>2. u.store = st
    BY <1>3
  <2> HIDE DEF st, m
  <2>3. v = [app |-> a, net |-> w.net, store |-> st]
    BY <1>1, <2>1 DEF Worlds
  <2> QED
    BY <1>3, <2>2, <2>3
<1>6. a \in MgApp
  <2>1. 1 \in Nat /\ m \in OrNone(Manga)
    BY <1>4 DEF OrNone
  <2> HIDE DEF m
  <2> QED
    BY <1>1, <2>1, ZenonT(60) DEF MgApp
<1>7. v \in Worlds /\ v.app = a /\ v.net = u.net /\ v.store = u.store
  BY <1>3, <1>5, <1>6 DEF Worlds
<1>8. SameMarks(u, v) /\ SameRows(u, v) /\ SameWaits(u, v) /\ SameFetch(u, v)
      /\ SameViewers(u, v) /\ SamePushes(u, v)
  BY <1>1, <1>3, <1>7
  DEF MgApp, SameMarks, SameRows, SameWaits, SameFetch, SameViewers, SamePushes
<1>9. /\ a.list = w.app.list /\ a.source = w.app.source /\ a.feed = w.app.feed
      /\ a.page = w.app.page /\ a.more = w.app.more /\ a.held = m /\ a.chapters = q
  BY <1>1 DEF MgApp
<1> HIDE DEF a
<1>10. ListsAreOwn(v)
  BY <1>2, <1>3, <1>7, <1>9 DEF Holds, ListsAreOwn
<1> QED
  BY <1>2, <1>7, <1>8, <1>10, Frames DEF Holds

Resumed(fresh, m, q) ==
    LET calm == [fresh EXCEPT !.app.continuing = None]
    IN  IF ~(selected(fresh.app) = m /\ q # << >>) THEN calm
        ELSE IF fresh.app.continuing = None THEN [fresh EXCEPT !.app.focus = "chapters"]
        ELSE continue_reading([calm EXCEPT !.app.focus = "chapters"])

\* Chapters of a manga: shown, kept, and read on when that is what they were for.
LEMMA ChaptersDoneHolds ==
    ASSUME NEW w, NEW s, Holds(w, disk, s), NEW x \in Listing(w.net),
           NEW q \in Seq(Chapter), ElementsOf(q) \subseteq ElementsOf(Listed[x.key[2]])
    PROVE  Holds(ChaptersDone(Taken(w, x), x, q), disk, s)
<1> DEFINE k == x.key
           v == Arrived(ListingOver(Taken(w, x)), k, q)
           h == hydrate_progress(v, k)
           fresh == reload_library(h)
           calm == [fresh EXCEPT !.app.continuing = None]
<1>1. x \in w.net /\ x.t = "chapters" /\ k \in Key
  <2>1. x \in w.net /\ x.t = "chapters" /\ x \in MgEvent
    BY DEF Holds, Worlds, Listing, Out
  <2> QED
    BY <2>1, EventFields
<1>2. Holds(v, disk, s)
  <2> DEFINE u == ListingOver(Taken(w, x))
  <2>1. \A z : z = u => Holds(z, disk, s)
    BY <1>1, ListingEnds
  <2>2. Holds(u, disk, s)
    BY <2>1
  <2> HIDE DEF u, k
  <2>3. \A z : z = Arrived(u, k, q) => Holds(z, disk, s)
    BY <1>1, <2>2, ArrivedHolds DEF k
  <2> QED
    BY <2>3 DEF u
<1>3. ChaptersDone(Taken(w, x), x, q) =
        IF ~(selected(fresh.app) = k[2] /\ q # << >>) THEN calm
        ELSE IF fresh.app.continuing = None THEN [fresh EXCEPT !.app.focus = "chapters"]
        ELSE continue_reading([calm EXCEPT !.app.focus = "chapters"])
  <2>1. ASSUME NEW u
        PROVE  [u EXCEPT !.app.loading = FALSE, !.app.pending = None, !.app.chapters = q,
                         !.app.held = k[2], !.app.chapterAt = 1,
                         !.store = put_chapters(@, k, q)]
               = Arrived(ListingOver(u), k, q)
    BY DEF Arrived, ListingOver
  <2>2. ASSUME NEW u
        PROVE  ChaptersDone(u, x, q)
               = Resumed(reload_library(hydrate_progress(
                   [u EXCEPT !.app.loading = FALSE, !.app.pending = None, !.app.chapters = q,
                             !.app.held = k[2], !.app.chapterAt = 1,
                             !.store = put_chapters(@, k, q)], k)), k[2], q)
    BY Zenon DEF ChaptersDone, Resumed
  <2>3. ChaptersDone(Taken(w, x), x, q) = Resumed(fresh, k[2], q)
    BY <2>1, <2>2
  <2> HIDE DEF fresh
  <2> QED
    BY <2>3 DEF Resumed
<1> HIDE DEF v
<1>4. Holds(h, disk, s)
  <2>1. \A z : z = h => Holds(z, disk, s)
    BY <1>1, <1>2, HydrateHolds
  <2> QED
    BY <2>1
<1> HIDE DEF h
<1>5. Holds(fresh, disk, s)
  <2>1. \A z : z = fresh => Holds(z, disk, s)
    BY <1>4, ReloadHolds
  <2> QED
    BY <2>1
<1> HIDE DEF fresh
<1>6. Holds(calm, disk, s)
  BY <1>5, ContinuingHolds DEF OrNone
<1> HIDE DEF calm
<1>7. Holds([fresh EXCEPT !.app.focus = "chapters"], disk, s)
  BY <1>5, FocusHolds
<1>8. Holds(continue_reading([calm EXCEPT !.app.focus = "chapters"]), disk, s)
  BY <1>6, FocusHolds, ContinueReadingHolds
<1> QED
  BY <1>3, <1>6, <1>7, <1>8

LEMMA ChaptersFailedHolds ==
    ASSUME NEW w, NEW d, NEW s, Holds(w, d, s), NEW x \in Listing(w.net)
    PROVE  Holds(ChaptersFailed(Taken(w, x), x), d, s)
<1> DEFINE v == ListingOver(Taken(w, x))
<1>1. x \in w.net /\ x.t = "chapters"
  BY DEF Listing, Out
<1>2. Holds(v, d, s)
  <2>1. \A z : z = v => Holds(z, d, s)
    BY <1>1, ListingEnds
  <2> QED
    BY <2>1
<1>3. ChaptersFailed(Taken(w, x), x) = [v EXCEPT !.app.continuing = None]
  <2>1. ASSUME NEW u
        PROVE  ChaptersFailed(u, x) = [ListingOver(u) EXCEPT !.app.continuing = None]
    BY DEF ChaptersFailed, ListingOver
  <2> QED
    BY <2>1
<1>4. \A z : Holds(z, d, s) => Holds([z EXCEPT !.app.continuing = None], d, s)
  BY ContinuingHolds DEF OrNone
<1> HIDE DEF v
<1> QED
  BY <1>2, <1>3, <1>4

-----------------------------------------------------------------------------
(* Pages *)

\* A worker goes on to its next step.
Stepped(w, x, y) == [app |-> w.app, net |-> (w.net \ {x}) \cup {y}, store |-> w.store]

SteppedAs(w, u, x, y) ==
    /\ u \in Worlds /\ u.app = w.app /\ u.store = w.store
    /\ \A K : Out(u.net, K) = IF x \in Out(w.net, K) THEN (Out(w.net, K) \ {x}) \cup {y}
                              ELSE Out(w.net, K)
    /\ x.t \notin Lists => Searching(u.net) = Searching(w.net)
    /\ x.t # "bind" => Binding(u.net) = Binding(w.net)
    /\ x.t # "chapters" => Listing(u.net) = Listing(w.net)
    /\ x.t # "pages" => Fetching(u.net) = Fetching(w.net)
    /\ x.t # "sweep" => Sweeping(u.net) = Sweeping(w.net)
    /\ x.t # "viewer" => Watching(u.net) = Watching(w.net)
    /\ x.t # "push" => Pushing(u.net) = Pushing(w.net)

LEMMA SteppedIs ==
    ASSUME NEW w \in Worlds, NEW x \in w.net, NEW y \in MgEvent, y.t = x.t,
           y.t \in Timed => (y.live <=> x.live),
           NEW u, u = Stepped(w, x, y)
    PROVE  SteppedAs(w, u, x, y)
<1>1. u \in Worlds /\ u.app = w.app /\ u.store = w.store /\ u.net = (w.net \ {x}) \cup {y}
  BY DEF Worlds, Stepped
<1>2. ASSUME NEW K
      PROVE  Out(u.net, K) = IF x \in Out(w.net, K) THEN (Out(w.net, K) \ {x}) \cup {y}
                             ELSE Out(w.net, K)
  <2>1. x \in Out(w.net, K) <=> (y.t \in K /\ (y.t \in Timed => y.live))
    BY DEF Out
  <2> QED
    BY <1>1, <2>1 DEF Out
<1>3. \A K : x.t \notin K => x \notin Out(w.net, K)
  BY DEF Out
<1>4. \A K : x.t \notin K => Out(u.net, K) = Out(w.net, K)
  BY <1>2, <1>3
<1> QED
  BY <1>1, <1>2, <1>4
  DEF SteppedAs, Searching, Binding, Listing, Fetching, Sweeping, Watching, Pushing

\* What is on the disk stays there.
LEMMA GrownHolds ==
    ASSUME NEW w, NEW d, NEW s, Holds(w, d, s), NEW e, d \subseteq e
    PROVE  Holds(w, e, s)
<1>1. FetchHolds(w, e)
  BY DEF Holds, FetchHolds
<1>2. ViewersHold(w, e)
  BY DEF Holds, ViewersHold
<1> QED
  BY <1>1, <1>2 DEF Holds

\* The pages of a chapter are all there, or are not.
LEMMA FetchedHolds ==
    ASSUME NEW w, NEW d, NEW s, Holds(w, d, s), NEW x \in w.net, x.t = "pages",
           NEW phase \in {"done", "failed"}, phase = "done" => x.chapter \in d,
           NEW v, v = Stepped(w, x, [x EXCEPT !.phase = phase])
    PROVE  Holds(v, d, s)
<1> DEFINE y == [x EXCEPT !.phase = phase]
<1>1. w \in Worlds /\ x \in MgEvent
  BY DEF Holds, Worlds
<1>2. y \in MgEvent /\ y.t = x.t /\ (y.live <=> x.live) /\ y.chapter = x.chapter
      /\ y.phase = phase
  BY <1>1 DEF MgEvent, Lists
<1> HIDE DEF y
<1>3. /\ v \in Worlds /\ v.app = w.app /\ v.store = w.store
      /\ \A K : Out(v.net, K) = IF x \in Out(w.net, K) THEN (Out(w.net, K) \ {x}) \cup {y}
                                ELSE Out(w.net, K)
      /\ Searching(v.net) = Searching(w.net) /\ Binding(v.net) = Binding(w.net)
      /\ Listing(v.net) = Listing(w.net) /\ Sweeping(v.net) = Sweeping(w.net)
      /\ Watching(v.net) = Watching(w.net) /\ Pushing(v.net) = Pushing(w.net)
  <2>1. v = Stepped(w, x, y)
    BY DEF y
  <2>2. x.t \notin Lists
    BY DEF Lists
  <2>3. SteppedAs(w, v, x, y)
    BY <1>1, <1>2, <2>1, SteppedIs
  <2> QED
    BY <2>2, <2>3 DEF SteppedAs
<1>4. SameLists(w, v) /\ SameMarks(w, v) /\ SameRows(w, v) /\ SameWaits(w, v)
      /\ SameViewers(w, v) /\ SamePushes(w, v)
  BY <1>3 DEF SameLists, SameMarks, SameRows, SameWaits, SameViewers, SamePushes
<1>5. FetchHolds(v, d)
  <2>1. CASE x \in Fetching(w.net)
    <3>1. Fetching(w.net) = {x} /\ x.chapter = w.app.fetching
      BY <2>1 DEF Holds, FetchHolds
    <3>2. Fetching(v.net) = (Fetching(w.net) \ {x}) \cup {y}
      BY <1>3, <2>1 DEF Fetching
    <3>3. Fetching(v.net) = {y}
      BY <3>1, <3>2
    <3> QED
      BY <1>2, <1>3, <3>1, <3>3 DEF Holds, FetchHolds
  <2>2. CASE x \notin Fetching(w.net)
    <3>1. Fetching(v.net) = Fetching(w.net)
      BY <1>3, <2>2 DEF Fetching
    <3> QED
      BY <1>3, <3>1 DEF Holds, FetchHolds
  <2> QED
    BY <2>1, <2>2
<1> QED
  BY <1>3, <1>4, <1>5, Frames DEF Holds

\* The chapter that was being fetched is not any more.
FetchOver(w) == [w EXCEPT !.app.fetching = None]

LEMMA FetchEnds ==
    ASSUME NEW w, NEW d, NEW s, Holds(w, d, s), NEW x \in Fetching(w.net),
           NEW v, v = FetchOver(Taken(w, x))
    PROVE  /\ Unfetched(v, d, s) /\ v.app.fetching = None /\ v.app.dl = w.app.dl
           /\ v.app.viewers = w.app.viewers
<1> DEFINE u == Taken(w, x)
           a == [w.app EXCEPT !.fetching = None]
<1>1. w \in Worlds /\ w.app \in MgApp /\ x \in w.net /\ x.t = "pages"
  BY DEF Holds, Worlds, Fetching, Out
<1>2. /\ u \in Worlds /\ u.app = w.app /\ u.store = w.store
      /\ Fetching(u.net) = Fetching(w.net) \ {x}
      /\ Binding(u.net) = Binding(w.net)
      /\ Searching(u.net) = Searching(w.net) /\ Listing(u.net) = Listing(w.net)
      /\ Sweeping(u.net) = Sweeping(w.net) /\ Watching(u.net) = Watching(w.net)
      /\ Pushing(u.net) = Pushing(w.net)
  <2>1. x.t \notin Lists
    BY <1>1 DEF Lists
  <2>2. \A z : z = u => /\ z \in Worlds /\ z.app = w.app /\ z.store = w.store
                        /\ Fetching(z.net) = Fetching(w.net) \ {x}
                        /\ Binding(z.net) = Binding(w.net)
                        /\ Searching(z.net) = Searching(w.net) /\ Listing(z.net) = Listing(w.net)
                        /\ Sweeping(z.net) = Sweeping(w.net) /\ Watching(z.net) = Watching(w.net)
                        /\ Pushing(z.net) = Pushing(w.net)
    BY <1>1, <2>1, TakenIs DEF Fetching
  <2> HIDE DEF u
  <2> QED
    BY <2>2
<1> HIDE DEF u
<1>3. v = [app |-> a, net |-> u.net, store |-> w.store]
  <2>1. v = FetchOver(u)
    BY DEF u
  <2> QED
    BY <1>1, <1>2, <2>1 DEF FetchOver, Worlds
<1>4. a \in MgApp
  <2>1. None \in OrNone(Chapter)
    BY DEF OrNone
  <2> QED
    BY <1>1, <2>1, ZenonT(60) DEF MgApp
<1>5. v \in Worlds /\ v.app = a /\ v.net = u.net /\ v.store = w.store
  BY <1>1, <1>2, <1>3, <1>4 DEF Worlds
<1>6. SameLists(w, v) /\ SameMarks(w, v) /\ SameRows(w, v) /\ SameWaits(w, v)
      /\ SamePushes(w, v)
  BY <1>1, <1>2, <1>5
  DEF MgApp, SameLists, SameMarks, SameRows, SameWaits, SamePushes
<1>7. a.fetching = None /\ a.viewers = w.app.viewers /\ a.dl = w.app.dl
  BY <1>1 DEF MgApp
<1>8. None \notin Chapter
  BY ListsAssumption
<1> HIDE DEF a
<1>9. ViewersHold(v, d)
  <2>1. \A p \in w.app.viewers : p.chapter \in Chapter
    BY <1>1 DEF MgApp, MgOpenViewer
  <2> QED
    BY <1>2, <1>5, <1>7, <1>8, <2>1 DEF Holds, ViewersHold
<1>10. Fetching(v.net) = {}
  <2>1. Fetching(w.net) = {x}
    BY DEF Holds, FetchHolds
  <2> QED
    BY <1>2, <1>5, <2>1
<1> QED
  BY <1>5, <1>6, <1>7, <1>9, <1>10, Frames DEF Holds, Unfetched

\* The run counts a chapter, come or not.
Counted(w, dl) == [w EXCEPT !.app.dl = dl]

LEMMA CountedHolds ==
    ASSUME NEW w, NEW s, Unfetched(w, disk, s), w.app.fetching = None,
           NEW dl \in Downloads, dl.done + dl.failed + Len(dl.left) = dl.total,
           NEW v, v = start_next_download(Counted(w, dl))
    PROVE  Holds(v, disk, s)
<1> DEFINE a == [w.app EXCEPT !.dl = dl]
           u == [app |-> a, net |-> w.net, store |-> w.store]
<1>1. w \in Worlds /\ w.app \in MgApp
  BY DEF Unfetched, Worlds
<1>2. Counted(w, dl) = u
  BY <1>1 DEF Counted, Worlds
<1>3. a \in MgApp
  BY <1>1, ZenonT(60) DEF MgApp, Downloads
<1>4. FetchOnly(w.app, a) /\ a.fetching = None /\ a.dl = dl
  BY <1>1 DEF MgApp, FetchOnly
<1> HIDE DEF a
<1>5. Unfetched(u, disk, s)
  <2>1. \A x \in w.app.viewers : x.chapter # None
    <3>1. None \notin Chapter
      BY ListsAssumption
    <3> QED
      BY <1>1, <3>1 DEF MgApp, MgOpenViewer
  <2>2. \A z : z = u => Unfetched(z, disk, s)
    BY <1>3, <1>4, <2>1, FetchMarked
  <2> QED
    BY <2>2
<1>6. u.app.dl = dl /\ u.app.fetching = None
  BY <1>4
<1> HIDE DEF u
<1> QED
  BY <1>2, <1>5, <1>6, NextDownloadHolds

Come(dl) == [dl EXCEPT !.done = @ + 1]

Lost(dl) == [dl EXCEPT !.failed = @ + 1]

AccountsFor(e) == e \in Downloads /\ e.done + e.failed + Len(e.left) = e.total

LEMMA OneMore ==
    ASSUME NEW i \in Nat, NEW j \in Nat, NEW k \in Nat, NEW n \in Nat, i + j + k + 1 = n
    PROVE  (i + 1) + j + k = n /\ i + (j + 1) + k = n
OBVIOUS

LEMMA RunGoesOn ==
    ASSUME NEW dl \in Downloads, AddsUp(dl)
    PROVE  AccountsFor(Come(dl)) /\ AccountsFor(Lost(dl))
<1>1. /\ dl.done \in Nat /\ dl.failed \in Nat /\ dl.total \in Nat /\ dl.left \in Seq(Chapter)
      /\ dl.done + 1 \in Nat /\ dl.failed + 1 \in Nat /\ Len(dl.left) \in Nat
  BY DEF Downloads
<1>2. dl.done + dl.failed + Len(dl.left) + 1 = dl.total
  BY DEF AddsUp
<1>3. dl.done \in Nat /\ dl.failed \in Nat /\ dl.total \in Nat /\ Len(dl.left) \in Nat
  BY <1>1
<1>4. /\ (dl.done + 1) + dl.failed + Len(dl.left) = dl.total
      /\ dl.done + (dl.failed + 1) + Len(dl.left) = dl.total
  BY <1>2, <1>3, OneMore
<1>5. ASSUME NEW e, e = Come(dl)
      PROVE  AccountsFor(e)
  <2>1. e \in Downloads
    BY <1>1, <1>5, ZenonT(60) DEF Downloads, Come
  <2>2. /\ e.done = dl.done + 1 /\ e.failed = dl.failed
        /\ e.left = dl.left /\ e.total = dl.total
    BY <1>5 DEF Downloads, Come
  <2> QED
    BY <1>4, <2>1, <2>2 DEF AccountsFor
<1>6. ASSUME NEW e, e = Lost(dl)
      PROVE  AccountsFor(e)
  <2>1. e \in Downloads
    BY <1>1, <1>6, ZenonT(60) DEF Downloads, Lost
  <2>2. /\ e.done = dl.done /\ e.failed = dl.failed + 1
        /\ e.left = dl.left /\ e.total = dl.total
    BY <1>6 DEF Downloads, Lost
  <2> QED
    BY <1>4, <2>1, <2>2 DEF AccountsFor
<1> QED
  BY <1>5, <1>6

WalkedOn(v, x) ==
    IF v.app.dl.on THEN start_next_download([v EXCEPT !.app.dl.done = @ + 1])
    ELSE IF chapters_engaged(v.app) /\ x.chapter \in ElementsOf(v.app.chapters)
    THEN open_viewer(v, selected(v.app), x.chapter)
    ELSE v

WalkedPast(v) ==
    IF v.app.dl.on THEN start_next_download([v EXCEPT !.app.dl.failed = @ + 1]) ELSE v

LEMMA CountedIs ==
    ASSUME NEW v \in Worlds
    PROVE  /\ [v EXCEPT !.app.dl.done = @ + 1] = Counted(v, Come(v.app.dl))
           /\ [v EXCEPT !.app.dl.failed = @ + 1] = Counted(v, Lost(v.app.dl))
BY DEF Counted, Come, Lost, Worlds, MgApp

\* A run goes on to its next chapter; one that was opened is shown.
LEMMA PagesDoneHolds ==
    ASSUME NEW w, NEW s, Holds(w, disk, s), NEW x \in Fetching(w.net), x.phase = "done"
    PROVE  Holds(PagesDone(Taken(w, x), x), disk, s)
<1> DEFINE v == FetchOver(Taken(w, x))
           dl == Come(v.app.dl)
           next == start_next_download(Counted(v, dl))
           shown == open_viewer(v, selected(v.app), x.chapter)
<1>1. PagesDone(Taken(w, x), x) = WalkedOn(v, x)
  <2>1. ASSUME NEW u
        PROVE  PagesDone(u, x) = WalkedOn(FetchOver(u), x)
    BY DEF PagesDone, WalkedOn, FetchOver
  <2> QED
    BY <2>1
<1>2. /\ Unfetched(v, disk, s) /\ v.app.fetching = None /\ v.app.dl = w.app.dl
      /\ v.app.viewers = w.app.viewers
  <2>1. \A z : z = v => /\ Unfetched(z, disk, s) /\ z.app.fetching = None
                        /\ z.app.dl = w.app.dl /\ z.app.viewers = w.app.viewers
    BY FetchEnds
  <2> HIDE DEF v
  <2> QED
    BY <2>1
<1> HIDE DEF v
<1>3. x.chapter = w.app.fetching /\ x.chapter \in disk /\ x.chapter \in Chapter
  <2>1. x \in MgEvent /\ x.t = "pages"
    BY DEF Holds, Worlds, Fetching, Out
  <2> QED
    BY <2>1, EventFields DEF Holds, FetchHolds
<1>4. ASSUME v.app.dl.on
      PROVE  Holds(next, disk, s)
  <2>1. v.app.dl \in Downloads /\ AddsUp(v.app.dl)
    <3>1. w.app.dl \in Downloads
      BY DEF Holds, Worlds, MgApp, Downloads
    <3> QED
      BY <1>2, <1>4, <3>1 DEF Holds, FetchHolds, AddsUp
  <2>2. dl \in Downloads /\ dl.done + dl.failed + Len(dl.left) = dl.total
    BY <2>1, RunGoesOn DEF AccountsFor
  <2> HIDE DEF dl
  <2>3. \A z : z = next => Holds(z, disk, s)
    BY <1>2, <2>2, CountedHolds
  <2> QED
    BY <2>3
<1>5. ASSUME ~v.app.dl.on
      PROVE  Holds(v, disk, s)
  BY <1>2, <1>5 DEF Unfetched, Holds, FetchHolds
<1>6. ASSUME ~v.app.dl.on, chapters_engaged(v.app), x.chapter \in ElementsOf(v.app.chapters)
      PROVE  Holds(shown, disk, s)
  <2>1. \A p \in v.app.viewers : p.chapter # x.chapter
    BY <1>2, <1>3 DEF Holds, ViewersHold
  <2>2. v.app.fetching # x.chapter
    BY <1>2, <1>3, ListsAssumption
  <2> DEFINE c == x.chapter
  <2>3. Holds(v, disk, s) /\ c \in ElementsOf(v.app.chapters) /\ c \in disk
        /\ v.app.fetching # c /\ \A p \in v.app.viewers : p.chapter # c
    BY <1>3, <1>5, <1>6, <2>1, <2>2
  <2>4. shown = open_viewer(v, selected(v.app), c)
    OBVIOUS
  <2> HIDE DEF c, shown
  <2> QED
    BY <1>6, <2>3, <2>4, OpenViewerHolds
<1>7. WalkedOn(v, x) =
        IF v.app.dl.on THEN next
        ELSE IF chapters_engaged(v.app) /\ x.chapter \in ElementsOf(v.app.chapters)
        THEN shown ELSE v
  <2>1. [v EXCEPT !.app.dl.done = @ + 1] = Counted(v, dl)
    BY <1>2, CountedIs DEF Unfetched
  <2> QED
    BY <2>1 DEF WalkedOn
<1> HIDE DEF next, shown
<1> QED
  BY <1>1, <1>4, <1>5, <1>6, <1>7

LEMMA PagesFailedHolds ==
    ASSUME NEW w, NEW s, Holds(w, disk, s), NEW x \in Fetching(w.net)
    PROVE  Holds(PagesFailed(Taken(w, x), x), disk, s)
<1> DEFINE v == FetchOver(Taken(w, x))
           dl == Lost(v.app.dl)
           next == start_next_download(Counted(v, dl))
<1>1. PagesFailed(Taken(w, x), x) = WalkedPast(v)
  <2>1. ASSUME NEW u
        PROVE  PagesFailed(u, x) = WalkedPast(FetchOver(u))
    BY DEF PagesFailed, WalkedPast, FetchOver
  <2> QED
    BY <2>1
<1>2. /\ Unfetched(v, disk, s) /\ v.app.fetching = None /\ v.app.dl = w.app.dl
  <2>1. \A z : z = v => /\ Unfetched(z, disk, s) /\ z.app.fetching = None
                        /\ z.app.dl = w.app.dl
    BY FetchEnds
  <2> HIDE DEF v
  <2> QED
    BY <2>1
<1> HIDE DEF v
<1>3. ASSUME v.app.dl.on
      PROVE  Holds(next, disk, s)
  <2>1. v.app.dl \in Downloads /\ AddsUp(v.app.dl)
    <3>1. w.app.dl \in Downloads
      BY DEF Holds, Worlds, MgApp, Downloads
    <3> QED
      BY <1>2, <1>3, <3>1 DEF Holds, FetchHolds, AddsUp
  <2>2. dl \in Downloads /\ dl.done + dl.failed + Len(dl.left) = dl.total
    BY <2>1, RunGoesOn DEF AccountsFor
  <2> HIDE DEF dl
  <2>3. \A z : z = next => Holds(z, disk, s)
    BY <1>2, <2>2, CountedHolds
  <2> QED
    BY <2>3
<1>4. ASSUME ~v.app.dl.on
      PROVE  Holds(v, disk, s)
  BY <1>2, <1>4 DEF Unfetched, Holds, FetchHolds
<1>5. WalkedPast(v) = IF v.app.dl.on THEN next ELSE v
  <2>1. [v EXCEPT !.app.dl.failed = @ + 1] = Counted(v, dl)
    BY <1>2, CountedIs DEF Unfetched
  <2> QED
    BY <2>1 DEF WalkedPast
<1> HIDE DEF next
<1> QED
  BY <1>1, <1>3, <1>4, <1>5

-----------------------------------------------------------------------------
(* Closing a viewer *)

Closed(w, c) == [w EXCEPT !.app.viewers = @ \ {p \in w.app.viewers : p.chapter = c}]

LEMMA ClosedHolds ==
    ASSUME NEW w, NEW d, NEW s, Holds(w, d, s), NEW x \in Watching(w.net),
           NEW v, v = Closed(Taken(w, x), x.chapter)
    PROVE  Holds(v, d, s) /\ v.store = w.store
<1> DEFINE u == Taken(w, x)
           kept == w.app.viewers \ {p \in w.app.viewers : p.chapter = x.chapter}
           a == [w.app EXCEPT !.viewers = kept]
<1>1. w \in Worlds /\ w.app \in MgApp /\ x \in w.net /\ x.t = "viewer"
  BY DEF Holds, Worlds, Watching, Out
<1>2. /\ u \in Worlds /\ u.app = w.app /\ u.store = w.store
      /\ Watching(u.net) = Watching(w.net) \ {x}
      /\ Binding(u.net) = Binding(w.net)
      /\ Searching(u.net) = Searching(w.net) /\ Listing(u.net) = Listing(w.net)
      /\ Sweeping(u.net) = Sweeping(w.net) /\ Fetching(u.net) = Fetching(w.net)
      /\ Pushing(u.net) = Pushing(w.net)
  <2>1. x.t \notin Lists
    BY <1>1 DEF Lists
  <2>2. \A z : z = u => /\ z \in Worlds /\ z.app = w.app /\ z.store = w.store
                        /\ Watching(z.net) = Watching(w.net) \ {x}
                        /\ Binding(z.net) = Binding(w.net)
                        /\ Searching(z.net) = Searching(w.net) /\ Listing(z.net) = Listing(w.net)
                        /\ Sweeping(z.net) = Sweeping(w.net) /\ Fetching(z.net) = Fetching(w.net)
                        /\ Pushing(z.net) = Pushing(w.net)
    BY <1>1, <2>1, TakenIs DEF Watching
  <2> HIDE DEF u
  <2> QED
    BY <2>2
<1> HIDE DEF u
<1>3. v = [app |-> a, net |-> u.net, store |-> w.store]
  <2>1. v = Closed(u, x.chapter)
    BY DEF u
  <2> QED
    BY <1>1, <1>2, <2>1 DEF Closed, Worlds, MgApp
<1>4. kept \in SUBSET MgOpenViewer
  BY <1>1 DEF MgApp
<1>5. \A p : p \in kept <=> p \in w.app.viewers /\ p.chapter # x.chapter
  OBVIOUS
<1> HIDE DEF kept
<1>6. a \in MgApp
  BY <1>1, <1>4, ZenonT(60) DEF MgApp
<1>7. v \in Worlds /\ v.app = a /\ v.net = u.net /\ v.store = w.store
  BY <1>1, <1>2, <1>3, <1>6 DEF Worlds
<1>8. SameLists(w, v) /\ SameMarks(w, v) /\ SameWaits(w, v) /\ SameFetch(w, v)
      /\ SamePushes(w, v)
  BY <1>1, <1>2, <1>7
  DEF MgApp, SameLists, SameMarks, SameWaits, SameFetch, SamePushes
<1>9. a.viewers = kept /\ a.undo = w.app.undo /\ a.fetching = w.app.fetching
  BY <1>1 DEF MgApp
<1> HIDE DEF a
<1>10. RowsHold(v)
  BY <1>5, <1>7, <1>9 DEF Holds, RowsHold
<1>11. ViewersHold(v, d)
  BY <1>2, <1>5, <1>7, <1>9 DEF Holds, ViewersHold
<1> QED
  BY <1>7, <1>8, <1>10, <1>11, Frames DEF Holds

\* What a chapter read, or left on a page, is in the database and on the screen.
MarkRow(k, c) == [key |-> k, chapter |-> c, read |-> TRUE, resume |-> FALSE]

MarkedRead(v, k, c) ==
    [v EXCEPT
        !.store = IF k = None THEN @ ELSE mark_read(@, k, c),
        !.app.read = IF OnScreen(v.app, k) THEN @ \cup {c} ELSE @,
        !.app.resume = IF OnScreen(v.app, k) THEN @ \ {c} ELSE @,
        !.app.undo = [key |-> k, chapter |-> c,
                      prior |-> IF k = None THEN None ELSE Prior(v.store, k, c)]]

\* A row of the manga is put: the database of the world after it.
ReadPut(v, k, r) == IF k = None THEN v.store ELSE ReadNow(v.store, r)

LEMMA ReadPutIs ==
    ASSUME NEW v, NEW d, NEW s, Holds(v, d, s), NEW r \in Progress,
           Written(v.store.known, r),
           NEW st, st = ReadPut(v, r.key, r)
    PROVE  /\ st \in Store /\ st.known = v.store.known /\ st.synced = v.store.synced
           /\ st.cache = v.store.cache
           /\ \A q \in st.rows : Written(st.known, q)
           /\ r.key # None => MarkedAs(v.store.rows, st.rows, r, r.read, r.resume)
           /\ r.key = None => st = v.store
<1>1. v.store \in Store /\ \A q \in v.store.rows : Written(v.store.known, q)
  BY DEF Holds, Worlds, RowsHold
<1>2. CASE r.key = None
  BY <1>1, <1>2 DEF ReadPut
<1>3. CASE r.key # None
  <2>1. st = ReadNow(v.store, r)
    BY <1>3 DEF ReadPut
  <2>2. /\ st \in Store /\ st.known = v.store.known /\ st.synced = v.store.synced
        /\ st.cache = v.store.cache
        /\ st.rows = (v.store.rows \ RowsAt(v.store.rows, r.key, r.chapter)) \cup {r}
    BY <1>1, <2>1, ReadNowIs
  <2>3. MarkedAs(v.store.rows, st.rows, r, r.read, r.resume)
    BY <2>2, PutMarks
  <2>4. \A q \in st.rows : Written(st.known, q)
    BY <1>1, <2>2
  <2> QED
    BY <1>3, <2>2, <2>3, <2>4
<1> QED
  BY <1>2, <1>3

LEMMA MarkedReadHolds ==
    ASSUME NEW v, NEW d, NEW s, Holds(v, d, s), NEW k \in Key, NEW c \in Chapter,
           Written(v.store.known, MarkRow(k, c)),
           NEW u, u = MarkedRead(v, k, c)
    PROVE  Holds(u, d, s)
<1> DEFINE r == MarkRow(k, c)
           st == ReadPut(v, k, r)
           prior == IF k = None THEN None ELSE Prior(v.store, k, c)
           undo == [key |-> k, chapter |-> c, prior |-> prior]
           R == IF OnScreen(v.app, k) THEN v.app.read \cup {c} ELSE v.app.read
           S == IF OnScreen(v.app, k) THEN v.app.resume \ {c} ELSE v.app.resume
           a == [v.app EXCEPT !.read = R, !.resume = S, !.undo = undo]
<1>1. v \in Worlds /\ v.app \in MgApp /\ v.store \in Store /\ v.store.rows \subseteq Progress
  BY DEF Holds, Worlds, Store
<1>2. u = [app |-> a, net |-> v.net, store |-> st]
  <2>1. u = [v EXCEPT !.store = st, !.app.read = R, !.app.resume = S, !.app.undo = undo]
    BY <1>1 DEF MarkedRead, ReadPut, mark_read, MarkRow, Worlds, MgApp
  <2> HIDE DEF st, R, S, undo
  <2> QED
    BY <1>1, <2>1 DEF Worlds
<1>3. r \in Progress /\ r.key = k /\ r.chapter = c /\ r.read /\ ~r.resume
  BY DEF MarkRow, Progress
<1> HIDE DEF r
<1>4. /\ st \in Store /\ st.known = v.store.known /\ st.synced = v.store.synced
      /\ st.cache = v.store.cache
      /\ \A q \in st.rows : Written(st.known, q)
      /\ k # None => MarkedAs(v.store.rows, st.rows, r, r.read, r.resume)
      /\ k = None => st = v.store
  <2>1. Written(v.store.known, r) /\ st = ReadPut(v, r.key, r)
    BY <1>3 DEF r
  <2> HIDE DEF st
  <2> QED
    BY <1>3, <2>1, ReadPutIs
<1> HIDE DEF st
<1>5. prior \in OrNone(Progress) /\ Undoable(st.known, undo)
  <2>1. CASE prior = None
    BY <2>1 DEF Undoable, OrNone
  <2>2. CASE prior # None
    <3>1. prior = Prior(v.store, k, c)
      BY <2>2
    <3>2. prior \in v.store.rows /\ prior.key = k /\ prior.chapter = c
      BY <1>1, <2>2, <3>1, PriorIs
    <3>3. Written(v.store.known, prior)
      BY <3>2 DEF Holds, RowsHold
    <3> HIDE DEF prior
    <3> QED
      BY <1>1, <1>4, <3>2, <3>3 DEF Undoable, OrNone
  <2> QED
    BY <2>1, <2>2
<1> HIDE DEF prior
<1>6. undo \in MgReadUndo
  BY <1>5 DEF MgReadUndo, OrNone
<1>7. R \in SUBSET Chapter /\ S \in SUBSET Chapter
  BY <1>1 DEF MgApp
<1>8. v.app.marksFor # None => /\ R = ReadOf(st.rows, v.app.marksFor)
                               /\ S = ResumeOf(st.rows, v.app.marksFor)
  <2>1. v.app.marksFor # None => /\ v.app.read = ReadOf(v.store.rows, v.app.marksFor)
                                 /\ v.app.resume = ResumeOf(v.store.rows, v.app.marksFor)
    BY DEF Holds, MarksHold
  <2> QED
    BY <1>3, <1>4, <2>1 DEF OnScreen, MarkedAs
<1> HIDE DEF R, S, undo
<1>9. a \in MgApp
  <2>1. undo \in OrNone(MgReadUndo)
    BY <1>6 DEF OrNone
  <2> QED
    BY <1>1, <1>7, <2>1, ZenonT(60) DEF MgApp
<1>10. /\ MarksOnly(v.app, a) /\ a.undo = undo /\ a.marksFor = v.app.marksFor
       /\ a.read = R /\ a.resume = S
  BY <1>1 DEF MgApp, MarksOnly
<1> HIDE DEF a
<1>11. Undoable(st.known, a.undo)
  BY <1>5, <1>10
<1> QED
  BY <1>2, <1>4, <1>8, <1>9, <1>10, <1>11, MarksWritten

PageRow(st, k, c) ==
    [key |-> k, chapter |-> c, resume |-> TRUE, read |-> \E r \in RowOf(st, k, c) : r.read]

Paused(v, k, c) ==
    [v EXCEPT
        !.store = IF k = None THEN @ ELSE set_last_page(@, k, c),
        !.app.resume = IF OnScreen(v.app, k) THEN @ \cup {c} ELSE @]

LEMMA PausedHolds ==
    ASSUME NEW v, NEW d, NEW s, Holds(v, d, s), NEW k \in Key, NEW c \in Chapter,
           Written(v.store.known, MarkRow(k, c)),
           NEW u, u = Paused(v, k, c)
    PROVE  Holds(u, d, s)
<1> DEFINE r == PageRow(v.store, k, c)
           st == ReadPut(v, k, r)
           S == IF OnScreen(v.app, k) THEN v.app.resume \cup {c} ELSE v.app.resume
           a == [v.app EXCEPT !.resume = S]
<1>1. v \in Worlds /\ v.app \in MgApp /\ v.store \in Store /\ v.store.rows \subseteq Progress
  BY DEF Holds, Worlds, Store
<1>2. u = [app |-> a, net |-> v.net, store |-> st]
  <2>1. u = [v EXCEPT !.store = st, !.app.resume = S]
    BY <1>1 DEF Paused, ReadPut, set_last_page, PageRow, Worlds, MgApp
  <2> HIDE DEF st, S
  <2> QED
    BY <1>1, <2>1 DEF Worlds
<1>3. /\ r \in Progress /\ r.key = k /\ r.chapter = c /\ r.resume
      /\ r.read <=> c \in ReadOf(v.store.rows, k)
  <2>1. (\E q \in RowOf(v.store, k, c) : q.read) <=> c \in ReadOf(v.store.rows, k)
    BY DEF RowOf, ReadOf
  <2>2. r \in Progress /\ r.key = k /\ r.chapter = c /\ r.resume
    BY DEF PageRow, Progress
  <2>3. r.read <=> \E q \in RowOf(v.store, k, c) : q.read
    BY DEF PageRow
  <2> HIDE DEF r
  <2> QED
    BY <2>1, <2>2, <2>3
<1> HIDE DEF r
<1>4. /\ st \in Store /\ st.known = v.store.known /\ st.synced = v.store.synced
      /\ st.cache = v.store.cache
      /\ \A q \in st.rows : Written(st.known, q)
      /\ k # None => MarkedAs(v.store.rows, st.rows, r, r.read, r.resume)
      /\ k = None => st = v.store
  <2>1. Written(v.store.known, r) /\ st = ReadPut(v, r.key, r)
    BY <1>3 DEF Written, MarkRow
  <2> HIDE DEF st
  <2> QED
    BY <1>3, <2>1, ReadPutIs
<1> HIDE DEF st
<1>5. S \in SUBSET Chapter
  BY <1>1 DEF MgApp
<1>6. v.app.marksFor # None => /\ v.app.read = ReadOf(st.rows, v.app.marksFor)
                               /\ S = ResumeOf(st.rows, v.app.marksFor)
  <2>1. v.app.marksFor # None => /\ v.app.read = ReadOf(v.store.rows, v.app.marksFor)
                                 /\ v.app.resume = ResumeOf(v.store.rows, v.app.marksFor)
    BY DEF Holds, MarksHold
  <2>2. k # None => /\ ReadOf(st.rows, k) = ReadOf(v.store.rows, k)
                    /\ ResumeOf(st.rows, k) = ResumeOf(v.store.rows, k) \cup {c}
    BY <1>3, <1>4 DEF MarkedAs
  <2>3. k # None => \A j : j # None /\ j # k =>
                      /\ ReadOf(st.rows, j) = ReadOf(v.store.rows, j)
                      /\ ResumeOf(st.rows, j) = ResumeOf(v.store.rows, j)
    BY <1>3, <1>4 DEF MarkedAs
  <2> QED
    BY <1>4, <2>1, <2>2, <2>3 DEF OnScreen
<1> HIDE DEF S
<1>7. a \in MgApp
  BY <1>1, <1>5, ZenonT(60) DEF MgApp
<1>8. /\ MarksOnly(v.app, a) /\ a.undo = v.app.undo /\ a.marksFor = v.app.marksFor
      /\ a.read = v.app.read /\ a.resume = S
  BY <1>1 DEF MgApp, MarksOnly
<1> HIDE DEF a
<1>9. Undoable(st.known, a.undo)
  BY <1>4, <1>8 DEF Undoable, Holds, MarksHold, RowsHold
<1> QED
  BY <1>2, <1>4, <1>6, <1>7, <1>8, <1>9, MarksWritten

\* The exit of a viewer, after its pin was found.
Exited(v, pin, c, report) ==
    IF report = "none" THEN v
    ELSE IF report = "partway" THEN reload_library(Paused(v, pin.key, c))
    ELSE IF pin.key = None THEN MarkedRead(v, pin.key, c)
    ELSE maybe_push_progress(reload_library(MarkedRead(v, pin.key, c)),
                             pin.key, pin.number, pin.finishes)

LEMMA ExitedHolds ==
    ASSUME NEW v, NEW d, NEW s, Holds(v, d, s), NEW pin \in MgOpenViewer,
           Written(v.store.known, pin), NEW report
    PROVE  Holds(Exited(v, pin, pin.chapter, report), d, s)
<1> DEFINE k == pin.key
           c == pin.chapter
           paused == Paused(v, k, c)
           marked == MarkedRead(v, k, c)
           fresh == reload_library(marked)
<1>1. k \in Key /\ c \in Chapter /\ pin.number \in Nat /\ pin.finishes \in BOOLEAN
  BY DEF MgOpenViewer
<1>2. Written(v.store.known, MarkRow(k, c))
  BY DEF Written, MarkRow
<1>3. Exited(v, pin, c, report) =
        IF report = "none" THEN v
        ELSE IF report = "partway" THEN reload_library(paused)
        ELSE IF k = None THEN marked
        ELSE maybe_push_progress(fresh, k, pin.number, pin.finishes)
  BY DEF Exited
<1> HIDE DEF k, c
<1>4. Holds(paused, d, s)
  <2>1. \A z : z = paused => Holds(z, d, s)
    BY <1>1, <1>2, PausedHolds
  <2> QED
    BY <2>1
<1>5. Holds(marked, d, s)
  <2>1. \A z : z = marked => Holds(z, d, s)
    BY <1>1, <1>2, MarkedReadHolds
  <2> QED
    BY <2>1
<1> HIDE DEF paused, marked
<1>6. Holds(reload_library(paused), d, s) /\ Holds(fresh, d, s)
  <2>1. \A y, z : Holds(y, d, s) /\ z = reload_library(y) => Holds(z, d, s)
    BY ReloadHolds
  <2> QED
    BY <1>4, <1>5, <2>1
<1> HIDE DEF fresh
<1>7. Holds(maybe_push_progress(fresh, k, pin.number, pin.finishes), d, s)
  BY <1>1, <1>6, MaybePushHolds
<1> QED
  BY <1>3, <1>5, <1>6, <1>7 DEF c

\* The viewer of a chapter closes.
LEMMA ViewerExitedHolds ==
    ASSUME NEW w, NEW d, NEW s, Holds(w, d, s), NEW x \in Watching(w.net), NEW report
    PROVE  Holds(ViewerExited(Taken(w, x), x, report), d, s)
<1> DEFINE u == Taken(w, x)
           c == x.chapter
           pins == {p \in w.app.viewers : p.chapter = c}
           pin == CHOOSE p \in pins : TRUE
           v == Closed(u, c)
<1>1. w \in Worlds /\ w.app \in MgApp
  BY DEF Holds, Worlds
<1>2. pins # {}
  BY DEF Holds, ViewersHold
<1>3. pin \in pins
  BY <1>2
<1>4. pin \in w.app.viewers /\ pin.chapter = c /\ pin \in MgOpenViewer
  <2>1. pin \in w.app.viewers /\ pin.chapter = c
    BY <1>3
  <2> QED
    BY <1>1, <2>1 DEF MgApp
<1>5. Holds(v, d, s) /\ v.store = w.store
  <2>1. \A z : z = v => Holds(z, d, s) /\ z.store = w.store
    BY ClosedHolds
  <2> QED
    BY <2>1
<1>6. Written(v.store.known, pin)
  BY <1>4, <1>5 DEF Holds, RowsHold
<1>7. ViewerExited(u, x, report) = Exited(v, pin, c, report)
  <2>1. u.app = w.app
    BY DEF Taken
  <2>2. ViewerExited(u, x, report)
        = Exited([u EXCEPT !.app.viewers = @ \ pins],
                 IF pins = {} THEN [chapter |-> c, key |-> None, number |-> 0, finishes |-> FALSE]
                 ELSE pin, c, report)
    <3> HIDE DEF u
    <3> QED
      BY <2>1 DEF ViewerExited, Exited, Paused, MarkedRead
  <2>3. [u EXCEPT !.app.viewers = @ \ pins] = v
    <3> HIDE DEF u
    <3> QED
      BY <2>1 DEF Closed
  <2> HIDE DEF u, v, pin, pins
  <2> QED
    BY <1>2, <2>2, <2>3
<1> HIDE DEF v, pin
<1>8. Holds(Exited(v, pin, pin.chapter, report), d, s)
  BY <1>4, <1>5, <1>6, ExitedHolds
<1> QED
  BY <1>4, <1>7, <1>8

-----------------------------------------------------------------------------
(* The sweep *)

LEMMA SweepStepHolds ==
    ASSUME NEW w, NEW d, NEW s, Holds(w, d, s), NEW x \in w.net, x.t = "sweep",
           x.jobs # << >>, NEW v, v = Stepped(w, x, [x EXCEPT !.jobs = Tail(@)])
    PROVE  Holds(v, d, s)
<1> DEFINE y == [x EXCEPT !.jobs = Tail(@)]
<1>1. w \in Worlds /\ x \in MgEvent
  BY DEF Holds, Worlds
<1>2. y \in MgEvent /\ y.t = x.t /\ (y.live <=> x.live)
  <2>1. x.jobs \in Seq(Key) /\ x.live \in BOOLEAN
    BY <1>1, EventFields
  <2> DEFINE rest == Tail(x.jobs)
  <2>2. rest \in Seq(Key)
    BY <2>1
  <2>3. x \in [t : {"sweep"}, live : BOOLEAN, jobs : Seq(Key)]
    BY <1>1 DEF MgEvent, Lists
  <2>4. y = [x EXCEPT !.jobs = rest]
    BY <2>3
  <2> HIDE DEF rest
  <2>5. y \in [t : {"sweep"}, live : BOOLEAN, jobs : Seq(Key)]
    BY <2>2, <2>3, <2>4
  <2>6. y.t = x.t /\ y.live = x.live
    BY <2>3, <2>4
  <2> HIDE DEF y
  <2> QED
    BY <2>5, <2>6, Zenon DEF MgEvent
<1> HIDE DEF y
<1>3. SteppedAs(w, v, x, y)
  <2>1. v = Stepped(w, x, y)
    BY DEF y
  <2> QED
    BY <1>1, <1>2, <2>1, SteppedIs
<1>4. /\ v \in Worlds /\ v.app = w.app /\ v.store = w.store
      /\ Sweeping(w.net) # {} => Sweeping(v.net) # {}
      /\ Searching(v.net) = Searching(w.net) /\ Binding(v.net) = Binding(w.net)
      /\ Listing(v.net) = Listing(w.net) /\ Fetching(v.net) = Fetching(w.net)
      /\ Watching(v.net) = Watching(w.net) /\ Pushing(v.net) = Pushing(w.net)
  <2>1. x.t \notin Lists
    BY DEF Lists
  <2>2. Sweeping(w.net) # {} => Sweeping(v.net) # {}
    BY <1>3 DEF SteppedAs, Sweeping
  <2> QED
    BY <1>3, <2>1, <2>2 DEF SteppedAs
<1>5. SameLists(w, v) /\ SameMarks(w, v) /\ SameRows(w, v) /\ SameFetch(w, v)
      /\ SameViewers(w, v) /\ SamePushes(w, v)
  BY <1>4 DEF SameLists, SameMarks, SameRows, SameFetch, SameViewers, SamePushes
<1>6. WaitsHold(v)
  BY <1>4 DEF Holds, WaitsHold
<1> QED
  BY <1>4, <1>5, <1>6, Frames DEF Holds

LEMMA ShownFollows ==
    ASSUME NEW w, NEW d, NEW s, Holds(w, d, s), NEW q \in Seq(Chapter),
           w.app.held # None => ElementsOf(q) \subseteq ElementsOf(Listed[w.app.held]),
           NEW v, v = [app |-> [w.app EXCEPT !.chapters = q], net |-> w.net, store |-> w.store]
    PROVE  Holds(v, d, s)
<1> DEFINE a == [w.app EXCEPT !.chapters = q]
<1>1. w \in Worlds /\ w.app \in MgApp
  BY DEF Holds, Worlds
<1>2. a \in MgApp
  BY <1>1, ZenonT(60) DEF MgApp
<1>3. v \in Worlds /\ v.app = a /\ v.net = w.net /\ v.store = w.store
  BY <1>1, <1>2 DEF Worlds
<1>4. SameMarks(w, v) /\ SameRows(w, v) /\ SameWaits(w, v) /\ SameFetch(w, v)
      /\ SameViewers(w, v) /\ SamePushes(w, v)
  BY <1>1, <1>3
  DEF MgApp, SameMarks, SameRows, SameWaits, SameFetch, SameViewers, SamePushes
<1>5. /\ a.list = w.app.list /\ a.source = w.app.source /\ a.feed = w.app.feed
      /\ a.page = w.app.page /\ a.more = w.app.more /\ a.held = w.app.held /\ a.chapters = q
  BY <1>1 DEF MgApp
<1> HIDE DEF a
<1>6. ListsAreOwn(v)
  BY <1>3, <1>5 DEF Holds, ListsAreOwn
<1> QED
  BY <1>3, <1>4, <1>6, Frames DEF Holds

\* One series checked: its list is kept, and shown where it is on the screen.
LEMMA SweepChaptersHolds ==
    ASSUME NEW w, NEW d, NEW s, Holds(w, d, s), NEW k \in Key, NEW q \in Seq(Chapter),
           ElementsOf(q) \subseteq ElementsOf(Listed[k[2]])
    PROVE  Holds(SweepChapters(w, k, q), d, s)
<1> DEFINE u == [app |-> w.app, net |-> w.net, store |-> put_chapters(w.store, k, q)]
           v == [app |-> [u.app EXCEPT !.chapters = q], net |-> u.net, store |-> u.store]
           shown == selected(w.app) # None /\ KeyOf(w.app) = k /\ w.app.held = selected(w.app)
<1>1. w \in Worlds /\ w.app \in MgApp
  BY DEF Holds, Worlds
<1>2. SweepChapters(w, k, q) = IF shown THEN v ELSE u
  <2>1. SweepChapters(w, k, q)
        = [w EXCEPT !.store = put_chapters(@, k, q), !.app.chapters = IF shown THEN q ELSE @]
    BY DEF SweepChapters
  <2> DEFINE st == put_chapters(w.store, k, q)
             r == IF shown THEN q ELSE w.app.chapters
  <2>2. SweepChapters(w, k, q) = [w EXCEPT !.store = st, !.app.chapters = r]
    BY <1>1, <2>1 DEF Worlds
  <2> HIDE DEF shown, st, r
  <2>3. SweepChapters(w, k, q)
        = [app |-> [w.app EXCEPT !.chapters = r], net |-> w.net, store |-> st]
    BY <1>1, <2>2 DEF Worlds
  <2>4. [w.app EXCEPT !.chapters = w.app.chapters] = w.app
    BY <1>1 DEF MgApp
  <2> QED
    BY <2>3, <2>4 DEF r, st
<1>3. Holds(u, d, s)
  <2>1. \A z : z = u => Holds(z, d, s)
    BY PutChaptersHolds
  <2> QED
    BY <2>1
<1>4. u.app = w.app
  OBVIOUS
<1> HIDE DEF u
<1>5. ASSUME shown
      PROVE  Holds(v, d, s)
  <2>1. KeyOf(w.app)[2] = selected(w.app)
    BY DEF KeyOf
  <2>2. u.app.held = k[2]
    BY <1>4, <1>5, <2>1
  <2>3. \A z : z = v => Holds(z, d, s)
    BY <1>3, <2>2, ShownFollows
  <2> QED
    BY <2>3
<1> HIDE DEF v, shown
<1> QED
  BY <1>2, <1>3, <1>5

SweepOver(w) == [w EXCEPT !.app.sweeping = FALSE]

LEMMA SweepEnds ==
    ASSUME NEW w, NEW d, NEW s, Holds(w, d, s), NEW x \in Sweeping(w.net),
           NEW v, v = SweepOver(Taken(w, x))
    PROVE  Holds(v, d, s)
<1> DEFINE u == Taken(w, x)
           a == [w.app EXCEPT !.sweeping = FALSE]
<1>1. w \in Worlds /\ w.app \in MgApp /\ x \in w.net /\ x.t = "sweep"
  BY DEF Holds, Worlds, Sweeping, Out
<1>2. /\ u \in Worlds /\ u.app = w.app /\ u.store = w.store
      /\ Binding(u.net) = Binding(w.net)
      /\ Searching(u.net) = Searching(w.net) /\ Listing(u.net) = Listing(w.net)
      /\ Watching(u.net) = Watching(w.net) /\ Fetching(u.net) = Fetching(w.net)
      /\ Pushing(u.net) = Pushing(w.net)
  <2>1. x.t \notin Lists
    BY <1>1 DEF Lists
  <2>2. \A z : z = u => /\ z \in Worlds /\ z.app = w.app /\ z.store = w.store
                        /\ Binding(z.net) = Binding(w.net)
                        /\ Searching(z.net) = Searching(w.net) /\ Listing(z.net) = Listing(w.net)
                        /\ Watching(z.net) = Watching(w.net) /\ Fetching(z.net) = Fetching(w.net)
                        /\ Pushing(z.net) = Pushing(w.net)
    BY <1>1, <2>1, TakenIs
  <2> HIDE DEF u
  <2> QED
    BY <2>2
<1> HIDE DEF u
<1>3. v = [app |-> a, net |-> u.net, store |-> w.store]
  <2>1. v = SweepOver(u)
    BY DEF u
  <2> QED
    BY <1>1, <1>2, <2>1 DEF SweepOver, Worlds, MgApp
<1>4. a \in MgApp
  BY <1>1, ZenonT(60) DEF MgApp
<1>5. v \in Worlds /\ v.app = a /\ v.net = u.net /\ v.store = w.store
  BY <1>1, <1>2, <1>3, <1>4 DEF Worlds
<1>6. SameLists(w, v) /\ SameMarks(w, v) /\ SameRows(w, v) /\ SameFetch(w, v)
      /\ SameViewers(w, v) /\ SamePushes(w, v)
  BY <1>1, <1>2, <1>5
  DEF MgApp, SameLists, SameMarks, SameRows, SameFetch, SameViewers, SamePushes
<1>7. /\ a.searching = w.app.searching /\ ~a.sweeping /\ a.binding = w.app.binding
      /\ a.loading = w.app.loading /\ a.pending = w.app.pending
  BY <1>1 DEF MgApp
<1> HIDE DEF a
<1>8. WaitsHold(v)
  BY <1>2, <1>5, <1>7 DEF Holds, WaitsHold
<1> QED
  BY <1>5, <1>6, <1>8, Frames DEF Holds

LEMMA SweepFinishedHolds ==
    ASSUME NEW w, NEW d, NEW s, Holds(w, d, s), NEW x \in Sweeping(w.net)
    PROVE  Holds(SweepFinished(Taken(w, x)), d, s)
<1> DEFINE v == SweepOver(Taken(w, x))
<1>1. Holds(v, d, s)
  <2>1. \A z : z = v => Holds(z, d, s)
    BY SweepEnds
  <2> QED
    BY <2>1
<1>2. SweepFinished(Taken(w, x)) = reload_library(v)
  BY DEF SweepFinished, SweepOver
<1> HIDE DEF v
<1>3. \A z : z = reload_library(v) => Holds(z, d, s)
  BY <1>1, ReloadHolds
<1> QED
  BY <1>2, <1>3

-----------------------------------------------------------------------------
(* The push *)

\* A push goes on, and AniList with it: what was told to it stays true.
LEMMA PushStepHolds ==
    ASSUME NEW w, NEW d, NEW s, Holds(w, d, s), NEW x \in w.net, x.t = "push",
           NEW phase \in {"read", "save", "uptodate", "failed", "pushed"}, NEW seen \in Entry,
           NEW e, \A k \in Key : w.store.synced[k] <= e[k[2]].progress,
           phase = "save" => \A k \in Key : k[2] = x.key[2] => w.store.synced[k] <= seen.progress,
           phase = "pushed" => x.want <= e[x.key[2]].progress,
           NEW v, v = Stepped(w, x, [x EXCEPT !.phase = phase, !.seen = seen])
    PROVE  Holds(v, d, e)
<1> DEFINE y == [x EXCEPT !.phase = phase, !.seen = seen]
<1>1. w \in Worlds /\ x \in MgEvent
  BY DEF Holds, Worlds
<1>2. y \in MgEvent /\ y.t = "push" /\ y.key = x.key /\ y.want = x.want
      /\ y.phase = phase /\ y.seen = seen
  <2> DEFINE pushes == [t : {"push"}, key : Key, want : Nat, finishes : BOOLEAN,
                        phase : {"read", "save", "uptodate", "failed", "pushed"}, seen : Entry]
  <2>1. x \in pushes
    BY <1>1 DEF MgEvent, Lists
  <2>2. y \in pushes /\ y.t = "push" /\ y.key = x.key /\ y.want = x.want
        /\ y.phase = phase /\ y.seen = seen
    BY <2>1
  <2>3. pushes \subseteq MgEvent
    BY Zenon DEF MgEvent
  <2> HIDE DEF y, pushes
  <2> QED
    BY <2>2, <2>3
<1> HIDE DEF y
<1>3. SteppedAs(w, v, x, y)
  <2>1. v = Stepped(w, x, y)
    BY DEF y
  <2>2. y.t \notin Timed
    BY <1>2 DEF Timed, Lists
  <2> QED
    BY <1>1, <1>2, <2>1, <2>2, SteppedIs
<1>4. /\ v \in Worlds /\ v.app = w.app /\ v.store = w.store
      /\ Searching(v.net) = Searching(w.net) /\ Binding(v.net) = Binding(w.net)
      /\ Listing(v.net) = Listing(w.net) /\ Fetching(v.net) = Fetching(w.net)
      /\ Watching(v.net) = Watching(w.net) /\ Sweeping(v.net) = Sweeping(w.net)
  <2>1. x.t \notin Lists
    BY DEF Lists
  <2> QED
    BY <1>3, <2>1 DEF SteppedAs
<1>5. Pushing(w.net) = {x} /\ Pushing(v.net) = {y} /\ w.app.syncing
  <2>1. x \in Pushing(w.net)
    BY DEF Pushing, Out, Timed, Lists
  <2>2. Pushing(w.net) = {x} /\ w.app.syncing
    BY <2>1 DEF Holds, PushesHold
  <2>3. Pushing(v.net) = (Pushing(w.net) \ {x}) \cup {y}
    BY <1>3, <2>1 DEF SteppedAs, Pushing
  <2> QED
    BY <2>2, <2>3
<1>6. SameLists(w, v) /\ SameMarks(w, v) /\ SameRows(w, v) /\ SameWaits(w, v)
      /\ SameFetch(w, v) /\ SameViewers(w, v)
  BY <1>4 DEF SameLists, SameMarks, SameRows, SameWaits, SameFetch, SameViewers
<1>7. PushesHold(v, e)
  BY <1>2, <1>4, <1>5 DEF PushesHold
<1> QED
  BY <1>4, <1>6, <1>7, Frames DEF Holds

\* AniList goes on by itself, forward.
LEMMA SiteGrows ==
    ASSUME NEW w, NEW d, NEW s, Holds(w, d, s), NEW e,
           \A m \in Manga : e[m].progress \in Nat /\ s[m].progress \in Nat
                            /\ s[m].progress <= e[m].progress
    PROVE  Holds(w, d, e)
<1>1. w.net \subseteq MgEvent /\ w.store \in Store
  BY DEF Holds, Worlds
<1>2. \A k \in Key : w.store.synced[k] \in Nat /\ k[2] \in Manga
  BY <1>1 DEF Store, Key
<1>3. \A x \in Pushing(w.net) : x.key \in Key /\ x.want \in Nat
  BY <1>1, EventFields DEF Pushing, Out
<1>4. \A k \in Key : w.store.synced[k] <= e[k[2]].progress
  <2>1. \A k \in Key : w.store.synced[k] <= s[k[2]].progress
    BY DEF Holds, PushesHold
  <2> SUFFICES ASSUME NEW k \in Key PROVE w.store.synced[k] <= e[k[2]].progress
    OBVIOUS
  <2>2. /\ w.store.synced[k] \in Nat /\ s[k[2]].progress \in Nat /\ e[k[2]].progress \in Nat
        /\ s[k[2]].progress <= e[k[2]].progress
    BY <1>2
  <2> QED
    BY <2>1, <2>2
<1>5. \A x \in Pushing(w.net) : x.phase = "pushed" => x.want <= e[x.key[2]].progress
  <2> SUFFICES ASSUME NEW x \in Pushing(w.net), x.phase = "pushed"
               PROVE  x.want <= e[x.key[2]].progress
    OBVIOUS
  <2>1. x.want <= s[x.key[2]].progress
    BY DEF Holds, PushesHold
  <2>2. x.want \in Nat /\ x.key[2] \in Manga
    BY <1>2, <1>3
  <2>3. /\ s[x.key[2]].progress \in Nat /\ e[x.key[2]].progress \in Nat
        /\ s[x.key[2]].progress <= e[x.key[2]].progress
    BY <2>2
  <2> QED
    BY <2>1, <2>2, <2>3
<1>6. PushesHold(w, e)
  BY <1>4, <1>5 DEF Holds, PushesHold
<1> QED
  BY <1>6 DEF Holds

SyncOver(w) == [w EXCEPT !.app.syncing = FALSE]

LEMMA SyncEnds ==
    ASSUME NEW w, NEW d, NEW s, Holds(w, d, s), NEW x \in w.net, x.t = "push",
           NEW v, v = SyncOver(Taken(w, x))
    PROVE  Holds(v, d, s) /\ v.store = w.store /\ Pushing(v.net) = {} /\ ~v.app.syncing
<1> DEFINE u == Taken(w, x)
           a == [w.app EXCEPT !.syncing = FALSE]
<1>1. w \in Worlds /\ w.app \in MgApp
  BY DEF Holds, Worlds
<1>2. Pushing(w.net) = {x}
  <2>1. x \in Pushing(w.net)
    BY DEF Pushing, Out, Timed, Lists
  <2> QED
    BY <2>1 DEF Holds, PushesHold
<1>3. /\ u \in Worlds /\ u.app = w.app /\ u.store = w.store
      /\ Pushing(u.net) = {}
      /\ Binding(u.net) = Binding(w.net)
      /\ Searching(u.net) = Searching(w.net) /\ Listing(u.net) = Listing(w.net)
      /\ Watching(u.net) = Watching(w.net) /\ Fetching(u.net) = Fetching(w.net)
      /\ Sweeping(u.net) = Sweeping(w.net)
  <2>1. x.t \notin Lists
    BY DEF Lists
  <2>2. \A z : z = u => /\ z \in Worlds /\ z.app = w.app /\ z.store = w.store
                        /\ Pushing(z.net) = Pushing(w.net) \ {x}
                        /\ Binding(z.net) = Binding(w.net)
                        /\ Searching(z.net) = Searching(w.net) /\ Listing(z.net) = Listing(w.net)
                        /\ Watching(z.net) = Watching(w.net) /\ Fetching(z.net) = Fetching(w.net)
                        /\ Sweeping(z.net) = Sweeping(w.net)
    BY <1>1, <2>1, TakenIs DEF Pushing
  <2> HIDE DEF u
  <2> QED
    BY <1>2, <2>2
<1> HIDE DEF u
<1>4. v = [app |-> a, net |-> u.net, store |-> w.store]
  <2>1. v = SyncOver(u)
    BY DEF u
  <2> QED
    BY <1>1, <1>3, <2>1 DEF SyncOver, Worlds, MgApp
<1>5. a \in MgApp
  BY <1>1, ZenonT(60) DEF MgApp
<1>6. v \in Worlds /\ v.app = a /\ v.net = u.net /\ v.store = w.store
  BY <1>1, <1>3, <1>4, <1>5 DEF Worlds
<1>7. SameLists(w, v) /\ SameMarks(w, v) /\ SameRows(w, v) /\ SameWaits(w, v)
      /\ SameFetch(w, v) /\ SameViewers(w, v)
  BY <1>1, <1>3, <1>6
  DEF MgApp, SameLists, SameMarks, SameRows, SameWaits, SameFetch, SameViewers
<1>8. ~a.syncing
  BY <1>1 DEF MgApp
<1> HIDE DEF a
<1>9. PushesHold(v, s)
  BY <1>3, <1>6, <1>8 DEF Holds, PushesHold
<1> QED
  BY <1>3, <1>6, <1>7, <1>8, <1>9, Frames DEF Holds

\* Only what AniList was told is noted.
LEMMA SyncDoneHolds ==
    ASSUME NEW w, NEW d, NEW s, Holds(w, d, s), NEW x \in w.net, x.t = "push"
    PROVE  Holds(SyncDone(Taken(w, x), x), d, s)
<1> DEFINE v == SyncOver(Taken(w, x))
           st == set_al_synced(v.store, x.key, x.want)
           noted == [app |-> v.app, net |-> v.net, store |-> st]
<1>1. Holds(v, d, s) /\ v.store = w.store /\ Pushing(v.net) = {} /\ ~v.app.syncing
  <2>1. \A z : z = v => Holds(z, d, s) /\ z.store = w.store /\ Pushing(z.net) = {}
                        /\ ~z.app.syncing
    BY SyncEnds
  <2> HIDE DEF v
  <2> QED
    BY <2>1
<1>2. v \in Worlds /\ v.store \in Store
  BY <1>1 DEF Holds, Worlds
<1>3. SyncDone(Taken(w, x), x) = IF x.phase = "pushed" THEN reload_library(noted) ELSE v
  <2>1. ASSUME NEW u
        PROVE  SyncDone(u, x)
               = IF x.phase = "pushed"
                 THEN reload_library([SyncOver(u) EXCEPT !.store = set_al_synced(@, x.key, x.want)])
                 ELSE SyncOver(u)
    BY DEF SyncDone, SyncOver
  <2>2. SyncDone(Taken(w, x), x)
        = IF x.phase = "pushed"
          THEN reload_library([v EXCEPT !.store = set_al_synced(@, x.key, x.want)]) ELSE v
    BY <2>1
  <2> HIDE DEF v
  <2>3. [v EXCEPT !.store = set_al_synced(@, x.key, x.want)] = noted
    BY <1>2 DEF Worlds
  <2> QED
    BY <2>2, <2>3
<1> HIDE DEF v
<1>4. ASSUME x.phase = "pushed"
      PROVE  Holds(noted, d, s)
  <2> DEFINE S == [v.store.synced EXCEPT ![x.key] = IF x.want > @ THEN x.want ELSE @]
  <2>1. x.key \in Key /\ x.want \in Nat /\ x \in Pushing(w.net)
    <3>1. x \in MgEvent /\ x \in Pushing(w.net)
      BY DEF Holds, Worlds, Pushing, Out, Timed, Lists
    <3> QED
      BY <3>1, EventFields
  <2>2. x.want <= s[x.key[2]].progress
    BY <1>4, <2>1 DEF Holds, PushesHold
  <2>3. v.store.synced \in [Key -> Nat]
    BY <1>2 DEF Store
  <2>4. S \in [Key -> Nat]
    BY <2>1, <2>3
  <2>5. \A k \in Key : v.store.synced[k] <= s[k[2]].progress
    BY <1>1 DEF Holds, PushesHold
  <2>6. \A k \in Key : S[k] <= s[k[2]].progress
    BY <2>1, <2>2, <2>3, <2>5
  <2>7. st = [v.store EXCEPT !.synced = S]
    BY <1>2 DEF set_al_synced, Store
  <2> HIDE DEF S
  <2>8. /\ st \in Store /\ st.rows = v.store.rows /\ st.known = v.store.known
        /\ st.cache = v.store.cache /\ st.synced = S
    BY <1>2, <2>4, <2>7 DEF Store
  <2> HIDE DEF st
  <2>9. noted \in Worlds /\ noted.app = v.app /\ noted.net = v.net /\ noted.store = st
    BY <1>2, <2>8 DEF Worlds
  <2> HIDE DEF noted
  <2>10. SameLists(v, noted) /\ SameMarks(v, noted) /\ SameRows(v, noted)
         /\ SameWaits(v, noted) /\ SameFetch(v, noted) /\ SameViewers(v, noted)
    BY <2>8, <2>9
    DEF SameLists, SameMarks, SameRows, SameWaits, SameFetch, SameViewers
  <2>11. PushesHold(noted, s)
    BY <1>1, <2>6, <2>8, <2>9 DEF PushesHold
  <2> QED
    BY <1>1, <2>9, <2>10, <2>11, Frames DEF Holds
<1> HIDE DEF noted
<1>5. x.phase = "pushed" => Holds(reload_library(noted), d, s)
  <2>1. \A y, z : Holds(y, d, s) /\ z = reload_library(y) => Holds(z, d, s)
    BY ReloadHolds
  <2> QED
    BY <1>4, <2>1
<1> QED
  BY <1>1, <1>3, <1>5

-----------------------------------------------------------------------------
(* Steps *)

LEMMA PressedHolds ==
    ASSUME ShelvesHold, NEW v, Holds(v, disk, site), Press(v)
    PROVE  ShelvesHold'
<1>1. /\ app' = v.app /\ net' = v.net /\ store' = v.store /\ disk' = disk /\ site' = site
      /\ keys' = keys + 1 /\ keys < MaxKeys
  BY DEF Press, Becomes
<1>2. v \in Worlds /\ v = [app |-> v.app, net |-> v.net, store |-> v.store]
  BY DEF Holds, Worlds
<1>3. World' = v
  BY <1>1, <1>2 DEF World
<1>4. keys' \in 0 .. MaxKeys
  BY <1>1, ListsAssumption DEF ShelvesHold, TypeOK
<1>5. TypeOK'
  BY <1>1, <1>2, <1>4 DEF ShelvesHold, TypeOK, Worlds
<1> QED
  BY <1>1, <1>3, <1>5 DEF ShelvesHold

LEMMA BecomesHolds ==
    ASSUME ShelvesHold, NEW v, NEW d, d \subseteq Chapter, NEW s \in [Manga -> Entry],
           Holds(v, d, s), Becomes(v), disk' = d, site' = s, keys' = keys
    PROVE  ShelvesHold'
<1>1. app' = v.app /\ net' = v.net /\ store' = v.store
  BY DEF Becomes
<1>2. v \in Worlds /\ v = [app |-> v.app, net |-> v.net, store |-> v.store]
  BY DEF Holds, Worlds
<1>3. World' = v
  BY <1>1, <1>2 DEF World
<1>4. TypeOK'
  BY <1>1, <1>2 DEF ShelvesHold, TypeOK, Worlds
<1> QED
  BY <1>3, <1>4 DEF ShelvesHold

LEMMA HandledHolds ==
    ASSUME ShelvesHold, NEW x \in net, x.t \in Timed, NEW v, Handle(x, v),
           x.live => Holds(v, disk, site)
    PROVE  ShelvesHold'
<1> DEFINE u == Taken(World, x)
<1>1. Without(x) = u
  BY DEF Without, Taken, World
<1>2. /\ Becomes(IF x.live THEN v ELSE u)
      /\ disk' = disk /\ site' = site /\ keys' = keys
  BY <1>1 DEF Handle
<1>3. Holds(World, disk, site) /\ disk \subseteq Chapter /\ site \in [Manga -> Entry]
  BY DEF ShelvesHold, TypeOK
<1>4. World.net = net
  BY DEF World
<1>5. ~x.live => Holds(u, disk, site)
  <2>1. ~x.live => \A z : z = u => Holds(z, disk, site)
    BY <1>3, <1>4, DroppedHolds
  <2> QED
    BY <2>1
<1> HIDE DEF u
<1>6. CASE x.live
  <2>1. Becomes(v)
    BY <1>2, <1>6
  <2> QED
    BY <1>2, <1>3, <1>6, <2>1, BecomesHolds
<1>7. CASE ~x.live
  <2>1. Becomes(u)
    BY <1>2, <1>7
  <2> QED
    BY <1>2, <1>3, <1>5, <1>7, <2>1, BecomesHolds
<1> QED
  BY <1>6, <1>7

LEMMA GestureHolds ==
    ASSUME ShelvesHold, Gesture
    PROVE  ShelvesHold'
<1>1. Holds(World, disk, site) /\ World.app = app /\ World.net = net /\ World.store = store
  BY DEF ShelvesHold, World
<1>2. app \in MgApp
  BY DEF ShelvesHold, TypeOK
<1> DEFINE w == World
<1> HIDE DEF w
<1>3. Holds(w, disk, site) /\ w.app = app /\ w = World
  BY <1>1 DEF w
<1>4. CASE PressSearch
  BY <1>1, <1>4, SearchHolds, PressedHolds DEF PressSearch
<1>5. CASE PressFeed
  BY <1>1, <1>5, FeedsHold, PressedHolds DEF PressFeed
<1>6. CASE PressStep
  BY <1>1, <1>6, StepFeedHolds, PressedHolds DEF PressStep
<1>7. CASE PressSimilar
  BY <1>1, <1>7, OpenSimilarHolds, PressedHolds DEF PressSimilar
<1>8. CASE PressSource
  BY <1>1, <1>8, SourceHolds, PressedHolds DEF PressSource
<1>9. CASE PressFollow
  BY <1>1, <1>9, FollowingHolds, PressedHolds DEF PressFollow
<1>10. CASE PressContinue
  BY <1>1, <1>10, ContinueReadingHolds, PressedHolds DEF PressContinue
<1>11. CASE PressDownload
  BY <1>1, <1>11, QueueHolds, PressedHolds DEF PressDownload
<1>12. CASE PressSweep
  BY <1>1, <1>12, SweepHolds, PressedHolds DEF PressSweep
<1>13. CASE PressSync
  BY <1>1, <1>13, SyncSelectionHolds, PressedHolds DEF PressSync
<1>14. CASE PressUndo
  BY <1>1, <1>14, UndoHolds, PressedHolds DEF PressUndo
<1>15. CASE PressLibrary
  <2> DEFINE v == IF app.view = "library" THEN World ELSE reload_library(World)
             to == IF app.view = "library" THEN "search"
                   ELSE IF reload_library(World).app.shelf = << >> THEN "search" ELSE "library"
             u == [v EXCEPT !.app.view = to, !.app.focus = "list", !.app.continuing = None]
  <2>1. Press(u)
    BY <1>15 DEF PressLibrary
  <2>2. Holds(v, disk, site)
    <3>1. \A z : z = reload_library(World) => Holds(z, disk, site)
      BY <1>1, ReloadHolds
    <3> QED
      BY <1>1, <3>1
  <2>3. to \in {"search", "library"}
    OBVIOUS
  <2> HIDE DEF v, to
  <2>4. Holds(u, disk, site)
    BY <2>2, <2>3, ViewHolds
  <2> QED
    BY <2>1, <2>4, PressedHolds
<1>16. CASE PressPane
  BY <1>1, <1>16, FocusHolds, PressedHolds DEF PressPane
<1>17. CASE PressMove
  <2>1. PICK n \in {-1, 1} :
          Press(IF InChapters THEN move_chapter_cursor(World, n)
                ELSE IF app.view = "library" THEN move_library_cursor(World, n)
                ELSE move_cursor(World, n))
    BY <1>17 DEF PressMove
  <2>2. n \in Int
    OBVIOUS
  <2>3. /\ Holds(move_cursor(World, n), disk, site)
        /\ Holds(move_library_cursor(World, n), disk, site)
        /\ Holds(move_chapter_cursor(World, n), disk, site)
    BY <1>1, <2>2, CursorsHold
  <2> QED
    BY <2>1, <2>3, PressedHolds
<1>18. CASE PressEnter
  BY <1>1, <1>18, OpenChapterHolds, RequestHolds, PressedHolds DEF PressEnter
<1>19. CASE ClickChapter
  <2>1. PICK i \in DOMAIN app.chapters :
          Press([World EXCEPT !.app.focus = "chapters", !.app.chapterAt = i])
    BY <1>19 DEF ClickChapter
  <2>2. i \in Nat
    BY <1>2 DEF MgApp
  <2>3. Holds([World EXCEPT !.app.focus = "chapters", !.app.chapterAt = i], disk, site)
    BY <1>1, <2>2, ChapterAtHolds
  <2> QED
    BY <2>1, <2>3, PressedHolds
<1>20. CASE ClickRow
  <2> DEFINE u == [World EXCEPT !.app.focus = "list"]
  <2>1. PICK i \in DOMAIN (IF app.view = "library" THEN app.shelf ELSE app.list) :
          Press(IF app.view = "library" THEN move_library_cursor(u, i - app.shelfAt)
                ELSE move_cursor(u, i - app.at))
    BY <1>20 DEF ClickRow
  <2>2. i - app.shelfAt \in Int /\ i - app.at \in Int
    <3>1. app.shelf \in Seq(Manga) /\ app.list \in Seq(Row) /\ app.shelfAt \in Nat
          /\ app.at \in Nat
      BY <1>2 DEF MgApp
    <3>2. i \in Nat
      BY <3>1
    <3> QED
      BY <3>1, <3>2
  <2>3. Holds(u, disk, site)
    BY <1>1, FocusHolds
  <2> HIDE DEF u
  <2>4. /\ Holds(move_cursor(u, i - app.at), disk, site)
        /\ Holds(move_library_cursor(u, i - app.shelfAt), disk, site)
    BY <2>2, <2>3, CursorsHold
  <2> QED
    BY <2>1, <2>4, PressedHolds
<1>21. CASE ConnectDone
  <2> DEFINE a == [app EXCEPT !.account = TRUE]
             v == [app |-> a, net |-> net, store |-> store]
  <2>1. a \in MgApp
    BY <1>2, ZenonT(60) DEF MgApp
  <2>2. Quiet(app, a)
    BY <1>2 DEF MgApp, Quiet
  <2>3. Press(v)
    BY <1>21 DEF ConnectDone, Press, Becomes
  <2> HIDE DEF a
  <2>4. Holds(v, disk, site)
    <3>1. \A z : z = [app |-> a, net |-> World.net, store |-> World.store] =>
                 Holds(z, disk, site)
      BY <1>1, <2>1, <2>2, QuietAppHolds
    <3> QED
      BY <1>1, <3>1
  <2> QED
    BY <2>3, <2>4, PressedHolds
<1> QED
  BY <1>4, <1>5, <1>6, <1>7, <1>8, <1>9, <1>10, <1>11, <1>12, <1>13, <1>14, <1>15, <1>16,
     <1>17, <1>18, <1>19, <1>20, <1>21 DEF Gesture

\* What a source lists of a manga, as far as it has come.
LEMMA PrefixIs ==
    ASSUME NEW k \in Key, NEW n \in 0 .. Len(Listed[k[2]])
    PROVE  /\ SubSeq(Listed[k[2]], 1, n) \in Seq(Chapter)
           /\ ElementsOf(SubSeq(Listed[k[2]], 1, n)) \subseteq ElementsOf(Listed[k[2]])
<1>1. k[2] \in Manga
  BY DEF Key
<1>2. Listed[k[2]] \in Seq(Chapter)
  BY <1>1, ListsAssumption
<1> QED
  BY <1>2, SubSeqIs

LEMMA AnswerHolds ==
    ASSUME ShelvesHold, ListAnswers \/ BindAnswers \/ ChaptersAnswer \/ PagesAnswer
    PROVE  ShelvesHold'
<1>1. /\ Holds(World, disk, site) /\ World.app = app /\ World.net = net
      /\ World.store = store
  BY DEF ShelvesHold, World
<1>2. \A x : Without(x) = Taken(World, x)
  BY DEF Without, Taken, World
<1>3. ASSUME ListAnswers
      PROVE  ShelvesHold'
  <2>1. PICK x \in net : x.t \in Lists /\ \/ Handle(x, ListDone(Without(x), x))
                                          \/ Handle(x, ListFailed(Without(x), x))
    BY <1>3 DEF ListAnswers
  <2>2. x.t \in Timed
    BY <2>1 DEF Timed
  <2>3. x.live => x \in Searching(World.net)
    BY <1>1, <2>1 DEF Searching, Out
  <2>4. x.live => /\ Holds(ListDone(Without(x), x), disk, site)
                  /\ Holds(ListFailed(Without(x), x), disk, site)
    BY <1>1, <1>2, <2>3, ListDoneHolds, ListFailedHolds
  <2> QED
    BY <2>1, <2>2, <2>4, HandledHolds
<1>4. ASSUME BindAnswers
      PROVE  ShelvesHold'
  <2>1. PICK x \in net : x.t = "bind" /\ \/ Handle(x, BindDone(Without(x), x))
                                         \/ Handle(x, BindFailed(Without(x), x))
    BY <1>4 DEF BindAnswers
  <2>2. x.t \in Timed
    BY <2>1 DEF Timed
  <2>3. x.live => x \in Binding(World.net)
    BY <1>1, <2>1 DEF Binding, Out
  <2>4. x.live => /\ Holds(BindDone(Without(x), x), disk, site)
                  /\ Holds(BindFailed(Without(x), x), disk, site)
    BY <1>1, <1>2, <2>3, BindDoneHolds, BindFailedHolds
  <2> QED
    BY <2>1, <2>2, <2>4, HandledHolds
<1>5. ASSUME ChaptersAnswer
      PROVE  ShelvesHold'
  <2>1. PICK x \in net : x.t = "chapters"
             /\ \/ \E n \in 0 .. Len(Listed[x.key[2]]) :
                      Handle(x, ChaptersDone(Without(x), x, SubSeq(Listed[x.key[2]], 1, n)))
                \/ Handle(x, ChaptersFailed(Without(x), x))
    BY <1>5 DEF ChaptersAnswer
  <2>2. x.t \in Timed
    BY <2>1 DEF Timed
  <2>3. x.live => x \in Listing(World.net)
    BY <1>1, <2>1 DEF Listing, Out
  <2>4. x.key \in Key
    BY <2>1, EventFields DEF ShelvesHold, TypeOK
  <2>5. CASE \E n \in 0 .. Len(Listed[x.key[2]]) :
               Handle(x, ChaptersDone(Without(x), x, SubSeq(Listed[x.key[2]], 1, n)))
    <3>1. PICK n \in 0 .. Len(Listed[x.key[2]]) :
            Handle(x, ChaptersDone(Without(x), x, SubSeq(Listed[x.key[2]], 1, n)))
      BY <2>5
    <3> DEFINE q == SubSeq(Listed[x.key[2]], 1, n)
    <3>2. q \in Seq(Chapter) /\ ElementsOf(q) \subseteq ElementsOf(Listed[x.key[2]])
      BY <2>4, PrefixIs
    <3>3. Handle(x, ChaptersDone(Without(x), x, q))
      BY <3>1
    <3> HIDE DEF q
    <3>4. x.live => Holds(ChaptersDone(Without(x), x, q), disk, site)
      BY <1>1, <1>2, <2>3, <3>2, ChaptersDoneHolds
    <3> QED
      BY <2>2, <3>3, <3>4, HandledHolds
  <2>6. CASE Handle(x, ChaptersFailed(Without(x), x))
    <3>1. x.live => Holds(ChaptersFailed(Without(x), x), disk, site)
      BY <1>1, <1>2, <2>3, ChaptersFailedHolds
    <3> QED
      BY <2>2, <2>6, <3>1, HandledHolds
  <2> QED
    BY <2>1, <2>5, <2>6
<1>6. ASSUME PagesAnswer
      PROVE  ShelvesHold'
  <2>1. PICK x \in net : x.t = "pages"
             /\ \/ x.phase = "done" /\ Handle(x, PagesDone(Without(x), x))
                \/ x.phase = "failed" /\ Handle(x, PagesFailed(Without(x), x))
    BY <1>6 DEF PagesAnswer
  <2>2. x.t \in Timed
    BY <2>1 DEF Timed
  <2>3. x.live => x \in Fetching(World.net)
    BY <1>1, <2>1 DEF Fetching, Out
  <2>4. x.live /\ x.phase = "done" => Holds(PagesDone(Without(x), x), disk, site)
    BY <1>1, <1>2, <2>3, PagesDoneHolds
  <2>5. x.live => Holds(PagesFailed(Without(x), x), disk, site)
    BY <1>1, <1>2, <2>3, PagesFailedHolds
  <2> QED
    BY <2>1, <2>2, <2>4, <2>5, HandledHolds
<1> QED
  BY <1>3, <1>4, <1>5, <1>6

LEMMA FetchHoldsOn ==
    ASSUME ShelvesHold, FetchPages
    PROVE  ShelvesHold'
<1>1. /\ Holds(World, disk, site) /\ World.app = app /\ World.net = net
      /\ World.store = store
  BY DEF ShelvesHold, World
<1>2. disk \subseteq Chapter /\ site \in [Manga -> Entry] /\ net \subseteq MgEvent
  BY DEF ShelvesHold, TypeOK
<1>3. PICK x \in net : x.t = "pages" /\
        \/ /\ net' = (net \ {x}) \cup {[x EXCEPT !.phase = "done"]}
           /\ disk' = disk \cup {x.chapter}
           /\ UNCHANGED <<app, store, site, keys>>
        \/ /\ net' = (net \ {x}) \cup {[x EXCEPT !.phase = "failed"]}
           /\ UNCHANGED <<app, store, disk, site, keys>>
  BY DEF FetchPages
<1>4. x.chapter \in Chapter
  BY <1>2, <1>3, EventFields
<1> DEFINE come == Stepped(World, x, [x EXCEPT !.phase = "done"])
           lost == Stepped(World, x, [x EXCEPT !.phase = "failed"])
           d == disk \cup {x.chapter}
<1>5. Holds(World, d, site) /\ x.chapter \in d
  BY <1>1, GrownHolds
<1>6. d \subseteq Chapter
  BY <1>2, <1>4
<1> HIDE DEF d
<1>7. Holds(come, d, site)
  <2>1. "done" \in {"done", "failed"}
    OBVIOUS
  <2>2. \A z : z = come => Holds(z, d, site)
    BY <1>1, <1>3, <1>5, <2>1, FetchedHolds
  <2> QED
    BY <2>2
<1>8. Holds(lost, disk, site)
  <2>1. "failed" \in {"done", "failed"} /\ "failed" # "done"
    OBVIOUS
  <2>2. \A z : z = lost => Holds(z, disk, site)
    BY <1>1, <1>3, <2>1, FetchedHolds
  <2> QED
    BY <2>2
<1>9. \/ Becomes(come) /\ disk' = d /\ site' = site /\ keys' = keys
      \/ Becomes(lost) /\ disk' = disk /\ site' = site /\ keys' = keys
  BY <1>1, <1>3 DEF Becomes, Stepped, d
<1> HIDE DEF come, lost
<1> QED
  BY <1>2, <1>6, <1>7, <1>8, <1>9, BecomesHolds

LEMMA CloseHolds ==
    ASSUME ShelvesHold, ViewerCloses
    PROVE  ShelvesHold'
<1>1. Holds(World, disk, site) /\ World.net = net
  BY DEF ShelvesHold, World
<1>2. disk \subseteq Chapter /\ site \in [Manga -> Entry]
  BY DEF ShelvesHold, TypeOK
<1>3. \A x : Without(x) = Taken(World, x)
  BY DEF Without, Taken, World
<1>4. PICK x \in net, report \in {"none", "partway", "end"} :
        /\ x.t = "viewer" /\ Becomes(ViewerExited(Without(x), x, report))
        /\ disk' = disk /\ site' = site /\ keys' = keys
  BY DEF ViewerCloses
<1>5. x \in Watching(World.net)
  BY <1>1, <1>4 DEF Watching, Out, Timed, Lists
<1>6. Holds(ViewerExited(Without(x), x, report), disk, site)
  BY <1>1, <1>3, <1>5, ViewerExitedHolds
<1> QED
  BY <1>2, <1>4, <1>6, BecomesHolds

LEMMA SweepAnswerHolds ==
    ASSUME ShelvesHold, SweepAnswers
    PROVE  ShelvesHold'
<1>1. Holds(World, disk, site) /\ World.net = net
  BY DEF ShelvesHold, World
<1>2. \A x : Without(x) = Taken(World, x)
  BY DEF Without, Taken, World
<1>3. PICK x \in {y \in net : y.t = "sweep"} :
        LET rest == IF Len(x.jobs) = 0 THEN World
                    ELSE [World EXCEPT !.net = (@ \ {x}) \cup {[x EXCEPT !.jobs = Tail(@)]}]
        IN  \/ x.jobs = << >> /\ Handle(x, SweepFinished(Without(x)))
            \/ /\ x.jobs # << >>
               /\ \/ \E n \in 0 .. Len(Listed[Head(x.jobs)[2]]) :
                       Handle(x, SweepChapters(rest, Head(x.jobs),
                                   SubSeq(Listed[Head(x.jobs)[2]], 1, n)))
                  \/ Handle(x, rest)
  BY DEF SweepAnswers
<1> DEFINE rest == Stepped(World, x, [x EXCEPT !.jobs = Tail(@)])
           k == Head(x.jobs)
<1>4. x \in net /\ x.t = "sweep" /\ x.t \in Timed /\ x.jobs \in Seq(Key)
  <2>1. x \in net /\ x.t = "sweep" /\ x \in MgEvent
    BY DEF ShelvesHold, TypeOK
  <2> QED
    BY <2>1, EventFields DEF Timed
<1>5. CASE x.jobs = << >>
  <2>1. Handle(x, SweepFinished(Without(x)))
    BY <1>3, <1>5
  <2>2. x.live => x \in Sweeping(World.net)
    BY <1>1, <1>4 DEF Sweeping, Out
  <2>3. x.live => Holds(SweepFinished(Without(x)), disk, site)
    BY <1>1, <1>2, <2>2, SweepFinishedHolds
  <2> QED
    BY <1>4, <2>1, <2>3, HandledHolds
<1>6. CASE x.jobs # << >>
  <2>1. k \in Key /\ Len(x.jobs) # 0
    BY <1>4, <1>6
  <2>2. [World EXCEPT !.net = (@ \ {x}) \cup {[x EXCEPT !.jobs = Tail(@)]}] = rest
    <3>1. ASSUME NEW y
          PROVE  [World EXCEPT !.net = (@ \ {x}) \cup {y}] = Stepped(World, x, y)
      BY DEF World, Stepped
    <3> QED
      BY <3>1
  <2>3. \/ \E n \in 0 .. Len(Listed[k[2]]) :
             Handle(x, SweepChapters(rest, k, SubSeq(Listed[k[2]], 1, n)))
        \/ Handle(x, rest)
    BY <1>3, <1>6, <2>1, <2>2
  <2>4. Holds(rest, disk, site)
    <3>1. \A z : z = rest => Holds(z, disk, site)
      BY <1>1, <1>4, <1>6, SweepStepHolds
    <3> QED
      BY <3>1
  <2> HIDE DEF rest, k
  <2>5. ASSUME NEW n \in 0 .. Len(Listed[k[2]])
        PROVE  Holds(SweepChapters(rest, k, SubSeq(Listed[k[2]], 1, n)), disk, site)
    BY <2>1, <2>4, PrefixIs, SweepChaptersHolds
  <2> QED
    BY <1>4, <2>3, <2>4, <2>5, HandledHolds
<1> QED
  BY <1>5, <1>6

\* A push on its way, or the user reading elsewhere.
LEMMA PushStepsHold ==
    ASSUME ShelvesHold, PushReads \/ PushSaves
    PROVE  ShelvesHold'
<1>1. /\ Holds(World, disk, site) /\ World.app = app /\ World.net = net
      /\ World.store = store
  BY DEF ShelvesHold, World
<1>2. disk \subseteq Chapter /\ site \in [Manga -> Entry] /\ store \in Store
  BY DEF ShelvesHold, TypeOK
<1>3. \A k \in Key : k[2] \in Manga /\ store.synced[k] \in Nat
                     /\ store.synced[k] <= site[k[2]].progress
                     /\ site[k[2]] \in Entry
  BY <1>1, <1>2 DEF Key, Store, Holds, PushesHold
<1>4. ASSUME NEW x \in net, x.t = "push",
             NEW phase \in {"read", "save", "uptodate", "failed", "pushed"}, NEW seen \in Entry,
             NEW e \in [Manga -> Entry], site' = e,
             \A k \in Key : store.synced[k] <= e[k[2]].progress,
             phase = "save" => \A k \in Key : k[2] = x.key[2] =>
                                  store.synced[k] <= seen.progress,
             phase = "pushed" => x.want <= e[x.key[2]].progress,
             PushTo(x, phase, seen)
      PROVE  ShelvesHold'
  <2> DEFINE v == Stepped(World, x, [x EXCEPT !.phase = phase, !.seen = seen])
  <2>1. Holds(v, disk, e)
    <3>1. \A z : z = v => Holds(z, disk, e)
      BY <1>1, <1>4, PushStepHolds
    <3> QED
      BY <3>1
  <2>2. Becomes(v) /\ disk' = disk /\ keys' = keys
    BY <1>1, <1>4 DEF PushTo, Becomes, Stepped
  <2> HIDE DEF v
  <2> QED
    BY <1>2, <1>4, <2>1, <2>2, BecomesHolds
<1>5. ASSUME PushReads
      PROVE  ShelvesHold'
  <2>1. PICK x \in net : x.t = "push" /\ site' = site
          /\ (PushTo(x, "save", site[x.key[2]]) \/ PushTo(x, "failed", x.seen))
    BY <1>5 DEF PushReads
  <2>2. x.key \in Key /\ x.seen \in Entry
    BY <2>1, EventFields DEF ShelvesHold, TypeOK
  <2>3. CASE PushTo(x, "save", site[x.key[2]])
    <3>1. site[x.key[2]] \in Entry
      BY <1>3, <2>2
    <3>2. \A k \in Key : k[2] = x.key[2] => store.synced[k] <= site[x.key[2]].progress
      BY <1>3
    <3> QED
      BY <1>2, <1>3, <1>4, <2>1, <2>3, <3>1, <3>2
  <2>4. CASE PushTo(x, "failed", x.seen)
    BY <1>2, <1>3, <1>4, <2>1, <2>2, <2>4
  <2> QED
    BY <2>1, <2>3, <2>4
<1>6. ASSUME PushSaves
      PROVE  ShelvesHold'
  <2>1. PICK x \in net : x.t = "push" /\ x.phase = "save" /\
          \/ /\ x.seen.progress >= x.want
             /\ PushTo(x, "uptodate", x.seen) /\ site' = site
          \/ /\ x.seen.progress < x.want
             /\ \/ /\ \E phase \in {"pushed", "failed"} : PushTo(x, phase, x.seen)
                   /\ site' = [site EXCEPT ![x.key[2]] = plan_push(x.seen, x)]
                \/ PushTo(x, "failed", x.seen) /\ site' = site
    BY <1>6 DEF PushSaves
  <2>2. /\ x.key \in Key /\ x.key[2] \in Manga /\ x.seen \in Entry /\ x.want \in Nat
        /\ x.finishes \in BOOLEAN
    <3>1. x \in MgEvent
      BY DEF ShelvesHold, TypeOK
    <3>2. x.finishes \in BOOLEAN
      BY <2>1, <3>1 DEF MgEvent, Lists
    <3> QED
      BY <1>3, <2>1, <3>1, <3>2, EventFields
  <2>3. CASE PushTo(x, "uptodate", x.seen) /\ site' = site
    BY <1>2, <1>3, <1>4, <2>1, <2>2, <2>3
  <2>4. CASE PushTo(x, "failed", x.seen) /\ site' = site
    BY <1>2, <1>3, <1>4, <2>1, <2>2, <2>4
  <2>5. ASSUME x.seen.progress < x.want,
               NEW phase \in {"pushed", "failed"}, PushTo(x, phase, x.seen),
               site' = [site EXCEPT ![x.key[2]] = plan_push(x.seen, x)]
        PROVE  ShelvesHold'
    <3> DEFINE told == plan_push(x.seen, x)
               e == [site EXCEPT ![x.key[2]] = told]
    <3>1. told \in Entry /\ told.progress = x.want
      BY <2>2 DEF plan_push, Entry
    <3> HIDE DEF told
    <3>2. e \in [Manga -> Entry] /\ e[x.key[2]] = told
          /\ \A m \in Manga : m # x.key[2] => e[m] = site[m]
      BY <1>2, <2>2, <3>1
    <3>3. site' = e
      BY <2>5 DEF told
    <3> HIDE DEF e
    <3>4. x \in Pushing(World.net)
      BY <1>1, <2>1 DEF Pushing, Out, Timed, Lists
    <3>5. \A k \in Key : k[2] = x.key[2] => store.synced[k] <= x.seen.progress
      BY <1>1, <2>1, <3>4 DEF Holds, PushesHold
    <3>6. \A k \in Key : store.synced[k] <= e[k[2]].progress
      <4> SUFFICES ASSUME NEW k \in Key PROVE store.synced[k] <= e[k[2]].progress
        OBVIOUS
      <4>1. CASE k[2] = x.key[2]
        <5>1. store.synced[k] \in Nat /\ x.seen.progress \in Nat /\ x.want \in Nat
              /\ store.synced[k] <= x.seen.progress /\ e[k[2]].progress = x.want
          BY <1>3, <2>2, <3>1, <3>2, <3>5, <4>1 DEF Entry
        <5> QED
          BY <2>5, <5>1
      <4>2. CASE k[2] # x.key[2]
        BY <1>3, <3>2, <4>2
      <4> QED
        BY <4>1, <4>2
    <3>7. x.want <= e[x.key[2]].progress
      BY <2>2, <3>1, <3>2
    <3>8. phase # "save" /\ phase \in {"read", "save", "uptodate", "failed", "pushed"}
      OBVIOUS
    <3> QED
      BY <1>4, <2>1, <2>2, <2>5, <3>2, <3>3, <3>6, <3>7, <3>8
  <2> QED
    BY <2>1, <2>3, <2>4, <2>5
<1> QED
  BY <1>5, <1>6

LEMMA PushAnswersHold ==
    ASSUME ShelvesHold, PushAnswers
    PROVE  ShelvesHold'
<1>1. Holds(World, disk, site) /\ World.net = net
  BY DEF ShelvesHold, World
<1>2. disk \subseteq Chapter /\ site \in [Manga -> Entry]
  BY DEF ShelvesHold, TypeOK
<1>3. \A x : Without(x) = Taken(World, x)
  BY DEF Without, Taken, World
<1>4. PICK x \in net : x.t = "push" /\ Becomes(SyncDone(Without(x), x))
                       /\ disk' = disk /\ site' = site /\ keys' = keys
  BY DEF PushAnswers
<1>5. Holds(SyncDone(Without(x), x), disk, site)
  BY <1>1, <1>3, <1>4, SyncDoneHolds
<1> QED
  BY <1>2, <1>4, <1>5, BecomesHolds

LEMMA ElsewhereHolds ==
    ASSUME ShelvesHold, ReadElsewhere
    PROVE  ShelvesHold'
<1>1. /\ Holds(World, disk, site) /\ World.app = app /\ World.net = net
      /\ World.store = store
  BY DEF ShelvesHold, World
<1>2. disk \subseteq Chapter /\ site \in [Manga -> Entry]
  BY DEF ShelvesHold, TypeOK
<1>3. PICK m \in Tracked : site' = [site EXCEPT ![m].progress = @ + 1]
                           /\ UNCHANGED <<app, net, store, disk, keys>>
  BY DEF ReadElsewhere
<1>4. m \in Manga
  BY ListsAssumption
<1> DEFINE n == site[m].progress + 1
           entry == [site[m] EXCEPT !.progress = n]
           e == [site EXCEPT ![m] = entry]
<1>5. site[m] \in Entry /\ n \in Nat
  BY <1>2, <1>4 DEF Entry
<1>6. site' = e
  BY <1>2, <1>3, <1>4
<1>7. entry \in Entry /\ entry.progress = site[m].progress + 1
  <2> HIDE DEF n
  <2>1. entry \in Entry /\ entry.progress = n
    BY <1>5 DEF Entry
  <2> QED
    BY <2>1 DEF n
<1> HIDE DEF entry
<1>8. e \in [Manga -> Entry] /\ e[m] = entry /\ \A o \in Manga : o # m => e[o] = site[o]
  BY <1>2, <1>4, <1>7
<1> HIDE DEF e
<1>9. \A o \in Manga : e[o].progress \in Nat /\ site[o].progress \in Nat
                       /\ site[o].progress <= e[o].progress
  BY <1>2, <1>5, <1>7, <1>8 DEF Entry
<1>10. Holds(World, disk, e)
  BY <1>1, <1>9, SiteGrows
<1>11. Becomes(World)
  BY <1>1, <1>3 DEF Becomes
<1> QED
  BY <1>2, <1>3, <1>6, <1>8, <1>10, <1>11, BecomesHolds

LEMMA StartHolds ==
    ASSUME Init
    PROVE  ShelvesHold
<1>1. PICK followed \in SUBSET {<<Native[m], m>> : m \in Manga}, account \in BOOLEAN,
           order \in Orders : Started(followed, account, order, {})
  BY DEF Init
<1>2. followed \in SUBSET Key
  BY <1>1, ListsAssumption DEF Key
<1>3. order \in Seq(Manga)
  BY OrderIs
<1> DEFINE cache == [k \in Key |-> << >>]
           synced == [k \in Key |-> 0]
<1>4. /\ store = [followed |-> followed, known |-> followed, rows |-> {},
                  cache |-> cache, synced |-> synced, order |-> order]
      /\ net = {} /\ disk = {} /\ keys = 0
      /\ site = [m \in Manga |-> [progress |-> 0, done |-> FALSE]]
  BY <1>1 DEF Started
<1>5. cache \in [Key -> Seq(Chapter)] /\ synced \in [Key -> Nat]
      /\ (\A k \in Key : cache[k] = << >> /\ synced[k] = 0)
  OBVIOUS
<1> HIDE DEF cache, synced
<1>6. store \in Store /\ store.rows = {} /\ store.cache = cache /\ store.synced = synced
  BY <1>2, <1>3, <1>4, <1>5 DEF Store
<1>7. library(store) \in Seq(Manga)
  BY <1>6, LibraryIs
<1> DEFINE view == IF followed = {} THEN "search" ELSE "library"
           shelf == library(store)
<1>8. app = [view |-> view,
             list |-> << >>, at |-> 1, shelf |-> shelf, shelfAt |-> 1,
             focus |-> "list", source |-> Configured,
             feed |-> None, page |-> 0, more |-> FALSE, searching |-> FALSE,
             seed |-> None, binding |-> None, held |-> None, chapters |-> << >>,
             chapterAt |-> 1, loading |-> FALSE, pending |-> None,
             continuing |-> None, marksFor |-> None, read |-> {}, resume |-> {},
             undo |-> None, fetching |-> None, dl |-> NoDownload, viewers |-> {},
             syncing |-> FALSE, account |-> account, sweeping |-> FALSE]
  BY <1>1 DEF Started
<1>9. view \in {"search", "library"}
  OBVIOUS
<1>10. NoDownload \in Downloads /\ NoDownload.on = FALSE
  BY DEF NoDownload, Downloads
<1>11. Configured \in Source
  BY ListsAssumption
<1> HIDE DEF view, shelf
<1>12. app \in MgApp
  BY <1>7, <1>8, <1>9, <1>10, <1>11 DEF MgApp, OrNone, Downloads, shelf
<1>13. /\ app.list = << >> /\ app.feed = None /\ app.held = None /\ ~app.more
       /\ ~app.searching /\ ~app.sweeping /\ app.binding = None /\ ~app.loading
       /\ app.marksFor = None /\ app.undo = None /\ app.fetching = None
       /\ ~app.dl.on /\ app.viewers = {} /\ ~app.syncing
  BY <1>8, <1>10
<1>14. site \in [Manga -> Entry] /\ \A m \in Manga : site[m].progress = 0
  BY <1>4 DEF Entry
<1>15. TypeOK
  <2>1. 0 \in 0 .. MaxKeys
    BY ListsAssumption
  <2> QED
    BY <1>4, <1>6, <1>12, <1>14, <2>1 DEF TypeOK
<1> DEFINE w == World
<1>16. w \in Worlds /\ w.app = app /\ w.net = {} /\ w.store = store
  BY <1>4, <1>15 DEF World, Worlds, TypeOK
<1> HIDE DEF w
<1>17. /\ Searching(w.net) = {} /\ Binding(w.net) = {} /\ Listing(w.net) = {}
       /\ Fetching(w.net) = {} /\ Sweeping(w.net) = {} /\ Watching(w.net) = {}
       /\ Pushing(w.net) = {}
  BY <1>16 DEF Searching, Binding, Listing, Fetching, Sweeping, Watching, Pushing, Out
<1>18. ListsAreOwn(w)
  BY <1>5, <1>6, <1>13, <1>16, <1>17 DEF ListsAreOwn, ElementsOf
<1>19. MarksHold(w) /\ RowsHold(w)
  BY <1>6, <1>13, <1>16 DEF MarksHold, RowsHold
<1>20. WaitsHold(w) /\ FetchHolds(w, disk) /\ ViewersHold(w, disk)
  BY <1>13, <1>16, <1>17 DEF WaitsHold, FetchHolds, ViewersHold
<1>21. PushesHold(w, site)
  <2>1. \A k \in Key : store.synced[k] <= site[k[2]].progress
    BY <1>5, <1>6, <1>14 DEF Key
  <2> QED
    BY <1>13, <1>16, <1>17, <2>1 DEF PushesHold
<1> QED
  BY <1>15, <1>16, <1>18, <1>19, <1>20, <1>21 DEF ShelvesHold, Holds, w

LEMMA StepHolds ==
    ASSUME ShelvesHold, [Next]_vars
    PROVE  ShelvesHold'
<1>1. CASE Gesture
  BY <1>1, GestureHolds
<1>2. CASE Worker
  BY <1>2, AnswerHolds, FetchHoldsOn, SweepAnswerHolds, PushStepsHold, PushAnswersHold
  DEF Worker
<1>3. CASE ViewerCloses
  BY <1>3, CloseHolds
<1>4. CASE ReadElsewhere
  BY <1>4, ElsewhereHolds
<1>5. CASE UNCHANGED vars
  <2>1. app' = app /\ net' = net /\ store' = store /\ disk' = disk /\ site' = site
        /\ keys' = keys
    BY <1>5 DEF vars
  <2>2. World' = World
    BY <2>1 DEF World
  <2>3. TypeOK'
    BY <2>1 DEF TypeOK, ShelvesHold
  <2> QED
    BY <2>1, <2>2, <2>3 DEF ShelvesHold
<1> QED
  BY <1>1, <1>2, <1>3, <1>4, <1>5 DEF Next

-----------------------------------------------------------------------------
(* Theorems *)

\* Lists belong to the source or the manga they are shown under, marks and rows
\* to the manga they were made for, and every wait, fetch, viewer and push has
\* its one worker, whatever gestures and answers come and in whatever order.
THEOREM AlwaysShelvesHold == Spec => []ShelvesHold
<1>1. Init => ShelvesHold
  BY StartHolds
<1>2. ShelvesHold /\ [Next]_vars => ShelvesHold'
  BY StepHolds
<1> QED
  BY <1>1, <1>2, PTL DEF Spec

\* The marks on the screen are the database's, for the manga they were read for.
THEOREM AlwaysMarksMirrorStore == Spec => []MarksMirrorStore
<1>1. ShelvesHold => MarksMirrorStore
  BY DEF ShelvesHold, Holds, MarksHold, World, ReadOf, ResumeOf, MarksMirrorStore
<1> QED
  BY <1>1, AlwaysShelvesHold, PTL

\* Progress is written to the manga the chapter is of, under its source, after
\* its identity row.
THEOREM AlwaysWrittenWhereRead == Spec => []WrittenWhereRead
<1>1. ShelvesHold => WrittenWhereRead
  BY DEF ShelvesHold, Holds, RowsHold, World, Written, WrittenWhereRead
<1> QED
  BY <1>1, AlwaysShelvesHold, PTL

\* A push that fails is still owed: nothing is noted that AniList was not told.
THEOREM AlwaysSyncedIsOnServer == Spec => []SyncedIsOnServer
<1>1. ShelvesHold => SyncedIsOnServer
  BY DEF ShelvesHold, Holds, PushesHold, World, SyncedIsOnServer
<1> QED
  BY <1>1, AlwaysShelvesHold, PTL

LEMMA WaitsOf ==
    ASSUME ShelvesHold
    PROVE  Waits
<1> DEFINE Live(t) == {x \in net : x.t = t /\ x.live}
           m == selected(app)
<1>1. /\ WaitsHold(World) /\ FetchHolds(World, disk) /\ PushesHold(World, site)
      /\ World.app = app /\ World.net = net /\ app \in MgApp /\ net \subseteq MgEvent
  BY DEF ShelvesHold, TypeOK, Holds, World
<1>2. /\ \A x : x \in Searching(net) <=> x \in net /\ x.t \in Lists /\ x.live
      /\ Binding(net) = Live("bind") /\ Listing(net) = Live("chapters")
      /\ Fetching(net) = Live("pages") /\ Sweeping(net) = Live("sweep")
      /\ Pushing(net) = {x \in net : x.t = "push"}
  BY DEF Searching, Binding, Listing, Fetching, Sweeping, Pushing, Out, Timed, Lists
<1>3. draw_bottom(app) = "searching" => \E t \in Lists : Live(t) # {}
  <2> SUFFICES ASSUME draw_bottom(app) = "searching" PROVE \E t \in Lists : Live(t) # {}
    OBVIOUS
  <2>1. app.searching
    BY DEF draw_bottom
  <2>2. PICK x \in Searching(net) : TRUE
    BY <1>1, <2>1 DEF WaitsHold
  <2> QED
    BY <1>2, <2>2
<1>4. draw_bottom(app) = "checking" => Live("sweep") # {}
  <2>1. draw_bottom(app) = "checking" => app.sweeping
    BY DEF draw_bottom
  <2> QED
    BY <1>1, <1>2, <2>1 DEF WaitsHold
<1>5. draw_detail(app) = "finding it" => \E x \in Live("bind") : x.al = m
  <2>1. draw_detail(app) = "finding it" => app.binding = m /\ m # None
    BY DEF draw_detail
  <2> HIDE DEF m
  <2> QED
    BY <1>1, <1>2, <2>1 DEF WaitsHold
<1>6. draw_detail(app) \in {"fetching chapters", "refreshing"} =>
        \E x \in Live("chapters") : x.key[2] = m
  <2>1. draw_detail(app) \in {"fetching chapters", "refreshing"} =>
          app.loading /\ app.pending = m /\ m # None
    BY DEF draw_detail
  <2> HIDE DEF m
  <2> QED
    BY <1>1, <1>2, <2>1 DEF WaitsHold
<1>7. /\ app.fetching # None <=> Live("pages") # {}
      /\ \A x \in Live("pages") : x.chapter = app.fetching
  <2>1. \A x \in Live("pages") : x.chapter \in Chapter
    BY <1>1, EventFields
  <2>2. None \notin Chapter
    BY ListsAssumption
  <2> QED
    BY <1>1, <1>2, <2>1, <2>2 DEF FetchHolds
<1>8. app.syncing <=> \E x \in net : x.t = "push"
  BY <1>1, <1>2 DEF PushesHold
<1>9. app.dl.on => /\ app.fetching # None
                   /\ app.dl.done + app.dl.failed + Len(app.dl.left) + 1 = app.dl.total
  BY <1>1 DEF FetchHolds
<1> HIDE DEF Live
<1> QED
  BY <1>3, <1>4, <1>5, <1>6, <1>7, <1>8, <1>9 DEF Waits, Live

LEMMA ViewersOf ==
    ASSUME ShelvesHold
    PROVE  Viewers
<1>1. ViewersHold(World, disk) /\ World.app = app /\ World.net = net
  BY DEF ShelvesHold, Holds, World
<1>2. Watching(net) = {x \in net : x.t = "viewer"}
  BY DEF Watching, Out, Timed, Lists
<1> SUFFICES ASSUME NEW c \in Chapter
             PROVE  Cardinality({x \in net : x.t = "viewer" /\ x.chapter = c})
                      = Cardinality({v \in app.viewers : v.chapter = c})
  BY DEF Viewers
<1> DEFINE W == {x \in net : x.t = "viewer" /\ x.chapter = c}
           V == {v \in app.viewers : v.chapter = c}
<1>3. /\ \A x, y \in W : x = y
      /\ \A u, v \in V : u = v
      /\ W # {} <=> V # {}
  BY <1>1, <1>2 DEF ViewersHold
<1> HIDE DEF W, V
<1>4. ASSUME W = {}
      PROVE  Cardinality(W) = Cardinality(V)
  BY <1>3, <1>4
<1>5. ASSUME W # {}
      PROVE  Cardinality(W) = Cardinality(V)
  <2>1. PICK x, v : W = {x} /\ V = {v}
    BY <1>3, <1>5
  <2>2. Cardinality({x}) = 1 /\ Cardinality({v}) = 1
    BY FS_Singleton
  <2> QED
    BY <2>1, <2>2
<1>6. Cardinality(W) = Cardinality(V)
  BY <1>4, <1>5
<1> QED
  BY <1>6 DEF W, V

\* Whatever the screen says it waits for is worked on, a download run accounts
\* for its chapters, and a chapter has one viewer, which is waited for.
THEOREM AlwaysWaitsAreAnswered == Spec => []WaitsAreAnswered
<1>1. ShelvesHold => WaitsAreAnswered
  BY WaitsOf, ViewersOf DEF WaitsAreAnswered
<1> QED
  BY <1>1, AlwaysShelvesHold, PTL

=============================================================================
