------------------------------ MODULE Healing -------------------------------
(***************************************************************************)
(* The metadata of the show on screen (tui/app.cpp reconcile_enrich): is   *)
(* what the store has stale, the network is asked, one question at a time, *)
(* and the answer lands in the store and in the row that shows it.  A row  *)
(* that came from MyAnimeList alone has an id of its own until AniList     *)
(* knows the show (the heal): then the row, what hangs on it and every     *)
(* copy that names it move to the real id (rekey_row, Store::rekey_show),  *)
(* unless something in flight still writes under the old one.              *)
(***************************************************************************)
EXTENDS Naturals, Sequences

CONSTANTS Titles, Bridged,  \* shows; those that a MyAnimeList row may stand for
          Answers,          \* the lists a search or a feed may answer with
          None,
          MaxGestures, MaxSearches, MaxExpiries  \* bounds

Real(t) == [site |-> "anilist", title |-> t]
Bridge(t) == [site |-> "mal", title |-> t]
Ids == {Real(t) : t \in Titles} \cup {Bridge(t) : t \in Bridged}
OrNone(S) == S \cup {None}

VARIABLES
    store,   \* show rows, what is fresh, the catalog cache
    lists,   \* Browse's and Discover's rows
    copies,  \* the library rows History and Schedule hold
    scr,     \* the view whose row is shown, its detail, each view's row
    ask,     \* enrich_checked, heal_checked, enrich_inflight
    jobs,    \* questions whose answer has not been handled
    grid,    \* the show the episode grid is open on, or None
    writing, \* what a walk and a play still write under
    held,    \* the armed delete, the undo
    healed,  \* history: bridges healed since the catalog last named them
    gestures, searches, expiries

vars == <<store, lists, copies, scr, ask, jobs, grid, writing, held, healed,
          gestures, searches, expiries>>

Catalogs == {"Browse", "Discover"}
Libraries == {"History", "Schedule"}
Views == Catalogs \cup Libraries

\* show rows, those in the library and those with fresh metadata; catalog_cache
\* rows, and those that have not expired
Store == [{"rows", "library", "fresh", "cached", "current"} -> SUBSET Ids]
Screen == [view : Views, detail : BOOLEAN,
           at : [Catalogs -> Nat], on : [Libraries -> OrNone(Ids)]]
Ask == [checked : OrNone(Ids), healed : OrNone(Ids), inflight : BOOLEAN]
Job == [kind : {"enrich", "heal"}, id : Ids]
Writing == [{"walk", "play"} -> OrNone(Ids)]
Held == [{"delete", "undo"} -> OrNone(Ids)]

TypeOK ==
    /\ store \in Store
    /\ lists \in [Catalogs -> Seq(Ids)]
    /\ copies \in [Libraries -> SUBSET Ids]
    /\ scr \in Screen /\ ask \in Ask /\ jobs \subseteq Job
    /\ grid \in OrNone(Ids) /\ writing \in Writing /\ held \in Held
    /\ healed \subseteq Bridged

Init ==
    /\ store = [rows |-> {}, library |-> {}, fresh |-> {}, cached |-> {}, current |-> {}]
    /\ lists = [l \in Catalogs |-> <<>>]
    /\ copies = [l \in Libraries |-> {}]
    /\ scr = [view |-> "Browse", detail |-> FALSE,
              at |-> [l \in Catalogs |-> 1], on |-> [l \in Libraries |-> None]]
    /\ ask = [checked |-> None, healed |-> None, inflight |-> FALSE]
    /\ jobs = {}
    /\ grid = None
    /\ writing = [k \in {"walk", "play"} |-> None]
    /\ held = [k \in {"delete", "undo"} |-> None]
    /\ healed = {}
    /\ gestures = 0 /\ searches = 0 /\ expiries = 0

\* What a handler reads and rewrites.
World == [store |-> store, lists |-> lists, copies |-> copies, scr |-> scr, ask |-> ask,
          jobs |-> jobs, grid |-> grid, writing |-> writing, held |-> held]

-----------------------------------------------------------------------------
(* The show on screen *)

\* detail::selected_enrichment
Shown(w) ==
    IF w.scr.view \in Libraries THEN w.scr.on[w.scr.view]
    ELSE IF w.scr.at[w.scr.view] \in DOMAIN w.lists[w.scr.view]
         THEN w.lists[w.scr.view][w.scr.at[w.scr.view]]
         ELSE None

\* enrichment_stale: the row decides, then the cache.
Stale(d, i) == i \notin IF i \in d.rows THEN d.fresh ELSE d.current

Spawned(w, kind, i) == [w EXCEPT !.jobs = @ \cup {[kind |-> kind, id |-> i]},
                                 !.ask.inflight = TRUE]

\* reconcile_enrich, at the end of every event.
Reconciled(w) ==
    LET i == Shown(w)
        v == [w EXCEPT !.ask.checked = IF @ = i THEN @ ELSE None,
                       !.ask.healed = IF i = None \/ @ = i THEN @ ELSE None]
    IN  CASE i = None -> [w EXCEPT !.ask.checked = None]
          [] i # None /\ (v.ask.checked = i \/ v.ask.inflight) -> v
          [] i # None /\ v.ask.checked # i /\ ~v.ask.inflight /\ i.site = "mal" /\ v.ask.healed # i ->
                Spawned([v EXCEPT !.ask.healed = i], "heal", i)
          [] OTHER ->
                LET u == [v EXCEPT !.ask.checked = i]
                IN  IF Stale(v.store, i) THEN Spawned(u, "enrich", i) ELSE u

Settles(w) ==
    LET v == Reconciled(w)
    IN  /\ store' = v.store /\ lists' = v.lists /\ copies' = v.copies /\ scr' = v.scr
        /\ ask' = v.ask /\ jobs' = v.jobs /\ grid' = v.grid
        /\ writing' = v.writing /\ held' = v.held

-----------------------------------------------------------------------------
(* The library's rows *)

\* What a read of the library may show: History's cursor stays on its row,
\* Schedule's may come to any with a date, if there is one.
Reads(w, l) ==
    LET have == w.store.library
        stays == w.scr.on[l] \in have
    IN  [rows : {have}, on : CASE l = "Schedule" -> OrNone(have)
                               [] l = "History" /\ stays -> {w.scr.on[l]}
                               [] l = "History" /\ ~stays -> IF have = {} THEN {None} ELSE have]

\* load_history, load_schedule
Loaded(w, l) == {[w EXCEPT !.copies[l] = r.rows, !.scr.on[l] = r.on] : r \in Reads(w, l)}

\* Both, where Schedule has rows to renew.
Both(w) ==
    UNION {IF v.copies["Schedule"] = {} THEN {v} ELSE Loaded(v, "Schedule") :
              v \in Loaded(w, "History")}

\* EpisodeSession::engage, where it starts a walk.
Engaged(w, i) == [w EXCEPT !.grid = i, !.writing["walk"] = i]

-----------------------------------------------------------------------------
(* The user *)

Pressed == gestures < MaxGestures /\ gestures' = gestures + 1
\* An armed delete takes every key.
Gesture == Pressed /\ held["delete"] = None
Kept == UNCHANGED <<healed, searches, expiries>>

\* A view's key; History and Schedule read the library.
GoTo(v) ==
    /\ scr.view # v
    /\ Gesture /\ Kept
    /\ LET w == [World EXCEPT !.scr.view = v, !.scr.detail = FALSE]
       IN  IF v \in Libraries THEN \E u \in Loaded(w, v) : Settles(u) ELSE Settles(w)

\* The cursor goes to another row.
Move ==
    /\ ~scr.detail
    /\ Gesture /\ Kept
    /\ \/ /\ scr.view \in Catalogs
          /\ \E k \in DOMAIN lists[scr.view] : Settles([World EXCEPT !.scr.at[scr.view] = k])
       \/ /\ scr.view \in Libraries
          /\ \E i \in copies[scr.view] : Settles([World EXCEPT !.scr.on[scr.view] = i])

\* open_detail: the grid of a show that is open already may stay; it starts over
\* if its last walk came to nothing.  Escape goes back to the list.
OpenDetail ==
    /\ ~scr.detail /\ Shown(World) # None
    /\ Gesture /\ Kept
    /\ LET i == Shown(World)
           w == [World EXCEPT !.scr.detail = TRUE]
       IN  \/ grid = i /\ Settles(w)
           \/ ~(grid = i /\ writing["walk"] = i) /\ Settles(Engaged(w, i))
Back ==
    /\ scr.detail
    /\ Gesture /\ Kept
    /\ Settles([World EXCEPT !.scr.detail = FALSE])

InLibrary(d, i) == [d EXCEPT !.rows = @ \cup {i}, !.library = @ \cup {i}]

\* The watchlist key.
AddToLibrary ==
    /\ scr.view \in Catalogs /\ Shown(World) # None
    /\ Gesture /\ Kept
    /\ Settles([World EXCEPT !.store = InLibrary(@, Shown(World))])

\* Enter on an episode of the grid that is open.
Play ==
    /\ scr.detail /\ grid # None /\ Shown(World) = grid /\ writing["walk"] = None
    /\ writing["play"] = None
    /\ Gesture /\ Kept
    /\ Settles([World EXCEPT !.writing["play"] = grid])

\* A status key of History keeps what it replaced; `X' arms the delete.
Arm(key) ==
    /\ scr.view = "History" /\ ~scr.detail /\ Shown(World) # None
    /\ Gesture /\ Kept
    /\ LET w == [World EXCEPT !.held[key] = Shown(World)]
       IN  IF key = "undo" THEN \E u \in Loaded(w, "History") : Settles(u) ELSE Settles(w)

\* `u'
Undo ==
    /\ scr.view = "History" /\ ~scr.detail /\ held["undo"] # None
    /\ Gesture /\ Kept
    /\ \E u \in Loaded([World EXCEPT !.held["undo"] = None], "History") : Settles(u)

\* Any other key puts the delete away; `y': the armed row goes, unless it is
\* playing.
PutAway ==
    /\ held["delete"] # None
    /\ Pressed /\ Kept
    /\ Settles([World EXCEPT !.held["delete"] = None])
Confirm ==
    /\ held["delete"] # None
    /\ Pressed /\ Kept
    /\ LET i == held["delete"]
           w == [World EXCEPT !.held["delete"] = None]
           gone == [w EXCEPT !.store.rows = @ \ {i}, !.store.library = @ \ {i},
                             !.store.fresh = @ \ {i},
                             !.held["undo"] = IF @ = i THEN None ELSE @]
       IN  IF writing["play"] = i THEN Settles(w)
           ELSE \E u \in Loaded(gone, "History") : Settles(u)

-----------------------------------------------------------------------------
(* Other events *)

\* New results; MyAnimeList's name a show by its bridge again.
Answered(l) ==
    /\ searches < MaxSearches /\ searches' = searches + 1
    /\ \E answer \in Answers :
          /\ Settles([World EXCEPT !.lists[l] = answer, !.scr.at[l] = 1])
          /\ healed' = {t \in healed : \A k \in DOMAIN answer : answer[k] # Bridge(t)}
    /\ UNCHANGED <<gestures, expiries>>

\* The walk finds its source and binds it, minting the row if there is none.
WalkEnds ==
    /\ writing["walk"] # None
    /\ \E bound \in {{}, {writing["walk"]}} :
          Settles([World EXCEPT !.writing["walk"] = None, !.store.rows = @ \cup bound])
    /\ UNCHANGED gestures /\ Kept

\* record_finish: a play that counts puts its row in the library.
PlayEnds ==
    /\ writing["play"] # None
    /\ \E counted \in {{}, {writing["play"]} \cap store.rows} :
          Settles([World EXCEPT !.writing["play"] = None, !.store.library = @ \cup counted])
    /\ UNCHANGED gestures /\ Kept

\* What was fresh of a show is stale now.
Expires(i) ==
    /\ expiries < MaxExpiries /\ expiries' = expiries + 1
    /\ i \in store.fresh \cup store.current
    /\ store' = [store EXCEPT !.fresh = @ \ {i}, !.current = @ \ {i}]
    /\ UNCHANGED <<lists, copies, scr, ask, jobs, grid, writing, held, healed,
                   gestures, searches>>

-----------------------------------------------------------------------------
(* The heal *)

WritesInFlight(w, i) == \E k \in DOMAIN w.writing : w.writing[k] = i

Renamed(i, old, new) == IF i = old THEN new ELSE i

\* Store::rekey_show: an entry or a row under the new id is kept, and what hung
\* on the old row moves to it.
Rekeyed(d, old, new) ==
    LET ids(S) == {Renamed(i, old, new) : i \in S}
    IN  [rows |-> ids(d.rows), library |-> ids(d.library),
         fresh |-> IF new \in d.rows THEN d.fresh \ {old} ELSE ids(d.fresh),
         cached |-> ids(d.cached),
         current |-> IF new \in d.cached THEN d.current \ {old} ELSE ids(d.current)]

\* rekey_row, past its guard.
RowRekeyed(w, old, new) ==
    [w EXCEPT !.store = Rekeyed(w.store, old, new),
              !.copies = [l \in Libraries |-> {Renamed(i, old, new) : i \in w.copies[l]}],
              !.scr.on = [l \in Libraries |-> Renamed(w.scr.on[l], old, new)],
              !.held = [k \in DOMAIN w.held |-> Renamed(w.held[k], old, new)],
              !.grid = IF w.grid = old THEN None ELSE w.grid]

\* patch_show_enrichment and upsert_catalog_cache
Patched(d, i) == [d EXCEPT !.fresh = @ \cup ({i} \cap d.rows),
                           !.cached = @ \cup {i}, !.current = @ \cup {i}]

\* stamp_enrichment_checked
Stamped(d, i) == [d EXCEPT !.fresh = @ \cup ({i} \cap d.rows),
                           !.current = @ \cup ({i} \cap d.cached)]

\* A mistake: any row on screen.
AppliedAnyway(w, asked, merged) ==
    IF Shown(w) # None /\ w.scr.view \in Catalogs
    THEN [w EXCEPT !.lists[w.scr.view][w.scr.at[w.scr.view]] = merged]
    ELSE w

\* apply_enrichment_to_selection: the row on screen, if it is still the one asked
\* for, and Browse's or Discover's.
AppliedToSelection(w, asked, merged) ==
    IF Shown(w) = asked /\ w.scr.view \in Catalogs
    THEN [w EXCEPT !.lists[w.scr.view][w.scr.at[w.scr.view]] = merged]
    ELSE w

\* finish_heal
Finished(w, old, new, reset) ==
    LET v == [w EXCEPT !.lists = [l \in Catalogs |->
                 [k \in DOMAIN w.lists[l] |-> Renamed(w.lists[l][k], old, new)]]]
    IN  IF reset /\ v.scr.detail /\ Shown(v) = new THEN Engaged(v, new) ELSE v

\* on_enrichment_refreshed for the id that was asked about.
OnEnrichmentRefreshed(w, i) ==
    LET d == Patched(w.store, i)
        patched == i \in w.store.rows
        v == [w EXCEPT !.store = d]
    IN  {AppliedToSelection(u, i, i) : u \in IF patched THEN Both(v) ELSE {v}}

OnHealed(w, old, new) ==
    IF WritesInFlight(w, old) THEN {w}
    ELSE LET v == RowRekeyed(w, old, new)
         IN  {Finished(AppliedToSelection(u, old, new), old, new, w.grid = old) :
                 u \in Both([v EXCEPT !.store = Patched(v.store, new)])}

\* EnrichmentRefreshed, EnrichmentNull (which counts as a look) and EnrichmentFailed.
EnrichAnswers ==
    \E j \in jobs :
        /\ j.kind = "enrich"
        /\ LET w == [World EXCEPT !.jobs = @ \ {j}, !.ask.inflight = FALSE]
           IN  \/ \E u \in OnEnrichmentRefreshed(w, j.id) : Settles(u)
               \/ Settles([w EXCEPT !.store = Stamped(w.store, j.id)])
               \/ Settles(w)
        /\ UNCHANGED gestures /\ Kept

\* A heal finds the AniList entry, or misses it.
HealAnswers ==
    \E j \in jobs :
        /\ j.kind = "heal"
        /\ LET w == [World EXCEPT !.jobs = @ \ {j}, !.ask.inflight = FALSE]
               t == j.id.title
           IN  \/ /\ \E u \in OnHealed(w, j.id, Real(t)) : Settles(u)
                  /\ healed' = IF WritesInFlight(w, j.id) THEN healed ELSE healed \cup {t}
               \/ Settles(w) /\ UNCHANGED healed
        /\ UNCHANGED <<gestures, searches, expiries>>

Next ==
    \/ \E v \in Views : GoTo(v)
    \/ Move \/ OpenDetail \/ Back \/ AddToLibrary \/ Play
    \/ Undo \/ PutAway \/ Confirm
    \/ \E key \in {"delete", "undo"} : Arm(key)
    \/ \E l \in Catalogs : Answered(l)
    \/ WalkEnds \/ PlayEnds \/ EnrichAnswers \/ HealAnswers
    \/ \E i \in Ids : Expires(i)

Spec == Init /\ [][Next]_vars

-----------------------------------------------------------------------------
(* Properties *)

\* A healed bridge is named nowhere: no row, no list, no grid, no armed delete
\* and no undo is left under it, and nothing that ends later brings it back.
HealedIsGone ==
    \A t \in healed :
        LET b == Bridge(t)
        IN  /\ b \notin store.rows
            /\ \A l \in Catalogs : \A k \in DOMAIN lists[l] : lists[l][k] # b
            /\ \A l \in Libraries : b \notin copies[l]
            /\ grid # b
            /\ \A k \in DOMAIN writing : writing[k] # b
            /\ \A k \in DOMAIN held : held[k] # b

\* One question is out at a time, and the show on screen is asked about or has
\* been looked at.
OneQuestion == (\A j, k \in jobs : j = k) /\ (ask.inflight <=> jobs # {})
ShownIsLookedAt == ~ask.inflight => Shown(World) \in {None, ask.checked}

\* An answer changes a row's metadata, never which show the row is: whatever
\* is on screen when it comes, rows of other shows keep theirs.
RowsKeepTheirShow ==
    [][searches' = searches =>
          \A l \in Catalogs :
              /\ DOMAIN lists'[l] = DOMAIN lists[l]
              /\ \A k \in DOMAIN lists[l] : lists'[l][k].title = lists[l][k].title]_vars

HealsWhole == [](HealedIsGone /\ OneQuestion /\ ShownIsLookedAt) /\ RowsKeepTheirShow
=============================================================================
