----------------------------- MODULE MCScreens -----------------------------
(* Small instances of the interface's screens: its keys and its show page     *)
(* (Interface, the two parts of MCInterface), what it fetches for them -      *)
(* Discover's feeds (Feeds), Browse's search (Search), the detail cover       *)
(* (DetailCover), the grid's covers (GridCovers) - the sources that are asked *)
(* of episodes (Sources) and of manga (MangaSources), the page viewer         *)
(* (Viewer), what is known and told of the next episodes (Airing) and the     *)
(* metadata of the show on screen (Healing).  They share no state here, so a  *)
(* behaviour runs one of them while the others rest.                          *)
EXTENDS MCInterface, Sequences

CONSTANTS
    Axes, Seeds, Filters, MaxPages, MaxEmpty, LastPage, MaxChanges,
    Queries, Blank, MaxAsked,
    Boxes, NoBox,
    Urls, PoolCap, Concurrency, Rows,
    Impersonates, Servers, MaxNumber,
    Limit, MaxFeedPages, Window, MaxUploads, MaxRanked, MaxSiteChanges,
    Kinds, Pages, Unit, Zooms, Fits, Rtl, MaxRequests,
    LastEp, MaxTime, MaxLooks, MaxDelays, MaxKeys, MaxSearches, MaxExpiries,
    Titles, Bridged, Found

VARIABLES
    axis, seed, similar, filters, gens, slots, feedFetches,
    bar, query, debounce, list, answered, inflight, searchFetches,
    shown, cover, failed, held, placed, coverFetches,
    window, pool, store, free, gridPlaced, workers,
    source, site, keys, known, call, answer, listed,
    opened, view, viewWin, laid, drawn, title, cache, requests, decoding, place, report,
    now, airs, dated, up, markers, run, reply, told, delays,
    showRows, lists, copies, at, ask, questions, openGrid, writing, armed, healed,
    searches, expiries, pressed

feedVars == <<axis, seed, similar, filters, gens, slots, feedFetches>>
searchVars == <<bar, query, debounce, list, answered, inflight, searchFetches>>
coverVars == <<shown, cover, failed, held, placed, coverFetches>>
gridVars == <<window, pool, store, free, gridPlaced, workers>>
screenVars == <<feedVars, searchVars, coverVars, gridVars>>
sourceVars == <<source, site, keys, known, call, answer, listed>>
viewVars == <<opened, view, viewWin, laid, drawn, title, cache, requests, decoding,
              place, report>>
airingVars == <<now, airs, dated, up, markers, run, reply, told, delays>>
healingVars == <<showRows, lists, copies, at, ask, questions, openGrid, writing, armed, healed,
                 searches, expiries>>
showVars == <<airingVars, healingVars, pressed>>

Feed == INSTANCE Feeds WITH fetches <- feedFetches
Find == INSTANCE Search WITH fetches <- searchFetches, MaxFetches <- MaxAsked
Detail == INSTANCE DetailCover WITH fetches <- coverFetches
Grid == INSTANCE GridCovers WITH placed <- gridPlaced
Anime == INSTANCE Sources
Manga == INSTANCE MangaSources WITH held <- known, MaxChanges <- MaxSiteChanges

\* A square page, a book of two chapters, a narrow window and a wide one.
Narrow == [w |-> 2, h |-> 2]
Wide == [w |-> 4, h |-> 2]
Pressed(kind) ==
    CASE kind = "images" -> {"next", "prev", "end"}
      [] kind = "fixed" -> {"right", "left", "down", "fit", "fullscreen", "in", "quit"}
      [] kind = "book" -> {"right", "left", "fullscreen", "escape", "in"}
Reader == INSTANCE Viewer WITH source <- opened, win <- viewWin,
    Chapters <- <<3, 2>>, Native <- Narrow, Sizes <- {Narrow, Wide},
    InitSize <- Narrow, Screen <- Wide, KeysFor <- Pressed

\* One show of the library.
Followed == {CHOOSE s \in Shows : TRUE}
Air == INSTANCE Airing WITH Shows <- Followed, row <- dated,
    copies <- markers, gestures <- pressed, MaxGestures <- MaxLooks

ASSUME AiringAssumption ==
    /\ LastEp \in Nat
    /\ None \notin Air!Row \cup Air!Airing \cup Air!Reply \cup Air!Episodes

\* MyAnimeList's row of a stands for a show AniList will know; it is in one of
\* two lists a search may answer with.
MCFound == {<<[site |-> "mal", title |-> "a"], [site |-> "anilist", title |-> "b"]>>,
            <<[site |-> "anilist", title |-> "b"], [site |-> "anilist", title |-> "a"]>>}
Heal == INSTANCE Healing WITH store <- showRows, scr <- at, jobs <- questions, grid <- openGrid,
    held <- armed, gestures <- pressed, MaxGestures <- MaxKeys, Answers <- Found

ASSUME HealingAssumption ==
    /\ Bridged \subseteq Titles /\ Found \subseteq Seq(Heal!Ids)
    /\ None \notin Heal!Ids

ScreensInit ==
    /\ Init
    /\ part \in {"page", "keys", "feeds", "search", "cover", "grid", "anime", "manga", "viewer",
                 "airing", "healing"}
    /\ part \in {"page", "keys"} => PartInit
    /\ part \notin {"page", "keys"} =>
          scr.view = "Browse" /\ win.wide /\ win.tall
    /\ Feed!Init /\ Find!Init /\ Detail!Init /\ Grid!Init
    /\ part # "feeds" => axis = CHOOSE x \in Axes : TRUE
    /\ CASE part = "anime" -> Anime!Init /\ known = None
         [] part = "manga" -> Manga!Init /\ keys = None /\ listed = None
         [] OTHER -> /\ source = None /\ site = None /\ keys = None /\ known = None
                     /\ call = None /\ answer = None /\ listed = None
    /\ Reader!Init
    /\ Air!Init /\ Heal!Init
    /\ part # "viewer" => opened = [kind |-> "images", broken |-> {}, layout |-> Narrow]

\* The interface waits where the bound on the keys withholds the next.
AwaitsKey ==
    /\ \/ part = "airing" /\ pressed = MaxLooks
       \/ part = "healing" /\ pressed = MaxKeys
    /\ UNCHANGED <<part, vars, screenVars, sourceVars, viewVars, showVars>>

ScreensNext ==
    \/ /\ part \in {"page", "keys"} /\ MCNext
       /\ UNCHANGED <<screenVars, sourceVars, viewVars, showVars>>
    \/ /\ part = "feeds" /\ Feed!Next
       /\ UNCHANGED <<part, searchVars, coverVars, gridVars, sourceVars, viewVars, showVars, vars>>
    \/ /\ part = "search" /\ Find!Next
       /\ UNCHANGED <<part, feedVars, coverVars, gridVars, sourceVars, viewVars, showVars, vars>>
    \/ /\ part = "cover" /\ Detail!Next
       /\ UNCHANGED <<part, feedVars, searchVars, gridVars, sourceVars, viewVars, showVars, vars>>
    \/ /\ part = "grid" /\ Grid!Next
       /\ UNCHANGED <<part, feedVars, searchVars, coverVars, sourceVars, viewVars, showVars, vars>>
    \/ /\ part = "anime" /\ Anime!Next
       /\ UNCHANGED <<part, screenVars, known, viewVars, showVars, vars>>
    \/ /\ part = "manga" /\ Manga!Next
       /\ UNCHANGED <<part, screenVars, keys, listed, viewVars, showVars, vars>>
    \/ /\ part = "viewer" /\ Reader!Next
       /\ UNCHANGED <<part, screenVars, sourceVars, showVars, vars>>
    \/ /\ part = "airing" /\ Air!Next
       /\ UNCHANGED <<part, screenVars, sourceVars, viewVars, healingVars, vars>>
    \/ /\ part = "healing" /\ Heal!Next
       /\ UNCHANGED <<part, screenVars, sourceVars, viewVars, airingVars, vars>>
    \/ AwaitsKey

ScreensSpec ==
    ScreensInit /\ [][ScreensNext]_<<part, vars, screenVars, sourceVars, viewVars, showVars>>

-----------------------------------------------------------------------------
(* The properties, stated and explained in the modules. *)

\* A feed is the pages of one question, and one that waits for a page has one
\* coming; the search results are the pages of one query.
FeedIsWhole == Feed!FeedIsWhole
ListIsOneQuery == Find!ListIsOneQuery
\* The detail cover's pixels are those last asked for.
HeldIsAsAsked == Detail!HeldIsAsAsked
\* Every card shows its own cover, keeps it, and none is fetched twice at a time.
GridShowsItsCovers == Grid!GridShowsItsCovers
\* An answer of a source is the whole truth or an error, and a label plays the
\* episode that was listed under it.
HonestAnswers ==
    /\ part = "anime" => Anime!HonestAnswers /\ Anime!PlaysWhatIsListed
    /\ part = "manga" => Manga!WholeAnswers
\* The page on screen is the one that is reported, its place in the book is
\* kept over a resize, and its neighbours are warm.
ReadsOn == Reader!ReadsOn
\* An episode is announced once, and NEW stands for an announcement.
NoticesAreKept == Air!NoticesAreKept
\* A healed row is named by its real id everywhere, the show on screen is looked
\* at, and an answer goes to the row it is about.
HealsWhole == Heal!HealsWhole
=============================================================================
