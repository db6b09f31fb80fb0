------------------------------- MODULE Feeds --------------------------------
(***************************************************************************)
(* Discover's feeds: a list of cards per axis and one of shows similar to  *)
(* a seed show, each fetched page by page by workers while the cursor      *)
(* nears its end, under filters the user may change with fetches in flight *)
(* (tui/discover.cpp, tui/discover_feed.cpp, and the pump, the workers and *)
(* the answers' handlers of tui/app.cpp).                                  *)
(*                                                                         *)
(* A page of rows is its number and what it was asked for.  The cursor may *)
(* be anywhere, so a feed that has rows may want its next page any time.   *)
(***************************************************************************)
EXTENDS Naturals, Sequences

CONSTANTS Axes,
          Seeds,       \* shows a Similar feed is opened for
          Filters,     \* filter sets
          MaxPages,    \* kMaxFeedRows, in pages
          MaxEmpty,    \* kMaxEmptyPages
          LastPage,    \* bound: the page after which a source has no more
          MaxChanges,  \* bound: filter sets committed and seeds opened
          None

VARIABLES
    axis,     \* the axis that is shown, when the Similar feed is not
    seed,     \* the Similar feed's show, or None
    similar,  \* on_similar_
    filters,
    gens,     \* filter_gen_ and similar_gen_
    slots,    \* the axes' and the Similar feed's AxisSlot
    fetches   \* pages asked for and not yet answered

vars == <<axis, seed, similar, filters, gens, slots, fetches>>

Similar == "similar"
Feed == Axes \cup {Similar}

EmptySlot == [pages |-> <<>>, page |-> 0, loading |-> FALSE, failed |-> FALSE,
              exhausted |-> FALSE]

Shown == IF similar THEN Similar ELSE axis
GenOf(f) == IF f = Similar THEN gens.similar ELSE gens.filter

\* What the pages of a feed are pages of.
Asked(f) == [feed |-> f, filters |-> filters,
             seed |-> IF f = Similar THEN seed ELSE None]

Init ==
    /\ axis \in Axes
    /\ seed = None /\ similar = FALSE
    /\ filters = CHOOSE x \in Filters : TRUE
    /\ gens = [filter |-> 0, similar |-> 0]
    /\ slots = [f \in Feed |-> EmptySlot]
    /\ fetches = {}

-----------------------------------------------------------------------------
(* Keys *)

Retried(f) == [slots EXCEPT ![f].failed = FALSE]

\* The axis keys; a failed feed is tried again.
SelectAxis ==
    /\ \E a \in Axes : axis' = a /\ slots' = Retried(a)
    /\ similar' = FALSE
    /\ UNCHANGED <<seed, filters, gens, fetches>>

\* The Similar key: only once a seed was given.
ShowSimilar ==
    /\ seed # None
    /\ similar' = TRUE
    /\ slots' = Retried(Similar)
    /\ UNCHANGED <<axis, seed, filters, gens, fetches>>

\* `~' on a show: another seed starts the feed over.
OpenSimilar ==
    /\ \E s \in Seeds :
          /\ seed' = s
          /\ IF s = seed
             THEN slots' = Retried(Similar) /\ UNCHANGED gens
             ELSE /\ gens.similar < MaxChanges
                  /\ slots' = [slots EXCEPT ![Similar] = EmptySlot]
                  /\ gens' = [gens EXCEPT !.similar = @ + 1]
    /\ similar' = TRUE
    /\ UNCHANGED <<axis, filters, fetches>>

\* Every feed starts over under other filters.
StartedOver == [f \in Feed |-> EmptySlot]

SetFilters ==
    /\ gens.similar < MaxChanges
    /\ \E x \in Filters \ {filters} : filters' = x
    /\ slots' = StartedOver
    /\ gens' = [filter |-> gens.filter + 1, similar |-> gens.similar + 1]
    /\ UNCHANGED <<axis, seed, similar, fetches>>

-----------------------------------------------------------------------------
(* The pump and its workers *)

\* wanted_fetch: the next page when nothing is filed yet or the cursor nears
\* the end.
Wanted(s) == ~s.loading /\ ~s.failed /\ ~s.exhausted

\* On a tick of the Discover view.
Pump ==
    /\ Wanted(slots[Shown])
    /\ slots' = [slots EXCEPT ![Shown].loading = TRUE]
    /\ fetches' = fetches \cup {[of |-> Asked(Shown), gen |-> GenOf(Shown),
                                 page |-> slots[Shown].page + 1]}
    /\ UNCHANGED <<axis, seed, similar, filters, gens>>

\* file_page: a page out of its place only ends the loading.
Filed(s, x, rows, hasNext) ==
    IF x.page # s.page + 1 THEN [s EXCEPT !.loading = FALSE]
    ELSE LET pages == IF rows THEN Append(s.pages, x) ELSE s.pages
         IN  [s EXCEPT !.loading = FALSE, !.failed = FALSE, !.pages = pages,
                       !.page = x.page,
                       !.exhausted = \/ ~hasNext
                                     \/ Len(pages) >= MaxPages
                                     \/ pages = <<>> /\ x.page >= MaxEmpty]

\* What an answer or a failure makes of the slot.
Answered(s, x) ==
    {Filed(s, x, rows, more) :
        rows \in BOOLEAN, more \in {m \in BOOLEAN : m => x.page < LastPage}}
    \cup {[s EXCEPT !.loading = FALSE, !.failed = TRUE]}

\* An answer is filed whatever the filters and the seed it was asked under.
AnyGen(x) == TRUE

\* An answer of another generation is dropped whole.
CurrentGen(x) == x.gen = GenOf(x.of.feed)

FeedAnswer ==
    \E x \in fetches :
        /\ fetches' = fetches \ {x}
        /\ \E s \in Answered(slots[x.of.feed], x) :
              slots' = IF CurrentGen(x) THEN [slots EXCEPT ![x.of.feed] = s] ELSE slots
        /\ UNCHANGED <<axis, seed, similar, filters, gens>>

Next ==
    \/ SelectAxis \/ ShowSimilar \/ OpenSimilar \/ SetFilters
    \/ Pump \/ FeedAnswer

Spec == Init /\ [][Next]_vars

-----------------------------------------------------------------------------
(* Properties *)

\* A feed is one list: its cards are pages of its axis (or its seed) under the
\* filters in force, in order and none twice, whatever was in flight when the
\* filters or the seed changed (discover.cpp set_filters, open_similar,
\* discover_feed.cpp file_page).
FeedIsOneList ==
    \A f \in Feed :
        LET pages == slots[f].pages
        IN  \A i \in DOMAIN pages :
                /\ pages[i].of = Asked(f)
                /\ i > 1 => pages[i].page > pages[i - 1].page

\* A feed that waits for a page is waiting for one that will be taken: its
\* loading arm is down or a fetch of its generation is in flight (set_filters
\* drops every answer that was on its way).
LoadingIsFetched ==
    \A f \in Feed :
        slots[f].loading =>
            \E x \in fetches : x.of.feed = f /\ x.gen = GenOf(f)

\* A feed is what its title says and never stops short: no answer of an older
\* search stays in it or keeps it waiting (discover.cpp, discover_feed.cpp).
FeedIsWhole == FeedIsOneList /\ LoadingIsFetched
=============================================================================
