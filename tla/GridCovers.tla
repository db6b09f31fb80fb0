----------------------------- MODULE GridCovers -----------------------------
(***************************************************************************)
(* The covers of Discover's cards: the pool that decides which urls are    *)
(* fetched and which are let go, the pixels kept with the image number the *)
(* terminal knows them by, and the images on the screen                    *)
(* (tui/cover_pool.cpp; the cover pump, the handlers and compose_grid_apc  *)
(* of tui/app.cpp).                                                        *)
(*                                                                         *)
(* A frame follows every event that changes what it draws.                 *)
(***************************************************************************)
EXTENDS Naturals, FiniteSets, Functions

CONSTANTS Urls,
          PoolCap,      \* kCoverPoolCap
          Concurrency,  \* effective_cover_concurrency
          Rows          \* cards in the window, the prefetch row included

VARIABLES
    window,  \* urls of the visible cards and of the row after them
    pool,    \* CoverPool: each slot's status
    store,   \* CoverRenderStore: the image number of each url's pixels
    free,    \* the numbers below next_id_ that are not in use
    placed,  \* placed_grid_covers: the number each url is on the screen with
    workers  \* urls being fetched, as many times as they are

vars == <<window, pool, store, free, placed, workers>>

Drop(f, S) == Restrict(f, DOMAIN f \ S)
Put(f, x, v) == [y \in DOMAIN f \cup {x} |-> IF y = x THEN v ELSE f[y]]

Status == {"loading", "ready", "failed", "cooled"}
Nothing == [x \in {} |-> 0]
InUse == {store[u] : u \in DOMAIN store}

Init ==
    /\ window = {}
    /\ pool = Nothing /\ store = Nothing /\ placed = Nothing
    /\ free = {}
    /\ workers = [u \in Urls |-> 0]

\* App::grid_covers_inflight.
Busy == FoldFunction(LAMBDA n, m : n + m, 0, workers)

\* compose_grid_apc: what is on the screen and still wanted stays with the
\* number it has; the rest of what is wanted is sent with its number.
Frame ==
    placed' = [u \in window' \cap DOMAIN store' |->
                  IF u \in DOMAIN placed THEN placed[u] ELSE store'[u]]

-----------------------------------------------------------------------------

\* Scrolling, another axis or feed, another page of cards, leaving the view.
Look ==
    /\ window' \in {W \in SUBSET Urls : Cardinality(W) <= Rows}
    /\ UNCHANGED <<pool, store, free, workers>>
    /\ Frame

\* evict_past_cap's candidates: never in the window, never in flight.
Candidates(slots) == {u \in DOMAIN slots : slots[u] # "loading" /\ u \notin window}

Evicted(slots) ==
    LET over == IF Cardinality(DOMAIN slots) > PoolCap
                THEN Cardinality(DOMAIN slots) - PoolCap ELSE 0
        all  == Candidates(slots)
        take == IF over < Cardinality(all) THEN over ELSE Cardinality(all)
    IN  {E \in SUBSET all : Cardinality(E) = take}

NeedsFetch(slots, u) == u \notin DOMAIN slots \/ slots[u] = "cooled"

\* The pump, once a tick: evict, forget the pixels of what was evicted, fetch
\* what the window lacks as far as the concurrency allows.
Pump ==
    /\ window # {}
    /\ \E E \in Evicted(pool) :
          LET kept == Drop(pool, E)
              gone == DOMAIN store \ DOMAIN kept
              wanted == {u \in window : NeedsFetch(kept, u)}
              room == IF Busy >= Concurrency THEN 0 ELSE Concurrency - Busy
              n == IF room < Cardinality(wanted) THEN room ELSE Cardinality(wanted)
          IN  \E F \in SUBSET wanted :
                /\ Cardinality(F) = n
                /\ pool' = [u \in DOMAIN kept \cup F |->
                               IF u \in F THEN "loading" ELSE kept[u]]
                /\ workers' = [u \in Urls |-> workers[u] + (IF u \in F THEN 1 ELSE 0)]
                /\ store' = Drop(store, gone)
                /\ free' = free \cup {store[u] : u \in gone}
    /\ UNCHANGED window
    /\ Frame

\* The number after as many as are in use.
CountedIds == {Cardinality(InUse) + 1}

\* alloc_id: a number that was freed, else the next one.
FreshIds == IF free # {} THEN free ELSE {Cardinality(InUse) + 1}

\* install and adopt, wherever the grid has moved meanwhile.
GridCoverDone ==
    /\ \E u \in Urls :
          /\ workers[u] > 0
          /\ workers' = [workers EXCEPT ![u] = @ - 1]
          /\ pool' = Put(pool, u, "ready")
          /\ IF u \in DOMAIN store THEN UNCHANGED <<store, free>>
             ELSE \E n \in FreshIds : store' = Put(store, u, n) /\ free' = free \ {n}
    /\ UNCHANGED window
    /\ Frame

GridCoverError ==
    /\ \E u \in Urls :
          /\ workers[u] > 0
          /\ workers' = [workers EXCEPT ![u] = @ - 1]
          /\ pool' = Put(pool, u, "failed")
    /\ UNCHANGED <<window, store, free>>
    /\ Frame

\* A failed url's cooldown runs out.
CoolsDown ==
    /\ \E u \in DOMAIN pool : pool[u] = "failed" /\ pool' = [pool EXCEPT ![u] = "cooled"]
    /\ UNCHANGED <<window, store, free, placed, workers>>

Next == Look \/ Pump \/ GridCoverDone \/ GridCoverError \/ CoolsDown

Spec == Init /\ [][Next]_vars

-----------------------------------------------------------------------------
(* Properties *)

\* Every card on the screen shows its own cover: its number is the one its
\* pixels were sent with and no other card's, though numbers are used again
\* after an eviction (cover_pool.cpp alloc_id, retain; compose_grid_apc).
OwnImage ==
    \A u \in DOMAIN placed :
        /\ u \in DOMAIN store /\ placed[u] = store[u]
        /\ \A w \in DOMAIN placed \ {u} : placed[w] # placed[u]

\* What the grid shows is right and stays (cover_pool.cpp, compose_grid_apc):
\* every card on the screen keeps showing its own cover, a cover on the screen
\* is not let go while its card stays in the window, and no url is fetched twice
\* at a time (cover_pool.hpp: never visible, never in-flight).
GridShowsItsCovers ==
    [][ /\ OwnImage'
        /\ DOMAIN placed \cap window' \subseteq DOMAIN store'
        /\ \A u \in Urls : workers'[u] <= 1 ]_vars
=============================================================================
