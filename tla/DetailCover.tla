---------------------------- MODULE DetailCover -----------------------------
(***************************************************************************)
(* The cover of the show whose pane or page is on screen: the state that   *)
(* decides when it is fetched and at which size, the workers that fetch    *)
(* and scale it, the pixels held, and the image the terminal keeps on the  *)
(* screen between frames (tui/covers.cpp CoverState; tui/app.cpp           *)
(* reconcile_cover, the cover handlers, compose_cover_apc).                *)
(*                                                                         *)
(* Every event ends with reconcile_cover and a frame.  A box is the place  *)
(* and size the layout gives the cover, NoBox when there is no room.       *)
(***************************************************************************)
EXTENDS Naturals

CONSTANTS Shows, Boxes, NoBox, None

VARIABLES
    shown,   \* the selected show that has a cover, or None, and its box
    cover,   \* CoverState: for_id_, the box asked for, loading_, has_pixels_
    failed,  \* CoverState::failed_, and whether its cooldown still runs
    held,    \* App::cover_render: the pixels, of which show and box
    placed,  \* PlacedCover: the image on the screen, where, of which pixels
    fetches  \* fetches not answered yet; one is of the current generation

vars == <<shown, cover, failed, held, placed, fetches>>

NoCover == [of |-> None, box |-> NoBox, loading |-> FALSE, has |-> FALSE]
NoFailure == [of |-> None, cooling |-> FALSE]

Init ==
    /\ shown = [show |-> None, box |-> NoBox]
    /\ cover = NoCover
    /\ failed = NoFailure
    /\ held = None
    /\ placed = None
    /\ fetches = {}

-----------------------------------------------------------------------------
(* What every event ends with *)

\* CoverState::decide: is the cover of show `x' to be fetched for this box.
Decides(c, f, x, box) ==
    IF c.of = x /\ (c.loading \/ c.has) THEN box # NoBox /\ box # c.box
    ELSE ~(f.of = x /\ f.cooling)

\* reconcile_cover, from the state the event left: begin_fetch, another
\* generation, and the pixels of another show dropped.
Reconcile(c, f, h, jobs) ==
    LET x == shown'.show
        box == shown'.box
    IN  IF x # None /\ Decides(c, f, x, box) /\ box # NoBox
        THEN /\ cover' = [of |-> x, box |-> box, loading |-> TRUE, has |-> FALSE]
             /\ failed' = NoFailure
             /\ held' = IF h # None /\ h.of = x THEN h ELSE None
             /\ fetches' = {[j EXCEPT !.current = FALSE] : j \in jobs}
                            \cup {[of |-> x, box |-> box, current |-> TRUE]}
        ELSE cover' = c /\ failed' = f /\ held' = h /\ fetches' = jobs

\* compose_cover_apc: an image is wanted when the pixels held are of the show
\* on screen; one that is there for the same show and box stays.
Compose ==
    LET x == shown'.show
        box == shown'.box
        wanted == x # None /\ box # NoBox /\ held' # None /\ held'.of = x
    IN  placed' = IF ~wanted THEN None
                  ELSE IF placed # None /\ placed.of = x /\ placed.box = box
                  THEN placed
                  ELSE [of |-> x, box |-> box, pixels |-> held']

-----------------------------------------------------------------------------
(* Events *)

\* A key, an answer or a resize that changes the selection or the layout.
Select ==
    /\ shown' \in [show : Shows \cup {None}, box : Boxes \cup {NoBox}]
    /\ Reconcile(cover, failed, held, fetches)
    /\ Compose

\* A SIGWINCH that settled: the terminal may have dropped its images, so the
\* next frame places them again.
Purge ==
    /\ placed # None
    /\ placed' = [of |-> placed.of, box |-> placed.box, pixels |-> held]
    /\ UNCHANGED <<shown, cover, failed, held, fetches>>

\* A fetch of any generation is taken.
AnyFetch(j) == TRUE

\* The generation moved on with every later fetch.
Fresh(j) == j.current

CoverDone ==
    /\ UNCHANGED shown
    /\ \E j \in fetches :
          IF Fresh(j) /\ cover.of = j.of
          THEN Reconcile([cover EXCEPT !.loading = FALSE, !.has = TRUE], NoFailure,
                         [of |-> j.of, box |-> j.box], fetches \ {j})
          ELSE Reconcile(cover, failed, held, fetches \ {j})
    /\ Compose

\* A failure forgets the fetch and keeps the pixels there were.
CoverError ==
    /\ UNCHANGED shown
    /\ \E j \in fetches :
          IF Fresh(j) /\ cover.of = j.of
          THEN Reconcile([cover EXCEPT !.of = None, !.loading = FALSE, !.has = FALSE],
                         [of |-> j.of, cooling |-> TRUE], held, fetches \ {j})
          ELSE Reconcile(cover, failed, held, fetches \ {j})
    /\ Compose

\* A tick past the cooldown.
CoolsDown ==
    /\ UNCHANGED shown
    /\ failed.cooling
    /\ Reconcile(cover, [failed EXCEPT !.cooling = FALSE], held, fetches)
    /\ Compose

Next == Select \/ Purge \/ CoverDone \/ CoverError \/ CoolsDown

Spec == Init /\ [][Next]_vars

-----------------------------------------------------------------------------
(* Properties *)

\* Once the cover is no longer loading, the pixels held are those of the show
\* and the box last asked for, though answers to earlier boxes of the same
\* show arrive after it (covers.cpp decide: "sized for a different box").
HeldIsAsAsked ==
    cover.has => held = [of |-> cover.of, box |-> cover.box]
=============================================================================
